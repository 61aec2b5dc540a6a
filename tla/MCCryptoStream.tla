--------------------------- MODULE MCCryptoStream ---------------------------
(***************************************************************************)
(* A small instance of CryptoStream: words of two bytes, hash blocks of      *)
(* four words with a length of two, cipher blocks of two words, a counter    *)
(* that wraps, and pieces around the sizes of a word and of a block.         *)
(***************************************************************************)
EXTENDS CryptoStream

MCPieces == {0, 1, 2, 3, 5}
MCKeySizes == {1, 2, 3, 5}
MCIterations == {1, 2, 3}
MCPasswordSizes == {0, 1, 3, 4}
=============================================================================
