------------------------------ MODULE HashStream ------------------------------
(***************************************************************************)
(* A Hasher of CryptoJS (SHA256, and SHA512 with its own sizes) that is fed  *)
(* a message in pieces.  The compression function is symbolic: the state is  *)
(* the sequence of blocks that went into it.                                 *)
(***************************************************************************)
EXTENDS WordArrays

CONSTANTS HashBlockWords,   \* 16 in SHA256, 32 in SHA512
          LengthWords,      \* words of the message length: 2, and 4 in SHA512
          Pieces,           \* sizes of the pieces
          MaxMessage        \* a bound: bytes of a message

VARIABLES hasher,     \* buffer, bytes counted, state
          message,    \* what it was fed since the last reset
          excess,     \* a piece held more bytes than it counts
          digest

hashVars == <<hasher, message, excess, digest>>

HashStreamAssumption ==
    /\ HashBlockWords \in Nat /\ LengthWords \in 2 .. HashBlockWords
    /\ Pieces \subseteq Nat /\ MaxMessage \in Nat
ASSUME HashStreamAssumption

HashBlock == HashBlockWords * WordBytes
None == <<>>

NewHasher == [data |-> Empty, nDataBytes |-> 0, hash |-> <<>>]

HashInit == hasher = NewHasher /\ message = <<>> /\ excess = FALSE /\ digest = None

\* The next n bytes of a message.  Each is a symbol of its own.
NextPiece(n) == Create([i \in 1 .. n |-> {<<"message", Len(message) + i>>}])

Exceeds(piece) == clamp(piece).words # SubSeq(piece.words, 1, Len(clamp(piece).words))

\* _process, the way a hasher does it.
Compressed(h) ==
    LET n == BlocksReady(h.data, HashBlock, FALSE, 0)
    IN  [h EXCEPT !.hash = @ \o Blocks(h.data, HashBlock, n),
                  !.data = Rest(h.data, HashBlock, n)]

Appended(h, piece) == [h EXCEPT !.data = concat(@, piece), !.nDataBytes = @ + piece.sigBytes]

\* A mistaken padding: the length is put into the block of the last byte.
PaddedShort(h) ==
    LET left == h.data.sigBytes
        size == ((left \div HashBlock) + 1) * HashBlock
    IN  [h EXCEPT !.data =
           [words |-> [i \in 1 .. size |->
              CASE i = size -> {<<"length", h.nDataBytes>>}
                [] i = left + 1 -> {<<"0x80">>}
                [] OTHER -> ByteAt(h.data, i)], sigBytes |-> size]]

\* The marker is or-ed behind the last byte, the length assigned to the last
\* words of the first block that has room for both.
Padded(h) ==
    LET left == h.data.sigBytes
        size == (((left + LengthWords * WordBytes) \div HashBlock) + 1) * HashBlock
    IN  [h EXCEPT !.data =
           [words |-> [i \in 1 .. size |->
              CASE i = size -> {<<"length", h.nDataBytes>>}
                [] i > size - 2 * WordBytes /\ i < size -> Zero
                [] i = left + 1 -> ByteAt(h.data, i) \cup {<<"0x80">>}
                [] OTHER -> ByteAt(h.data, i)],
            sigBytes |-> size]]

Takes(piece) ==
    /\ digest = None
    /\ Len(message) + piece.sigBytes <= MaxMessage
    /\ message' = message \o Bytes(piece)
    /\ excess' = (excess \/ Exceeds(piece))

HashUpdate(piece) ==
    /\ Takes(piece)
    /\ hasher' = Compressed(Appended(hasher, piece))
    /\ UNCHANGED digest

\* finalize, with a last piece or without (an empty one).
HashFinalize(piece) ==
    /\ Takes(piece)
    /\ hasher' = Compressed(Padded(Appended(hasher, piece)))
    /\ digest' = hasher'.hash

\* A mistaken reset: the state starts anew, the bytes counted do not.
HashResetCount ==
    /\ hasher' = [NewHasher EXCEPT !.nDataBytes = hasher.nDataBytes]
    /\ message' = <<>> /\ excess' = FALSE /\ digest' = None

HashReset ==
    /\ hasher' = NewHasher
    /\ message' = <<>> /\ excess' = FALSE /\ digest' = None

HashNext ==
    \/ \E n \in Pieces : HashUpdate(NextPiece(n)) \/ HashFinalize(NextPiece(n))
    \/ HashReset

-----------------------------------------------------------------------------
(* Properties                                                                *)

\* The hash of a message by its definition: the message, the marker, as few
\* zeros as fill a block, and the length.
ReferenceDigest(m) ==
    LET tail == LengthWords * WordBytes
        size == CHOOSE s \in {k * HashBlock : k \in 1 .. Len(m) + 2} :
                   Len(m) + 1 + tail <= s /\ s - HashBlock < Len(m) + 1 + tail
        bytes == [i \in 1 .. size |-> CASE i <= Len(m) -> m[i]
                                        [] i = Len(m) + 1 -> {<<"0x80">>}
                                        [] i = size -> {<<"length", Len(m)>>}
                                        [] OTHER -> Zero]
    IN  [b \in 1 .. size \div HashBlock |->
           [i \in 1 .. HashBlock |-> bytes[(b - 1) * HashBlock + i]]]

\* However a message is cut into pieces and whatever was hashed before the
\* reset, the digest is the hash of the message, as long as no piece holds
\* bytes past its count (HashDecrypted has one that does).
DigestOfMessage ==
    digest # None /\ ~excess => digest = ReferenceDigest(message)
=============================================================================
