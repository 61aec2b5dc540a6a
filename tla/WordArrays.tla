------------------------------ MODULE WordArrays ------------------------------
(***************************************************************************)
(* CryptoJS's WordArray and the buffer of its block algorithms.  A word      *)
(* array is the bytes of its words and a count of those that are significant;*)
(* a last word may hold more bytes than count.  A byte is the set of symbols *)
(* whose exclusive or it is, so zero is the empty set.                       *)
(***************************************************************************)
EXTENDS Naturals, Sequences, FiniteSetsExt

CONSTANT WordBytes      \* 4 in the code

WordArraysAssumption == WordBytes \in Nat \ {0}
ASSUME WordArraysAssumption

Zero == {}
Ceil(n, d) == (n + d - 1) \div d

\* A byte of the words, zero where JavaScript's array has none.
ByteAt(a, i) == IF i <= Len(a.words) THEN a.words[i] ELSE Zero
Words(n, Byte(_)) == [i \in 1 .. Ceil(n, WordBytes) * WordBytes |-> Byte(i)]

Create(bytes) ==
    [words |-> Words(Len(bytes), LAMBDA i : IF i <= Len(bytes) THEN bytes[i] ELSE Zero),
     sigBytes |-> Len(bytes)]
Empty == Create(<<>>)

\* The significant bytes, which is what Hex, Base64 and Latin1 make text of.
Bytes(a) == [i \in 1 .. a.sigBytes |-> ByteAt(a, i)]

clamp(a) ==
    [a EXCEPT !.words = Words(a.sigBytes, LAMBDA i : IF i <= a.sigBytes THEN ByteAt(a, i)
                                                     ELSE Zero)]

\* Byte by byte behind an incomplete word; otherwise word by word, and then
\* with whatever the last word of that holds past its count.
concat(this, that) ==
    LET n == this.sigBytes
        all == n + that.sigBytes
        whole == n % WordBytes = 0
    IN  [words |-> Words(all, LAMBDA i :
                      CASE i <= n -> ByteAt(this, i)
                        [] i > n /\ (whole \/ i <= all) -> ByteAt(that, i - n)
                        [] OTHER -> Zero),
         sigBytes |-> all]

-----------------------------------------------------------------------------
(* BufferedBlockAlgorithm                                                    *)

\* A mistaken buffer: every algorithm keeps a block back.
BlocksReadyKept(data, size, doFlush, minBufferSize) ==
    IF doFlush THEN Ceil(data.sigBytes, size)
    ELSE Max({(data.sigBytes \div size) - 1, 0})

\* The blocks of the buffer that are processed now.
BlocksReady(data, size, doFlush, minBufferSize) ==
    IF doFlush THEN Ceil(data.sigBytes, size)
    ELSE Max({(data.sigBytes \div size) - minBufferSize, 0})

Block(data, size, b) == [i \in 1 .. size |-> ByteAt(data, (b - 1) * size + i)]
Blocks(data, size, n) == [b \in 1 .. n |-> Block(data, size, b)]

\* What stays in the buffer after n blocks of it were processed.
Rest(data, size, n) ==
    [words |-> SubSeq(data.words, n * size + 1, Len(data.words)),
     sigBytes |-> data.sigBytes - Min({n * size, data.sigBytes})]

\* The blocks that come out, as words, and the count of what went in.
Processed(data, size, blocks) ==
    [words |-> [i \in 1 .. Len(blocks) * size |->
                   blocks[((i - 1) \div size) + 1][((i - 1) % size) + 1]],
     sigBytes |-> Min({Len(blocks) * size, data.sigBytes})]
=============================================================================
