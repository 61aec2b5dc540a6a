----------------------------- MODULE CipherStream -----------------------------
(***************************************************************************)
(* CryptoJS's block ciphers: a message is encrypted in pieces, written in    *)
(* OpenSSL's format, read back and decrypted in pieces.  The block cipher is *)
(* symbolic: a block encrypts to symbols of its own and only those decrypt   *)
(* to it again.                                                              *)
(***************************************************************************)
EXTENDS WordArrays

CONSTANTS CipherBlockWords, \* 4 in AES
          CipherPieces,     \* sizes of the pieces
          MaxText,          \* a bound: bytes of a message
          CounterWraps      \* 2^32: a counter is one word

VARIABLES cipher,     \* the encryptor or decryptor
          plain,      \* the message that was encrypted
          text,       \* what the cipher gave so far
          input,      \* what the decryptor has still to be fed
          stage

cipherVars == <<cipher, plain, text, input, stage>>

CipherStreamAssumption ==
    /\ CipherBlockWords \in Nat \ {0} /\ CounterWraps \in Nat \ {0}
    /\ CipherPieces \subseteq Nat /\ MaxText \in Nat
ASSUME CipherStreamAssumption

CipherBlock == CipherBlockWords * WordBytes
Modes == {"CBC", "CTR"}
Formats == {"salted", "unsalted"}
Derived(salt) == <<"key", salt>>
IV == [i \in 1 .. CipherBlock |-> {<<"iv", i>>}]
XorBlock(b, c) == [i \in 1 .. CipherBlock |-> SymDiff(b[i], c[i])]

encryptBlock(key, b) == [i \in 1 .. CipherBlock |-> {<<"E", key, b, i>>}]
decryptBlock(key, b) ==
    LET made == {s[3] : s \in {t \in UNION {b[i] : i \in DOMAIN b} : t[1] = "E" /\ t[2] = key}}
    IN  IF \E p \in made : encryptBlock(key, p) = b
        THEN CHOOSE p \in made : encryptBlock(key, p) = b
        ELSE [i \in 1 .. CipherBlock |-> {<<"D", key, b, i>>}]

\* A key stream block: the counter is the iv with its last word counted up.
Keystream(key, counter) == [i \in 1 .. CipherBlock |-> {<<"E", key, counter, i>>}]

\* reset: a decryptor keeps one block back, from which the padding is taken.
Start(mode, xform, salt) ==
    [mode |-> mode, xform |-> xform, key |-> Derived(salt), data |-> Empty,
     minBufferSize |-> IF xform = "decrypt" THEN 1 ELSE 0,
     prevBlock |-> IV, counter |-> 0]

\* A mistaken order: the counter is counted up before it is encrypted.
processBlockEarly(c, b) ==
    CASE c.mode = "CTR" ->
           LET counter == (c.counter + 1) % CounterWraps
           IN  [c |-> [c EXCEPT !.counter = counter],
                out |-> XorBlock(b, Keystream(c.key, counter))]
      [] c.mode = "CBC" /\ c.xform = "encrypt" ->
           LET out == encryptBlock(c.key, XorBlock(b, c.prevBlock))
           IN  [c |-> [c EXCEPT !.prevBlock = out], out |-> out]
      [] OTHER ->
           [c |-> [c EXCEPT !.prevBlock = b],
            out |-> XorBlock(decryptBlock(c.key, b), c.prevBlock)]

\* processBlock of the mode: the block that comes out and the cipher after it.
processBlock(c, b) ==
    CASE c.mode = "CTR" ->
           [c |-> [c EXCEPT !.counter = (@ + 1) % CounterWraps],
            out |-> XorBlock(b, Keystream(c.key, c.counter))]
      [] c.mode = "CBC" /\ c.xform = "encrypt" ->
           LET out == encryptBlock(c.key, XorBlock(b, c.prevBlock))
           IN  [c |-> [c EXCEPT !.prevBlock = out], out |-> out]
      [] OTHER ->
           [c |-> [c EXCEPT !.prevBlock = b],
            out |-> XorBlock(decryptBlock(c.key, b), c.prevBlock)]

\* The cipher after each of n blocks of its buffer, and what came out until then.
Running(c, n) ==
    LET s[k \in 0 .. n] ==
            IF k = 0 THEN [c |-> c, out |-> <<>>]
            ELSE LET step == processBlock(s[k - 1].c, Block(c.data, CipherBlock, k))
                 IN  [c |-> step.c, out |-> Append(s[k - 1].out, step.out)]
    IN  s

\* _process: the cipher afterwards and the word array it returns.
process(c, doFlush) ==
    LET n == BlocksReady(c.data, CipherBlock, doFlush, c.minBufferSize)
        ran == Running(c, n)[n]
    IN  [c |-> [ran.c EXCEPT !.data = Rest(c.data, CipherBlock, n)],
         out |-> Processed(c.data, CipherBlock, ran.out)]

Fed(c, piece) == [c EXCEPT !.data = concat(@, piece)]

\* A mistaken padding: a full last block is left as it is.
padShort(data) ==
    LET n == (CipherBlock - (data.sigBytes % CipherBlock)) % CipherBlock
    IN  concat(data, Create([i \in 1 .. n |-> {<<"pad", n>>}]))

\* Pkcs7; counter mode is used with NoPadding.
pad(data) ==
    LET n == CipherBlock - (data.sigBytes % CipherBlock)
    IN  concat(data, Create([i \in 1 .. n |-> {<<"pad", n>>}]))

\* A last byte that is no padding is taken for a count all the same (here 1).
unpad(data) ==
    LET last == data.words[Ceil(data.sigBytes, WordBytes) * WordBytes]
        ns == {k \in 1 .. CipherBlock : last = {<<"pad", k>>}}
    IN  [data EXCEPT !.sigBytes = @ - (IF ns = {} THEN 1 ELSE Max(ns))]

cipherFinalize(c, piece) ==
    LET fed == Fed(c, piece)
        padded == IF c.mode = "CBC" /\ c.xform = "encrypt"
                  THEN [fed EXCEPT !.data = pad(@)] ELSE fed
        done == process(padded, TRUE)
    IN  IF c.mode = "CBC" /\ c.xform = "decrypt" /\ done.out.sigBytes > 0
        THEN [done EXCEPT !.out = unpad(@)] ELSE done

-----------------------------------------------------------------------------
(* OpenSSL's format                                                          *)

Magic == [i \in 1 .. 2 * WordBytes |-> {<<"Salted__", i>>}]
SaltBytes == [i \in 1 .. 2 * WordBytes |-> {<<"salt", i>>}]

\* Base64 keeps the bytes that count and nothing else.
stringify(format, ciphertext) ==
    LET all == IF format = "salted"
               THEN concat(concat(Create(Magic), Create(SaltBytes)), ciphertext)
               ELSE ciphertext
    IN  Create(Bytes(all))

\* The salt and the ciphertext of a text.
parse(all) ==
    IF Len(all.words) >= Len(Magic) /\ SubSeq(all.words, 1, Len(Magic)) = Magic
    THEN [salt |-> SubSeq(all.words, Len(Magic) + 1, 4 * WordBytes),
          ciphertext |-> [words |-> SubSeq(all.words, 4 * WordBytes + 1, Len(all.words)),
                          sigBytes |-> all.sigBytes - 4 * WordBytes]]
    ELSE [salt |-> <<>>, ciphertext |-> all]

-----------------------------------------------------------------------------
CipherInit ==
    /\ \E mode \in Modes, format \in Formats :
          /\ stage = <<"encrypt", format>>
          /\ cipher = Start(mode, "encrypt", IF format = "salted" THEN SaltBytes ELSE <<>>)
    /\ plain = <<>> /\ text = Empty /\ input = <<>>

NoCipher ==
    /\ cipher = [mode |-> "none"] /\ stage = <<"none">>
    /\ plain = <<>> /\ text = Empty /\ input = <<>>

NextPlain(n) == Create([i \in 1 .. n |-> {<<"plain", Len(plain) + i>>}])

Gives(result) == /\ cipher' = result.c
                 /\ text' = concat(text, result.out)

EncryptProcess(n) ==
    /\ stage[1] = "encrypt" /\ Len(plain) + n <= MaxText
    /\ Gives(process(Fed(cipher, NextPlain(n)), FALSE))
    /\ plain' = plain \o Bytes(NextPlain(n))
    /\ UNCHANGED <<input, stage>>

\* The ciphertext is written and read, and a decryptor made with what was read.
EncryptFinalize(n) ==
    /\ stage[1] = "encrypt" /\ Len(plain) + n <= MaxText
    /\ plain' = plain \o Bytes(NextPlain(n))
    /\ LET result == cipherFinalize(cipher, NextPlain(n))
           read == parse(stringify(stage[2], concat(text, result.out)))
       IN  /\ input' = Bytes(read.ciphertext)
           /\ cipher' = Start(cipher.mode, "decrypt", read.salt)
    /\ text' = Empty
    /\ stage' = <<"decrypt", stage[2]>>

DecryptProcess(n) ==
    /\ stage[1] = "decrypt" /\ n <= Len(input)
    /\ Gives(process(Fed(cipher, Create(SubSeq(input, 1, n))), FALSE))
    /\ input' = SubSeq(input, n + 1, Len(input))
    /\ UNCHANGED <<plain, stage>>

DecryptFinalize ==
    /\ stage[1] = "decrypt"
    /\ Gives(cipherFinalize(cipher, Create(input)))
    /\ input' = <<>>
    /\ stage' = <<"done", stage[2]>>
    /\ UNCHANGED plain

CipherNext ==
    \/ \E n \in CipherPieces : EncryptProcess(n) \/ EncryptFinalize(n) \/ DecryptProcess(n)
    \/ DecryptFinalize

-----------------------------------------------------------------------------
(* Properties                                                                *)

\* What is decrypted is what was encrypted, however both were cut into pieces,
\* with padding and without, and with the salt carried in the text or none.
RoundTrip == stage[1] = "done" => Bytes(text) = plain

\* The message with its padding, its blocks (the last one filled with zeros),
\* and the blocks of cipher block chaining.
Whole(mode, m) ==
    LET k == CipherBlock - (Len(m) % CipherBlock)
    IN  IF mode = "CBC" THEN m \o [i \in 1 .. k |-> {<<"pad", k>>}] ELSE m

TextBlock(m, j) ==
    [i \in 1 .. CipherBlock |-> IF (j - 1) * CipherBlock + i <= Len(m)
                                THEN m[(j - 1) * CipherBlock + i] ELSE Zero]

Chaining(key, m, n) ==
    LET chain[j \in 0 .. n] ==
            IF j = 0 THEN IV ELSE encryptBlock(key, XorBlock(TextBlock(m, j), chain[j - 1]))
    IN  chain

\* The ciphertext by the definition of the modes, at the end of encryption.
ReferenceBlocks(mode, key, m) ==
    LET bytes == Whole(mode, m)
        out(j) == IF mode = "CBC" THEN Chaining(key, bytes, Ceil(Len(bytes), CipherBlock))[j]
                  ELSE XorBlock(TextBlock(bytes, j), Keystream(key, (j - 1) % CounterWraps))
    IN  [i \in 1 .. Len(bytes) |-> out(((i - 1) \div CipherBlock) + 1)[((i - 1) % CipherBlock) + 1]]

CiphertextOfMessage ==
    stage[1] = "decrypt" /\ cipher.data = Empty /\ text = Empty =>
        input = ReferenceBlocks(cipher.mode, cipher.key, plain)
=============================================================================
