----------------------------- MODULE KeyDerivation -----------------------------
(***************************************************************************)
(* CryptoJS's HMAC, PBKDF2 and EvpKDF over a symbolic hasher.  Word arrays   *)
(* are objects here: a hasher may return the array it keeps its state in,    *)
(* and PBKDF2 changes the array it was returned in place.  A word is the set *)
(* of symbols whose exclusive or it is.                                      *)
(***************************************************************************)
EXTENDS Naturals, Sequences, FiniteSetsExt

CONSTANTS KdfBlockWords,  \* block of the hasher, in words
          DigestWords,    \* its digest
          KeySizes, Iterations, PasswordSizes

VARIABLE kdf

KeyDerivationAssumption ==
    /\ KdfBlockWords \in Nat \ {0} /\ DigestWords \in 1 .. KdfBlockWords
    /\ KeySizes \subseteq Nat \ {0} /\ Iterations \subseteq Nat \ {0}
    /\ PasswordSizes \subseteq Nat
ASSUME KeyDerivationAssumption

Digest(m) == [i \in 1 .. DigestWords |-> {<<"H", m, i>>}]
XorWords(a, b) == [i \in DOMAIN a |-> IF i \in DOMAIN b THEN SymDiff(a[i], b[i]) ELSE a[i]]
Symbols(name, n) == [i \in 1 .. n |-> {<<name, i>>}]
Number(n) == << {<<"number", n>>} >>

-----------------------------------------------------------------------------
(* The hasher: what it was fed and, in heap, the arrays it made.  k.hash is  *)
(* the array of its state.                                                   *)

FirstState == [i \in 1 .. DigestWords |-> {<<"H0", i>>}]

\* A mistaken reset: the array of the state is filled again, not made anew.
hasherResetInPlace(k) == [k EXCEPT !.fed = <<>>, !.heap[k.hash] = FirstState]

hasherReset(k) == [k EXCEPT !.fed = <<>>, !.heap = Append(@, FirstState),
                      !.hash = Len(k.heap) + 1]
hasherUpdate(k, words) == [k EXCEPT !.fed = @ \o words]

\* SHA256, SHA1 and MD5 return the array of their state, SHA512 and SHA384 a
\* copy (toX32).
hasherFinalize(k, words) ==
    LET digest == Digest(k.fed \o words)
    IN  IF k.copies
        THEN [k EXCEPT !.heap = Append(@, digest), !.result = Len(k.heap) + 1]
        ELSE [k EXCEPT !.heap[k.hash] = digest, !.result = k.hash]

-----------------------------------------------------------------------------
(* HMAC                                                                      *)

hmacKey(password) ==
    LET short == IF Len(password) > KdfBlockWords THEN Digest(password) ELSE password
    IN  [i \in 1 .. KdfBlockWords |-> IF i <= Len(short) THEN short[i] ELSE {}]
oKey(password) == XorWords(hmacKey(password), [i \in 1 .. KdfBlockWords |-> {<<"opad">>}])
iKey(password) == XorWords(hmacKey(password), [i \in 1 .. KdfBlockWords |-> {<<"ipad">>}])

hmacReset(k) == hasherUpdate(hasherReset(k), iKey(k.password))

hmacFinalize(k, words) ==
    LET inner == hasherFinalize(k, words)
    IN  hasherFinalize(hasherReset(inner), oKey(k.password) \o inner.heap[inner.result])

-----------------------------------------------------------------------------
(* PBKDF2 and EvpKDF: compute, one hash at a time                            *)

NewKdf(alg, copies, keySize, iterations, size) ==
    [pc |-> "block", alg |-> alg, copies |-> copies, keySize |-> keySize,
     iterations |-> iterations, password |-> Symbols("password", size),
     fed |-> <<>>, heap |-> <<FirstState>>, hash |-> 1, result |-> 0,
     block |-> 0, blockIndex |-> 1, i |-> 1, derivedKey |-> <<>>]

KdfInit ==
    \E alg \in {"PBKDF2", "EvpKDF"}, copies \in BOOLEAN, keySize \in KeySizes,
       iterations \in Iterations, size \in PasswordSizes :
       LET k == NewKdf(alg, copies, keySize, iterations, size)
       IN  kdf = IF alg = "PBKDF2" THEN hmacReset(k) ELSE hasherReset(k)

Salt == Symbols("salt", 1)

\* The first hash of a block.
FirstHash ==
    /\ kdf.pc = "block"
    /\ LET k == IF kdf.alg = "PBKDF2"
                THEN hmacFinalize(hasherUpdate(kdf, Salt), Number(kdf.blockIndex))
                ELSE hasherFinalize(hasherUpdate(IF kdf.block = 0 THEN kdf
                                     ELSE hasherUpdate(kdf, kdf.heap[kdf.block]), kdf.password), Salt)
           again == IF kdf.alg = "PBKDF2" THEN hmacReset(k) ELSE hasherReset(k)
       IN  kdf' = [again EXCEPT !.pc = "iterate", !.i = 1, !.block = k.result]

\* The next iteration: PBKDF2 adds it to the block, EvpKDF goes on with it.
NextHash ==
    /\ kdf.pc = "iterate" /\ kdf.i < kdf.iterations
    /\ kdf' = IF kdf.alg = "PBKDF2"
              THEN LET k == hmacFinalize(kdf, kdf.heap[IF kdf.i = 1 THEN kdf.block
                                                       ELSE kdf.result])
                       r == hmacReset(k)
                   IN  [r EXCEPT !.i = @ + 1,
                                 !.heap[kdf.block] = XorWords(@, r.heap[k.result])]
              ELSE LET k == hasherFinalize(kdf, kdf.heap[kdf.block])
                   IN  [hasherReset(k) EXCEPT !.i = @ + 1, !.block = k.result]

\* The block is appended to the key; the words past its size are never used.
AppendBlock ==
    /\ kdf.pc = "iterate" /\ kdf.i = kdf.iterations
    /\ LET key == kdf.derivedKey \o kdf.heap[kdf.block]
       IN  kdf' = [kdf EXCEPT !.derivedKey = key, !.blockIndex = @ + 1,
                              !.pc = IF Len(key) < kdf.keySize THEN "block" ELSE "done"]

KdfNext == FirstHash \/ NextHash \/ AppendBlock

-----------------------------------------------------------------------------
(* Properties                                                                *)

\* HMAC, PBKDF2 (RFC 8018) and EvpKDF by their definitions.
ReferenceHmac(password, m) == Digest(oKey(password) \o Digest(iKey(password) \o m))

\* The hashes of a block and the sum of them so far.
ReferenceHashes(alg, password, iterations, index, previous) ==
    LET u[i \in 1 .. iterations] ==
            LET hash == IF alg = "PBKDF2"
                        THEN ReferenceHmac(password, IF i = 1 THEN Salt \o Number(index)
                                                     ELSE u[i - 1].hash)
                        ELSE Digest(IF i = 1 THEN previous \o password \o Salt
                                    ELSE u[i - 1].hash)
            IN  [hash |-> hash, sum |-> IF i = 1 THEN hash ELSE XorWords(u[i - 1].sum, hash)]
    IN  u

ReferenceBlock(alg, password, iterations, index, previous) ==
    LET last == ReferenceHashes(alg, password, iterations, index, previous)[iterations]
    IN  IF alg = "PBKDF2" THEN last.sum ELSE last.hash

\* Each of n blocks and the key up to it.
ReferenceKeys(alg, password, iterations, n) ==
    LET made[b \in 0 .. n] ==
            IF b = 0 THEN [block |-> <<>>, key |-> <<>>]
            ELSE LET block == ReferenceBlock(alg, password, iterations, b, made[b - 1].block)
                 IN  [block |-> block, key |-> made[b - 1].key \o block]
    IN  made

KeyBlocks(size) == (size + DigestWords - 1) \div DigestWords
ReferenceKey(k) ==
    LET n == KeyBlocks(k.keySize)
    IN  SubSeq(ReferenceKeys(k.alg, k.password, k.iterations, n)[n].key, 1, k.keySize)

\* The derived key is the one of the definition, although the hashers share
\* arrays with their callers and the loops change them in place.
DerivedKeyCorrect ==
    kdf.pc = "done" => SubSeq(kdf.derivedKey, 1, kdf.keySize) = ReferenceKey(kdf)
=============================================================================
