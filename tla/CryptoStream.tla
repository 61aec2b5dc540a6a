---------------------------- MODULE CryptoStream ----------------------------
(***************************************************************************)
(* The bundled CryptoJS as the wallet uses it: a hash, a cipher or a key     *)
(* derivation at a time, and the hash of what was just decrypted, which is   *)
(* how a restored wallet gets its address.                                   *)
(***************************************************************************)
EXTENDS HashStream, CipherStream, KeyDerivation

VARIABLE job

vars == <<hashVars, cipherVars, kdf, job>>

Init ==
    /\ job \in {"hash", "cipher", "kdf"}
    /\ HashInit
    /\ IF job = "cipher" THEN CipherInit ELSE NoCipher
    /\ IF job = "kdf" THEN KdfInit ELSE kdf = [pc |-> "none"]

\* generateAddr of the public key that createRestoreWallet decrypted in
\* counter mode: it is hashed as the word array the decryptor returned.
HashDecrypted ==
    /\ job = "cipher" /\ stage[1] = "done" /\ cipher.mode = "CTR"
    /\ HashFinalize(text)
    /\ UNCHANGED <<cipherVars, kdf, job>>

Next ==
    \/ job = "hash" /\ HashNext /\ UNCHANGED <<cipherVars, kdf, job>>
    \/ job = "cipher" /\ CipherNext /\ UNCHANGED <<hashVars, kdf, job>>
    \/ HashDecrypted
    \/ job = "kdf" /\ KdfNext /\ UNCHANGED <<hashVars, cipherVars, job>>

Spec == Init /\ [][Next]_vars

-----------------------------------------------------------------------------
(* Types                                                                     *)

IsWordArray(a) ==
    /\ DOMAIN a = {"words", "sigBytes"}
    /\ a.sigBytes \in Nat
    /\ Len(a.words) % WordBytes = 0
    /\ a.sigBytes <= Len(a.words)

\* The buffers and results are word arrays with room for the bytes they
\* count, a hasher that does not finalize holds less than a block, and an
\* encryptor that pads holds less than a block between two pieces.
TypeOK ==
    /\ IsWordArray(hasher.data) /\ (digest = None => hasher.data.sigBytes < HashBlock)
    /\ job = "cipher" =>
          /\ IsWordArray(cipher.data) /\ IsWordArray(text)
          /\ cipher.data.sigBytes < CipherBlock * (1 + cipher.minBufferSize)
          /\ cipher.counter \in 0 .. CounterWraps - 1
    /\ job = "kdf" =>
          /\ kdf.hash \in DOMAIN kdf.heap
          /\ kdf.block \in 0 .. Len(kdf.heap) /\ kdf.result \in 0 .. Len(kdf.heap)
          /\ Len(kdf.derivedKey) <= (kdf.blockIndex - 1) * DigestWords
=============================================================================
