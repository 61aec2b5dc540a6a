------------------------------ MODULE WalletData ------------------------------
(***************************************************************************)
(* The data of the browser's wallet (moaBCWalletLib, moaClientCoreAuthLib):  *)
(* the wallet that is stored, the backup that is sent to the server and the  *)
(* way back.  Cryptography is symbolic: a ciphertext opens with what it was  *)
(* made with and gives Garbage otherwise, digests are equal when their       *)
(* inputs are.  A key pair and the salt drawn with it carry one name.        *)
(***************************************************************************)
EXTENDS Naturals, Sequences

CONSTANTS Keys, Psws,
          PukSize, HmacSize, SaltSize   \* 65, 32 and 32 bytes in the code

WalletDataAssumption == {PukSize, HmacSize, SaltSize} \subseteq Nat \ {0}
ASSUME WalletDataAssumption

Null == [t |-> "null"]
Garbage == [t |-> "garbage"]
Prk(key) == [t |-> "prk", key |-> key]
Puk(key) == [t |-> "puk", key |-> key]
Salt(key) == [t |-> "salt", key |-> key]

\* A hash of the public key: of its hex text in a wallet that was created, of
\* its bytes in one that was restored.
generateAddr(type, puk) == [t |-> "addr", of |-> puk, type |-> type]
Hmac(key, data) == [t |-> "hmac", key |-> key, data |-> data]

\* AES in counter mode under a key derived from password and salt
Encrypt(psw, salt, data) == [t |-> "aes", psw |-> psw, salt |-> salt, data |-> data]
Decrypt(psw, salt, data) ==
    IF data.t = "aes" /\ data = Encrypt(psw, salt, data.data) THEN data.data ELSE Garbage

\* password based encryption in OpenSSL's format, which carries its own salt
Seal(psw, data) == [t |-> "pbe", psw |-> psw, data |-> data]
Open(psw, data) ==
    IF data.t = "pbe" /\ data = Seal(psw, data.data) THEN data.data ELSE Garbage

\* getPrk, in its two modes
EncryptPrk(psw, salt, prk) == Seal(psw, Encrypt(psw, salt, prk))
DecryptPrk(psw, salt, data) == Decrypt(psw, salt, Open(psw, data))

-----------------------------------------------------------------------------
(* The stored wallet                                                         *)

Types == {"N", "R"}
Fields == <<"version", "salt", "cipheredData", "walletPuk", "walletAddr", "macData">>
FieldNames == {Fields[i] : i \in DOMAIN Fields}
Version == [t |-> "version"]   \* stands for the other constants of Options as well
Empty == [f \in FieldNames |-> Null]

generateMAC(type, psw, w) ==
    [t |-> "mac", psw |-> psw, type |-> type, version |-> w.version, salt |-> w.salt,
     target |-> w.cipheredData, puk |-> w.walletPuk, address |-> w.walletAddr]

\* What saveData is given: the fields and, last, their MAC.
Wallet(type, psw, salt, cipheredData, puk) ==
    LET w == [f \in FieldNames |->
                 CASE f = "salt" -> salt
                   [] f = "cipheredData" -> cipheredData
                   [] f = "walletPuk" -> puk
                   [] f = "walletAddr" -> generateAddr(type, puk)
                   [] f = "macData" -> Null
                   [] OTHER -> Version]
    IN  [w EXCEPT !.macData = generateMAC(type, psw, w)]

createNonRestoreWallet(psw, key) ==
    Wallet("N", psw, Salt(key), EncryptPrk(psw, Salt(key), Prk(key)), Puk(key))

\* A backup holds the private key encrypted once, the wallet seals it again.
createRestoreWallet(psw, data) ==
    Wallet("R", psw, data.salt, Seal(psw, data.prk), Decrypt(psw, data.salt, data.puk))

-----------------------------------------------------------------------------
(* The backup                                                                *)

generateRestoreDataFormat(psw, key) ==
    LET encPuk == Encrypt(psw, Salt(key), Puk(key))
    IN  [hmac |-> Hmac(psw, encPuk),
         prk |-> Encrypt(psw, Salt(key), Prk(key)), puk |-> encPuk, salt |-> Salt(key)]

\* A value as bytes, and bytes as the value they are, if they are all of one;
\* a part of bytes that are too few is empty (substr would give fewer).
Bytes(x, n) == [i \in 1 .. n |-> [of |-> x, at |-> i, size |-> n]]
Slice(bytes, first, last) ==
    IF 1 <= first /\ last <= Len(bytes) THEN SubSeq(bytes, first, last) ELSE <<>>
Value(bytes) ==
    IF bytes # <<>> /\ bytes = Bytes(bytes[1].of, bytes[1].size) THEN bytes[1].of ELSE Garbage

generateWalletRegistMsg(id, restoreMsg) ==
    [header |-> "BCWalletRegistReq", id |-> id, prk |-> restoreMsg.prk,
     puk |-> Bytes(restoreMsg.puk, PukSize) \o Bytes(restoreMsg.hmac, HmacSize)
               \o Bytes(restoreMsg.salt, SaltSize)]

generateRestoreWalletMsg(id) == [header |-> "BCWalletRestoreReq", id |-> id]

\* The answers a page goes on with.
verifyRegisterWalletMsg(msg) == msg.header = "BCWalletRegistRes" /\ msg.result = "6080"
verifyRestoreWalletMsg(msg) == msg.header = "BCWalletRestoreRes" /\ msg.result = "6084"

\* A mistaken conversion: the HMAC is taken for part of the public key.
convertRestoreDataFormatWithHmac(msg) ==
    LET size == Len(msg.puk)
    IN  [prk |-> msg.prk,
         puk |-> Value(Slice(msg.puk, 1, size - SaltSize)),
         salt |-> Value(Slice(msg.puk, size - SaltSize + 1, size))]

\* The public key is everything but the last two parts, the salt is the last.
convertRestoreDataFormat(msg) ==
    LET size == Len(msg.puk)
    IN  [prk |-> msg.prk,
         puk |-> Value(Slice(msg.puk, 1, size - (HmacSize + SaltSize))),
         salt |-> Value(Slice(msg.puk, size - SaltSize + 1, size))]

\* A mistaken comparison: any password will do.
verifyPswAlways(psw, msg) == msg.puk # <<>>

verifyPsw(psw, msg) ==
    LET encPuk == Value(Slice(msg.puk, 1, PukSize))
        hmac == Value(Slice(msg.puk, PukSize + 1, PukSize + HmacSize))
    IN  hmac = Hmac(psw, encPuk)
=============================================================================
