----------------------------- MODULE DesktopWallet -----------------------------
(***************************************************************************)
(* The wallet of the Java library (MoaWalletAPI) and the program that its    *)
(* tests show around it: a wallet that is not restorable, a restorable one   *)
(* with a backup on the server, and the reset of the latter's password       *)
(* through a temporary file that is tried before it is put into use.         *)
(*                                                                           *)
(* A file is written in two steps, the opening that truncates it and the     *)
(* write of a text that fits the writer's buffer.  The process may end       *)
(* between any two steps; it ends itself when it is to create a file that    *)
(* exists.  Cryptography is symbolic.                                        *)
(***************************************************************************)
EXTENDS Naturals

CONSTANTS Psws,
          MaxCalls,     \* a bound: calls of the library, and of other devices
          MaxFaults     \* a bound: ends of the process

VARIABLES files,
          process,      \* what the one thread is doing
          backup,       \* what the server has of the account
          drawn,        \* the number of the last key pair or salt drawn
          calls, faults,
          history       \* what happened, for the properties

vars == <<files, process, backup, drawn, calls, faults, history>>

DesktopWalletAssumption == MaxCalls \in Nat /\ MaxFaults \in Nat
ASSUME DesktopWalletAssumption

-----------------------------------------------------------------------------
(* Values                                                                    *)

None == [t |-> "none"]
Garbage == [t |-> "garbage"]
Prk(k) == [t |-> "prk", key |-> k]
Puk(k) == [t |-> "puk", key |-> k]
Salt(n) == [t |-> "salt", n |-> n]
EthereumWalletAddrGen(puk) == [t |-> "addr", of |-> puk]

\* The pair and the salt that RestoreBlockchainWalletInfoGen has in its text,
\* and those of the account's other device.
Given == 0
Other == 1

\* PBKDF2baseEncrptAndDecrypt, pbeEncrypt and pbeDecrypt
Encrypt(psw, salt, data) == [t |-> "aes", psw |-> psw, salt |-> salt, data |-> data]
Decrypt(psw, salt, data) ==
    IF data.t = "aes" /\ data = Encrypt(psw, salt, data.data) THEN data.data ELSE Garbage
Seal(psw, salt, data) == [t |-> "pbe", psw |-> psw, salt |-> salt, data |-> data]
Open(psw, salt, data) ==
    IF data.t = "pbe" /\ data = Seal(psw, salt, data.data) THEN data.data ELSE Garbage

BlockchainDecryptPrk(data, psw, salt) == Decrypt(psw, salt, Open(psw, salt, data))

\* What the server keeps; psw stands for the HMAC of the public key.
RestoreData(psw, salt, prk, puk) ==
    [t |-> "backup", psw |-> psw, prk |-> Encrypt(psw, salt, prk),
     puk |-> Encrypt(psw, salt, puk), salt |-> salt]

HmacDigest(psw, type, salt, ciphered, puk, addr) ==
    [psw |-> psw, type |-> type, salt |-> salt, ciphered |-> ciphered, puk |-> puk, addr |-> addr]

\* BlockchainWalletInfoGen of what the three ways to a wallet give it
WalletInfo(type, psw, salt, firstEncrypted, puk) ==
    LET ciphered == Seal(psw, salt, firstEncrypted)
        addr == EthereumWalletAddrGen(puk)
    IN  [t |-> "wallet", type |-> type, salt |-> salt, ciphered |-> ciphered, puk |-> puk,
         addr |-> addr, mac |-> HmacDigest(psw, type, salt, ciphered, puk, addr)]

Files == {"wallet", "restore", "temp"}
Missing == [t |-> "missing"]
Empty == [t |-> "empty"]
IsWallet(f) == f.t = "wallet"

\* The check of BlockchainTransactionSign; a file that is empty makes it throw.
Verifies(psw, f) ==
    IsWallet(f) /\ f.mac = HmacDigest(psw, f.type, f.salt, f.ciphered, f.puk, f.addr)

\* The key BlockchainTransactionSign signs with.
SigningKey(psw, f) == BlockchainDecryptPrk(f.ciphered, psw, f.salt)

-----------------------------------------------------------------------------
Idle == [op |-> "idle", then |-> "idle", file |-> "temp", content |-> None,
         psw |-> None, info |-> None, puk |-> None]

\* The account may have a backup by another device.
Init ==
    /\ files = [file \in Files |-> Missing]
    /\ process = Idle
    /\ backup \in {None} \cup {RestoreData(psw, Salt(Other), Prk(Other), Puk(Other)) : psw \in Psws}
    /\ drawn = Other
    /\ calls = 0 /\ faults = 0
    /\ history = [owner |-> None, has |-> FALSE, repeated |-> FALSE]

Call ==
    /\ process.op = "idle" /\ calls < MaxCalls
    /\ calls' = calls + 1

\* BlockchainWalletFileStorage up to its write.  System.exit if the file
\* exists and may not be overwritten.
FileStorage(file, content, permit, then) ==
    IF ~permit /\ files[file] # Missing
    THEN process' = Idle /\ UNCHANGED <<files, history>>
    ELSE /\ files' = [files EXCEPT ![file] = Empty]
         /\ process' = [process EXCEPT !.op = "write", !.then = then,
                                       !.file = file, !.content = content]
         /\ history' = [history EXCEPT !.repeated = @ \/ (file = "temp" /\ ~IsWallet(files["restore"]))]

\* The rest of it; in the history, the owner of the restorable wallet.
Write ==
    /\ process.op = "write"
    /\ files' = [files EXCEPT ![process.file] = process.content]
    /\ process' = IF process.then = "idle" THEN Idle ELSE [process EXCEPT !.op = process.then]
    /\ history' = IF process.file = "restore" /\ process.then = "idle"
                  THEN [history EXCEPT !.owner = process.content.puk, !.has = TRUE]
                  ELSE history
    /\ UNCHANGED <<backup, drawn, calls, faults>>

\* A mistaken type of wallet.
NonRestoreIssuingAsR(psw) ==
    /\ Call
    /\ drawn' = drawn + 1
    /\ FileStorage("wallet", WalletInfo("R", psw, Salt(drawn'),
                                        Encrypt(psw, Salt(drawn'), Prk(drawn')), Puk(drawn')),
                   FALSE, "idle")
    /\ UNCHANGED <<backup, faults>>

NonRestoreBlockchainWalletIssuing(psw) ==
    /\ Call
    /\ drawn' = drawn + 1
    /\ FileStorage("wallet", WalletInfo("NonR", psw, Salt(drawn'),
                                        Encrypt(psw, Salt(drawn'), Prk(drawn')), Puk(drawn')),
                   FALSE, "idle")
    /\ UNCHANGED <<backup, faults>>

\* The pair that is drawn is not used.  The program registers the backup.
RestoreBlockchainWalletInfoGen(psw) ==
    /\ Call
    /\ backup' = RestoreData(psw, Salt(Given), Prk(Given), Puk(Given))
    /\ process' = [Idle EXCEPT !.op = "issue", !.psw = psw, !.info = backup']
    /\ UNCHANGED <<files, drawn, faults, history>>

\* RestoreBlockchainWalletIssuing and RestoreBlockchainWallet alike
Restored(psw, info) ==
    WalletInfo("R", psw, info.salt, info.prk, Decrypt(psw, info.salt, info.puk))

RestoreBlockchainWalletIssuing ==
    /\ process.op = "issue"
    /\ FileStorage("restore", Restored(process.psw, process.info), FALSE, "idle")
    /\ UNCHANGED <<backup, drawn, calls, faults>>

RestoreBlockchainWallet(psw) ==
    /\ Call
    /\ backup # None /\ backup.psw = psw
    /\ FileStorage("restore", Restored(psw, backup), FALSE, "idle")
    /\ UNCHANGED <<backup, drawn, faults>>

BlockchainWalletFileDelete(file) ==
    /\ Call
    /\ files' = [files EXCEPT ![file] = Missing]
    /\ history' = [history EXCEPT !.has = @ /\ file # "restore"
                                            /\ (file = "temp" => IsWallet(files["restore"]))]
    /\ UNCHANGED <<process, backup, drawn, faults>>

-----------------------------------------------------------------------------
(* Resetting the password of the restorable wallet                           *)

\* The existing password is the one that the server has with the backup.
PswReSetRegistDataGen(newPsw) ==
    /\ Call
    /\ backup # None
    /\ drawn' = drawn + 1
    /\ LET prk == Decrypt(backup.psw, backup.salt, backup.prk)
           puk == Decrypt(backup.psw, backup.salt, backup.puk)
       IN  process' = [Idle EXCEPT !.op = "store", !.psw = newPsw, !.puk = puk,
                                   !.info = RestoreData(newPsw, Salt(drawn'), prk, puk)]
    /\ UNCHANGED <<files, backup, faults, history>>

\* The program sends the new backup while the reset goes on.
Register ==
    /\ process.op \in {"store", "check", "update", "discard"}
    /\ backup' = process.info
    /\ UNCHANGED <<files, process, drawn, calls, faults, history>>

\* A mistaken salt: that of the backup which is reset.
PswReSetStorageGenOldSalt ==
    /\ process.op = "store" /\ backup # None
    /\ FileStorage("temp", WalletInfo("R", process.psw, backup.salt, process.info.prk, process.puk),
                   TRUE, "check")
    /\ UNCHANGED <<backup, drawn, calls, faults>>

PswReSetStorageGen ==
    /\ process.op = "store"
    /\ FileStorage("temp", WalletInfo("R", process.psw, process.info.salt, process.info.prk, process.puk),
                   TRUE, "check")
    /\ UNCHANGED <<backup, drawn, calls, faults>>

Goes(op) == process' = [process EXCEPT !.op = op]

\* A mistaken test: whatever the signature, the temporary wallet is used.
TryTempAnyKey ==
    /\ process.op = "check" /\ Goes("update")
    /\ UNCHANGED <<files, backup, drawn, calls, faults, history>>

\* A signature by the temporary wallet is verified with the public key of the
\* wallet in use; without either the program ends.
TryTemp ==
    /\ process.op = "check"
    /\ IF IsWallet(files["restore"]) /\ Verifies(process.psw, files["temp"])
       THEN Goes(IF \E k \in 0 .. drawn : /\ SigningKey(process.psw, files["temp"]) = Prk(k)
                                          /\ files["restore"].puk = Puk(k)
                 THEN "update" ELSE "discard")
       ELSE process' = Idle
    /\ UNCHANGED <<files, backup, drawn, calls, faults, history>>

\* A mistaken update: the temporary file is moved.
FileUpdateMoves ==
    /\ process.op = "update"
    /\ files' = [files EXCEPT !["restore"] = Empty, !["temp"] = Missing]
    /\ process' = [process EXCEPT !.op = "write", !.then = "discard",
                                  !.file = "restore", !.content = files["temp"]]
    /\ UNCHANGED <<backup, drawn, calls, faults, history>>

BlockchainWalletFileUpdate ==
    /\ process.op = "update"
    /\ FileStorage("restore", files["temp"], TRUE, "discard")
    /\ UNCHANGED <<backup, drawn, calls, faults>>

DeleteTemp ==
    /\ process.op = "discard"
    /\ files' = [files EXCEPT !["temp"] = Missing]
    /\ process' = Idle
    /\ UNCHANGED <<backup, drawn, calls, faults, history>>

-----------------------------------------------------------------------------
\* Another device of the account registers its wallet.
OtherDevice(psw) ==
    /\ calls < MaxCalls
    /\ calls' = calls + 1
    /\ backup' = RestoreData(psw, Salt(Other), Prk(Other), Puk(Other))
    /\ UNCHANGED <<files, process, drawn, faults, history>>

Crash ==
    /\ faults < MaxFaults /\ process.op # "idle"
    /\ faults' = faults + 1
    /\ process' = Idle
    /\ UNCHANGED <<files, backup, drawn, calls, history>>

Next ==
    \/ Write
    \/ \E psw \in Psws :
          \/ NonRestoreBlockchainWalletIssuing(psw)
          \/ RestoreBlockchainWalletInfoGen(psw) \/ RestoreBlockchainWallet(psw)
          \/ PswReSetRegistDataGen(psw)
          \/ OtherDevice(psw)
    \/ \E file \in Files : BlockchainWalletFileDelete(file)
    \/ RestoreBlockchainWalletIssuing
    \/ Register \/ PswReSetStorageGen \/ TryTemp \/ BlockchainWalletFileUpdate \/ DeleteTemp
    \/ Crash

Spec == Init /\ [][Next]_vars

-----------------------------------------------------------------------------
(* What is to be true of it                                                  *)

\* Types; and what a file holds is a wallet of the type that its name says.
TypeOK ==
    /\ DOMAIN files = Files
    /\ \A file \in Files :
          \/ files[file] \in {Missing, Empty}
          \/ IsWallet(files[file]) /\ files[file].type = (IF file = "wallet" THEN "NonR" ELSE "R")
    /\ process.op \in {"idle", "issue", "write", "store", "check", "update", "discard"}
    /\ process.file \in Files
    /\ drawn \in Nat /\ calls \in 0 .. MaxCalls /\ faults \in 0 .. MaxFaults
    /\ history.has \in BOOLEAN /\ history.repeated \in BOOLEAN

\* A wallet of the key pair k that opens under psw
Opens(psw, f, k) ==
    /\ Verifies(psw, f)
    /\ SigningKey(psw, f) = Prk(k)
    /\ f.puk = Puk(k) /\ f.addr = EthereumWalletAddrGen(Puk(k))

\* What BlockchainTransactionSign finds intact under a password it opens with
\* that password, to the private key of the stored public key and address;
\* in each file, whichever way the wallet got there and wherever it stopped.
WalletOpens ==
    \A file \in Files, psw \in Psws :
        Verifies(psw, files[file]) => \E k \in 0 .. drawn : Opens(psw, files[file], k)

\* Resets never change whose wallet it is: the restorable wallet has the public
\* key it was issued or restored with, although the backup that a reset works
\* on may be another's by then (BlockchainWalletFileUpdate after the test).
KeyKept ==
    IsWallet(files["restore"]) => files["restore"].puk = history.owner

\* A restorable wallet that was stored and not deleted is on the device in one
\* of the two files, at every step of a reset and after a crash at any of them
\* (BlockchainWalletFileUpdate writes in place, then the temporary file is
\* deleted).  Not if a reset overwrites the temporary file when a crash has
\* left nothing else.
NeverLost ==
    history.has /\ ~history.repeated =>
        \E file \in {"restore", "temp"}, psw \in Psws, k \in 0 .. drawn :
            Opens(psw, files[file], k) /\ history.owner = Puk(k)
=============================================================================
