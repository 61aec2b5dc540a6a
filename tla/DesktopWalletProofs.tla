-------------------------- MODULE DesktopWalletProofs --------------------------
(***************************************************************************)
(* The wallet files of the Java library, for any passwords and any number of *)
(* calls and ends of the process.  The argument: everything that is in a     *)
(* file, on its way to one, or on the server was made from one key pair and  *)
(* one password; a temporary wallet that passed the test has the owner's     *)
(* key; and at least one of the two files is not being written.              *)
(***************************************************************************)
EXTENDS DesktopWallet, TLAPS

\* A wallet, a backup, as the library makes them of a password, a salt and a
\* key pair; d bounds the key pairs there are.
WalletOf(type, psw, n, k) == WalletInfo(type, psw, Salt(n), Encrypt(psw, Salt(n), Prk(k)), Puk(k))
BackupOf(psw, n, k) == RestoreData(psw, Salt(n), Prk(k), Puk(k))

TypeOf(file) == IF file = "wallet" THEN "NonR" ELSE "R"
SoundWallet(f, type, d) == \E psw \in Psws, n \in Nat, k \in 0 .. d : f = WalletOf(type, psw, n, k)
SoundBackup(b, psw, puk, d) == \E n \in Nat, k \in 0 .. d : b = BackupOf(psw, n, k) /\ puk = Puk(k)
SomeBackup(b, d) == \E psw \in Psws : \E n \in Nat, k \in 0 .. d : b = BackupOf(psw, n, k)

Ops == {"idle", "issue", "write", "store", "check", "update", "discard"}
Counters ==
    /\ drawn \in Nat /\ drawn >= Other
    /\ calls \in 0 .. MaxCalls /\ faults \in 0 .. MaxFaults
    /\ history.has \in BOOLEAN /\ history.repeated \in BOOLEAN
    /\ DOMAIN history = {"owner", "has", "repeated"}

\* Every file is absent, empty or sound.
FilesSound ==
    /\ files = [file \in Files |-> files[file]]
    /\ \A file \in Files : \/ files[file] \in {Missing, Empty}
                          \/ SoundWallet(files[file], TypeOf(file), drawn)

\* So is what the thread is about to write or send.
Resetting == process.op \in {"store", "check", "update", "discard"}
ProcessFields == {"op", "then", "file", "content", "psw", "info", "puk"}
ProcessSound ==
    /\ process = [field \in ProcessFields |-> process[field]]
    /\ process.op \in Ops /\ process.file \in Files
    /\ process.op = "write" =>
          /\ SoundWallet(process.content, TypeOf(process.file), drawn)
          /\ files[process.file] = Empty
          /\ \/ process.then = "idle" /\ process.file # "temp"
             \/ process.then = "check" /\ process.file = "temp"
             \/ process.then = "discard" /\ process.file = "restore"
    /\ process.op = "issue" =>
          /\ process.psw \in Psws
          /\ \E n \in Nat, k \in 0 .. drawn : process.info = BackupOf(process.psw, n, k)
    /\ Resetting \/ (process.op = "write" /\ process.then # "idle") =>
          /\ process.psw \in Psws
          /\ SoundBackup(process.info, process.psw, process.puk, drawn)

BackupSound == backup = None \/ SomeBackup(backup, drawn)

Sound == Counters /\ FilesSound /\ ProcessSound /\ BackupSound

\* A file that holds the wallet of the owner
Owned(file) == IsWallet(files[file]) /\ files[file].puk = history.owner

\* Only a wallet of the owner replaces the restorable one, and the temporary
\* one is deleted only beside the restorable one.
OwnerKept ==
    /\ KeyKept
    /\ process.op = "update" => Owned("temp")
    /\ process.op = "write" /\ process.then = "discard" => process.content.puk = history.owner
    /\ process.op = "discard" => IsWallet(files["restore"])

Safe == history.has /\ ~history.repeated => Owned("restore") \/ Owned("temp")

DesktopInv == Sound /\ OwnerKept /\ Safe
-----------------------------------------------------------------------------
(* Wallets and backups                                                       *)

LEMMA WalletFields ==
  ASSUME NEW type, NEW psw, NEW n, NEW k
  PROVE  LET f == WalletOf(type, psw, n, k)
         IN  /\ IsWallet(f) /\ f \notin {Missing, Empty}
             /\ f.type = type /\ f.puk = Puk(k) /\ f.salt = Salt(n) /\ f.mac.psw = psw
BY DEF WalletOf, WalletInfo, HmacDigest, IsWallet, Missing, Empty

\* A wallet opens under the password it was made with, and under no other.
LEMMA WalletOfOpens ==
  ASSUME NEW type, NEW psw, NEW n, NEW k
  PROVE  Opens(psw, WalletOf(type, psw, n, k), k)
<1> DEFINE first == Encrypt(psw, Salt(n), Prk(k))
           f == WalletOf(type, psw, n, k)
<1>1. f.ciphered = Seal(psw, Salt(n), first) /\ f.salt = Salt(n)
  BY DEF WalletOf, WalletInfo
<1>2. Open(psw, Salt(n), Seal(psw, Salt(n), first)) = first
  BY DEF Open, Seal
<1>3. Decrypt(psw, Salt(n), first) = Prk(k)
  BY DEF Decrypt, Encrypt
<1>4. SigningKey(psw, f) = Prk(k)
  BY <1>1, <1>2, <1>3 DEF SigningKey, BlockchainDecryptPrk
<1>5. Verifies(psw, f)
  BY DEF Verifies, IsWallet, WalletOf, WalletInfo, HmacDigest
<1> QED
  BY <1>4, <1>5 DEF Opens, WalletOf, WalletInfo

LEMMA VerifiesOnly ==
  ASSUME NEW type, NEW psw, NEW n, NEW k, NEW other, Verifies(other, WalletOf(type, psw, n, k))
  PROVE  other = psw
BY DEF Verifies, WalletOf, WalletInfo, HmacDigest

\* Restoring a backup with its own password gives the wallet of its key pair.
LEMMA RestoredIsWallet ==
  ASSUME NEW psw, NEW n, NEW k
  PROVE  Restored(psw, BackupOf(psw, n, k)) = WalletOf("R", psw, n, k)
<1>1. Decrypt(psw, Salt(n), Encrypt(psw, Salt(n), Puk(k))) = Puk(k)
  BY DEF Decrypt, Encrypt
<1> QED
  BY <1>1 DEF Restored, BackupOf, RestoreData, WalletOf

LEMMA BackupFields ==
  ASSUME NEW psw, NEW n, NEW k
  PROVE  LET b == BackupOf(psw, n, k)
         IN  /\ b # None /\ b.psw = psw /\ b.salt = Salt(n)
             /\ b.prk = Encrypt(psw, Salt(n), Prk(k))
             /\ Decrypt(b.psw, b.salt, b.prk) = Prk(k)
             /\ Decrypt(b.psw, b.salt, b.puk) = Puk(k)
BY DEF BackupOf, RestoreData, None, Decrypt, Encrypt, Salt, Prk, Puk

\* Key pairs that are drawn later change nothing about what there is.
LEMMA StaysSound ==
  ASSUME NEW d \in Nat, NEW e \in Nat, d <= e
  PROVE  /\ \A f, type : SoundWallet(f, type, d) => SoundWallet(f, type, e)
         /\ \A b, psw, puk : SoundBackup(b, psw, puk, d) => SoundBackup(b, psw, puk, e)
         /\ \A b : SomeBackup(b, d) => SomeBackup(b, e)
<1>1. \A k \in 0 .. d : k \in 0 .. e
  OBVIOUS
<1> QED
  BY <1>1 DEF SoundWallet, SoundBackup, SomeBackup

LEMMA SoundIsWallet ==
  ASSUME NEW f, NEW type, NEW d, SoundWallet(f, type, d)
  PROVE  IsWallet(f) /\ f.type = type /\ f \notin {Missing, Empty}
BY WalletFields DEF SoundWallet
-----------------------------------------------------------------------------
(* Everything is sound                                                       *)

LEMMA SoundInit == Init => Sound
<1> SUFFICES ASSUME Init PROVE Sound
  OBVIOUS
<1>1. Counters
  BY DesktopWalletAssumption DEF DesktopWalletAssumption, Init, Counters, Other
<1>2. FilesSound
  BY DEF Init, FilesSound
<1>3. ProcessSound
  BY DEF Init, ProcessSound, Idle, Resetting, Ops, ProcessFields, Files
<1>4. BackupSound
  <2>1. CASE backup = None
    BY <2>1 DEF BackupSound
  <2>2. CASE \E psw \in Psws : backup = BackupOf(psw, Other, Other)
    <3>1. Other \in Nat /\ Other \in 0 .. drawn
      BY DEF Init, Other
    <3> QED
      BY <2>2, <3>1 DEF BackupSound, SomeBackup
  <2> QED
    BY <2>1, <2>2 DEF Init, BackupOf
<1> QED
  BY <1>1, <1>2, <1>3, <1>4 DEF Sound

\* What a step may do to the file that is opened for writing.
LEMMA StorageSound ==
  ASSUME Sound, drawn' \in {drawn, drawn + 1},
         NEW file \in Files, NEW content, NEW permit, NEW then,
         FileStorage(file, content, permit, then),
         SoundWallet(content, TypeOf(file), drawn'),
         \/ then = "idle" /\ file # "temp"
         \/ /\ (then = "check" /\ file = "temp") \/ (then = "discard" /\ file = "restore")
            /\ process.psw \in Psws /\ SoundBackup(process.info, process.psw, process.puk, drawn)
  PROVE  FilesSound' /\ ProcessSound' /\ history'.has = history.has
         /\ history'.repeated \in BOOLEAN /\ DOMAIN history' = DOMAIN history
<1> drawn \in Nat /\ drawn' \in Nat /\ drawn <= drawn'
  BY DEF Sound, Counters
<1>1. CASE ~permit /\ files[file] # Missing
  <2>1. process' = Idle /\ UNCHANGED <<files, history>>
    BY <1>1 DEF FileStorage
  <2>2. FilesSound'
    BY <2>1, StaysSound DEF Sound, FilesSound, Counters
  <2>3. ProcessSound'
    BY <2>1 DEF ProcessSound, Idle, Resetting, Ops, ProcessFields, Files
  <2> QED
    BY <2>1, <2>2, <2>3 DEF Sound, Counters
<1>2. CASE permit \/ files[file] = Missing
  <2>1. /\ files' = [files EXCEPT ![file] = Empty]
        /\ process' = [process EXCEPT !.op = "write", !.then = then,
                                      !.file = file, !.content = content]
        /\ history' = [history EXCEPT !.repeated =
                         @ \/ (file = "temp" /\ ~IsWallet(files["restore"]))]
    BY <1>2 DEF FileStorage
  <2>2. FilesSound'
    BY <2>1, StaysSound DEF Sound, FilesSound, Counters
  <2>3. /\ process' = [field \in ProcessFields |-> process'[field]]
        /\ process'.op = "write" /\ process'.then = then /\ process'.file = file
        /\ process'.content = content /\ process'.psw = process.psw
        /\ process'.info = process.info /\ process'.puk = process.puk
        /\ files'[file] = Empty
    BY <2>1 DEF Sound, ProcessSound, FilesSound, ProcessFields
  <2>4. then # "idle" => SoundBackup(process.info, process.psw, process.puk, drawn')
    BY StaysSound DEF Sound, Counters
  <2>5. ProcessSound'
    BY <2>3, <2>4 DEF ProcessSound, Resetting, Ops
  <2> QED
    BY <2>1, <2>2, <2>5 DEF Sound, Counters
<1> QED
  BY <1>1, <1>2

\* A step that does not touch the files, the backup or what is drawn.
LEMMA QuietSound ==
  ASSUME Sound, UNCHANGED <<files, backup, drawn>>
  PROVE  FilesSound' /\ BackupSound'
BY DEF Sound, FilesSound, BackupSound

LEMMA IdleSound ==
  ASSUME process' = Idle
  PROVE  ProcessSound'
BY DEF ProcessSound, Idle, Resetting, Ops, ProcessFields, Files

\* The owner is recorded when a restorable wallet is issued or restored.
LEMMA WriteSound ==
  ASSUME Sound, Write
  PROVE  Sound'
<1>1. /\ process.op = "write" /\ process.file \in Files
      /\ files' = [files EXCEPT ![process.file] = process.content]
      /\ SoundWallet(process.content, TypeOf(process.file), drawn)
      /\ UNCHANGED <<backup, drawn, calls, faults>>
  BY DEF Write, Sound, ProcessSound
<1>2. FilesSound'
  BY <1>1 DEF Sound, FilesSound
<1>3. Counters'
  BY <1>1 DEF Sound, Counters, Write
<1>4. ProcessSound'
  <2>1. CASE process.then = "idle"
    BY <2>1, IdleSound DEF Write
  <2>2. CASE process.then # "idle"
    <3>1. process' = [process EXCEPT !.op = process.then]
      BY <2>2 DEF Write
    <3>2. /\ process' = [field \in ProcessFields |-> process'[field]]
          /\ process'.op = process.then /\ process'.file = process.file
          /\ process'.psw = process.psw /\ process'.info = process.info /\ process'.puk = process.puk
      BY <3>1 DEF Sound, ProcessSound, ProcessFields
    <3> QED
      BY <1>1, <2>2, <3>2 DEF Sound, ProcessSound, Resetting, Ops
  <2> QED
    BY <2>1, <2>2
<1>5. BackupSound'
  BY <1>1 DEF Sound, BackupSound
<1> QED
  BY <1>2, <1>3, <1>4, <1>5 DEF Sound

LEMMA IssuingSound ==
  ASSUME Sound, NEW psw \in Psws, NonRestoreBlockchainWalletIssuing(psw)
  PROVE  Sound'
<1>1. /\ drawn' = drawn + 1 /\ drawn \in Nat /\ calls' = calls + 1 /\ calls < MaxCalls
      /\ UNCHANGED <<backup, faults>>
      /\ FileStorage("wallet", WalletOf("NonR", psw, drawn', drawn'), FALSE, "idle")
  BY DEF NonRestoreBlockchainWalletIssuing, Call, WalletOf, Sound, Counters
<1>2. drawn' \in Nat /\ drawn' \in 0 .. drawn' /\ drawn <= drawn'
  BY <1>1
<1>3. SoundWallet(WalletOf("NonR", psw, drawn', drawn'), TypeOf("wallet"), drawn')
  BY <1>2 DEF SoundWallet, TypeOf
<1>4. /\ FilesSound' /\ ProcessSound' /\ history'.has = history.has
      /\ history'.repeated \in BOOLEAN /\ DOMAIN history' = DOMAIN history
  BY <1>1, <1>2, <1>3, StorageSound DEF Files
<1>5. BackupSound'
  BY <1>1, <1>2, StaysSound DEF Sound, BackupSound
<1>6. Counters'
  BY <1>1, <1>4, DesktopWalletAssumption DEF DesktopWalletAssumption, Sound, Counters, Other
<1> QED
  BY <1>4, <1>5, <1>6 DEF Sound

LEMMA InfoGenSound ==
  ASSUME Sound, NEW psw \in Psws, RestoreBlockchainWalletInfoGen(psw)
  PROVE  Sound'
<1>1. backup' = BackupOf(psw, Given, Given) /\ Given \in Nat /\ Given \in 0 .. drawn
  BY DEF RestoreBlockchainWalletInfoGen, BackupOf, Given, Sound, Counters
<1>2. /\ UNCHANGED <<files, drawn, faults, history>> /\ calls' = calls + 1 /\ calls < MaxCalls
      /\ process' = [Idle EXCEPT !.op = "issue", !.psw = psw, !.info = backup']
  BY DEF RestoreBlockchainWalletInfoGen, Call
<1>3. FilesSound'
  BY <1>2 DEF Sound, FilesSound
<1>4. BackupSound'
  BY <1>1, <1>2 DEF BackupSound, SomeBackup
<1>5. Counters'
  BY <1>2, DesktopWalletAssumption DEF DesktopWalletAssumption, Sound, Counters, Other
<1>6. /\ process' = [field \in ProcessFields |-> process'[field]]
      /\ process'.op = "issue" /\ process'.psw = psw /\ process'.info = backup' /\ process'.file = "temp"
  BY <1>2 DEF Idle, ProcessFields
<1>7. ProcessSound'
  BY <1>1, <1>2, <1>6 DEF ProcessSound, Resetting, Ops, Files
<1> QED
  BY <1>3, <1>4, <1>5, <1>7 DEF Sound

LEMMA IssueRestorableSound ==
  ASSUME Sound, RestoreBlockchainWalletIssuing
  PROVE  Sound'
<1>1. PICK n \in Nat, k \in 0 .. drawn : process.info = BackupOf(process.psw, n, k)
  BY DEF RestoreBlockchainWalletIssuing, Sound, ProcessSound
<1>2. process.psw \in Psws /\ UNCHANGED <<backup, drawn, calls, faults>>
  BY DEF RestoreBlockchainWalletIssuing, Sound, ProcessSound
<1>3. SoundWallet(Restored(process.psw, process.info), TypeOf("restore"), drawn')
  BY <1>1, <1>2, RestoredIsWallet DEF SoundWallet, TypeOf
<1>4. /\ FilesSound' /\ ProcessSound' /\ history'.has = history.has
      /\ history'.repeated \in BOOLEAN /\ DOMAIN history' = DOMAIN history
  BY <1>2, <1>3, StorageSound DEF RestoreBlockchainWalletIssuing, Files
<1> QED
  BY <1>2, <1>4 DEF Sound, Counters, BackupSound

LEMMA RestoreSound ==
  ASSUME Sound, NEW psw \in Psws, RestoreBlockchainWallet(psw)
  PROVE  Sound'
<1>1. /\ backup # None /\ backup.psw = psw /\ calls' = calls + 1 /\ calls < MaxCalls
      /\ UNCHANGED <<backup, drawn, faults>>
      /\ FileStorage("restore", Restored(psw, backup), FALSE, "idle")
  BY DEF RestoreBlockchainWallet, Call
<1>2. PICK n \in Nat, k \in 0 .. drawn : backup = BackupOf(psw, n, k)
  BY <1>1, BackupFields DEF Sound, BackupSound, SomeBackup
<1>3. SoundWallet(Restored(psw, backup), TypeOf("restore"), drawn')
  BY <1>1, <1>2, RestoredIsWallet DEF SoundWallet, TypeOf
<1>4. /\ FilesSound' /\ ProcessSound' /\ history'.has = history.has
      /\ history'.repeated \in BOOLEAN /\ DOMAIN history' = DOMAIN history
  BY <1>1, <1>3, StorageSound DEF Files
<1>5. Counters'
  BY <1>1, <1>4, DesktopWalletAssumption DEF DesktopWalletAssumption, Sound, Counters, Other
<1> QED
  BY <1>1, <1>4, <1>5 DEF Sound, BackupSound

LEMMA DeleteSound ==
  ASSUME Sound, NEW file \in Files, BlockchainWalletFileDelete(file)
  PROVE  Sound'
<1>1. /\ files' = [files EXCEPT ![file] = Missing] /\ process.op = "idle"
      /\ calls' = calls + 1 /\ calls < MaxCalls
      /\ UNCHANGED <<process, backup, drawn, faults>>
  BY DEF BlockchainWalletFileDelete, Call
<1>2. FilesSound'
  BY <1>1 DEF Sound, FilesSound
<1>3. ProcessSound'
  BY <1>1 DEF Sound, ProcessSound, Resetting
<1>4. Counters'
  BY <1>1, DesktopWalletAssumption
     DEF DesktopWalletAssumption, Sound, Counters, BlockchainWalletFileDelete, IsWallet
<1> QED
  BY <1>1, <1>2, <1>3, <1>4 DEF Sound, BackupSound

LEMMA ReSetSound ==
  ASSUME Sound, NEW psw \in Psws, PswReSetRegistDataGen(psw)
  PROVE  Sound'
<1> DEFINE prk == Decrypt(backup.psw, backup.salt, backup.prk)
           puk == Decrypt(backup.psw, backup.salt, backup.puk)
<1>1. /\ backup # None /\ calls' = calls + 1 /\ calls < MaxCalls
      /\ drawn' = drawn + 1 /\ drawn \in Nat
      /\ UNCHANGED <<files, backup, faults, history>> /\ process.op = "idle"
      /\ process' = [Idle EXCEPT !.op = "store", !.psw = psw, !.puk = puk,
                                 !.info = RestoreData(psw, Salt(drawn'), prk, puk)]
  BY DEF PswReSetRegistDataGen, Call, Sound, Counters
<1>2. PICK k \in 0 .. drawn : prk = Prk(k) /\ puk = Puk(k)
  BY <1>1, BackupFields DEF Sound, BackupSound, SomeBackup
<1>3. /\ process' = [field \in ProcessFields |-> process'[field]]
      /\ process'.op = "store" /\ process'.psw = psw /\ process'.puk = Puk(k)
      /\ process'.file = "temp" /\ process'.info = BackupOf(psw, drawn', k)
  BY <1>1, <1>2 DEF Idle, ProcessFields, BackupOf
<1>4. drawn' \in Nat /\ k \in 0 .. drawn'
  BY <1>1
<1>5. ProcessSound'
  BY <1>3, <1>4 DEF ProcessSound, Resetting, Ops, Files, SoundBackup
<1>6. FilesSound' /\ BackupSound'
  BY <1>1, <1>4, StaysSound DEF Sound, FilesSound, BackupSound
<1>7. Counters'
  BY <1>1, DesktopWalletAssumption DEF DesktopWalletAssumption, Sound, Counters, Other
<1> QED
  BY <1>5, <1>6, <1>7 DEF Sound

LEMMA RegisterSound ==
  ASSUME Sound, Register
  PROVE  Sound'
<1>1. backup' = process.info /\ UNCHANGED <<files, process, drawn, calls, faults, history>>
  BY DEF Register
<1>2. BackupSound'
  BY <1>1 DEF Register, Sound, ProcessSound, Resetting, BackupSound, SoundBackup, SomeBackup
<1> QED
  BY <1>1, <1>2 DEF Sound, Counters, FilesSound, ProcessSound, Resetting

LEMMA StorageGenSound ==
  ASSUME Sound, PswReSetStorageGen
  PROVE  Sound'
<1>1. /\ process.op = "store" /\ process.psw \in Psws
      /\ SoundBackup(process.info, process.psw, process.puk, drawn)
      /\ UNCHANGED <<backup, drawn, calls, faults>>
      /\ FileStorage("temp", WalletInfo("R", process.psw, process.info.salt, process.info.prk,
                                        process.puk), TRUE, "check")
  BY DEF PswReSetStorageGen, Sound, ProcessSound, Resetting
<1>2. PICK n \in Nat, k \in 0 .. drawn :
        process.info = BackupOf(process.psw, n, k) /\ process.puk = Puk(k)
  BY <1>1 DEF SoundBackup
<1>3. WalletInfo("R", process.psw, process.info.salt, process.info.prk, process.puk)
        = WalletOf("R", process.psw, n, k)
  BY <1>2, BackupFields DEF WalletOf
<1>4. SoundWallet(WalletOf("R", process.psw, n, k), TypeOf("temp"), drawn')
  BY <1>1 DEF SoundWallet, TypeOf
<1>5. /\ FilesSound' /\ ProcessSound' /\ history'.has = history.has
      /\ history'.repeated \in BOOLEAN /\ DOMAIN history' = DOMAIN history
  BY <1>1, <1>3, <1>4, StorageSound DEF Files
<1> QED
  BY <1>1, <1>5 DEF Sound, Counters, BackupSound

LEMMA UpdateSound ==
  ASSUME Sound, OwnerKept, BlockchainWalletFileUpdate
  PROVE  Sound'
<1>1. /\ process.op = "update" /\ process.psw \in Psws
      /\ SoundBackup(process.info, process.psw, process.puk, drawn)
      /\ UNCHANGED <<backup, drawn, calls, faults>>
      /\ FileStorage("restore", files["temp"], TRUE, "discard")
  BY DEF BlockchainWalletFileUpdate, Sound, ProcessSound, Resetting
<1>2. SoundWallet(files["temp"], TypeOf("restore"), drawn')
  BY <1>1 DEF Sound, FilesSound, OwnerKept, Owned, IsWallet, TypeOf, Files, Missing, Empty
<1>3. /\ FilesSound' /\ ProcessSound' /\ history'.has = history.has
      /\ history'.repeated \in BOOLEAN /\ DOMAIN history' = DOMAIN history
  BY <1>1, <1>2, StorageSound DEF Files
<1> QED
  BY <1>1, <1>3 DEF Sound, Counters, BackupSound

LEMMA OtherSound ==
  ASSUME Sound, NEW psw \in Psws, OtherDevice(psw)
  PROVE  Sound'
<1>1. backup' = BackupOf(psw, Other, Other) /\ Other \in Nat /\ Other \in 0 .. drawn
  BY DEF OtherDevice, BackupOf, Other, Sound, Counters
<1>2. UNCHANGED <<files, process, drawn, faults, history>> /\ calls' = calls + 1 /\ calls < MaxCalls
  BY DEF OtherDevice
<1>3. BackupSound'
  BY <1>1, <1>2 DEF BackupSound, SomeBackup
<1>4. Counters'
  BY <1>2, DesktopWalletAssumption DEF DesktopWalletAssumption, Sound, Counters, Other
<1> QED
  BY <1>2, <1>3, <1>4 DEF Sound, FilesSound, ProcessSound, Resetting

\* The rest moves the thread on, or ends what it does.
LEMMA TrySound ==
  ASSUME Sound, TryTemp \/ DeleteTemp \/ Crash
  PROVE  Sound'
<1>1. UNCHANGED <<backup, drawn, calls, history>> /\ Counters'
  BY DesktopWalletAssumption
     DEF DesktopWalletAssumption, Sound, Counters, TryTemp, DeleteTemp, Crash
<1>2. FilesSound'
  BY DEF Sound, FilesSound, TryTemp, DeleteTemp, Crash
<1>3. ProcessSound'
  <2>1. CASE process' = Idle
    BY <2>1, IdleSound
  <2>2. CASE TryTemp /\ process' # Idle
    <3>1. PICK op \in {"update", "discard"} : process' = [process EXCEPT !.op = op]
      BY <2>2 DEF TryTemp, Goes
    <3>2. /\ process' = [field \in ProcessFields |-> process'[field]]
          /\ process'.op = op /\ process'.file = process.file
          /\ process'.psw = process.psw /\ process'.info = process.info /\ process'.puk = process.puk
      BY <3>1 DEF Sound, ProcessSound, ProcessFields
    <3> QED
      BY <1>1, <2>2, <3>2 DEF Sound, ProcessSound, Resetting, Ops, TryTemp
  <2> QED
    BY <2>1, <2>2 DEF DeleteTemp, Crash
<1> QED
  BY <1>1, <1>2, <1>3 DEF Sound, BackupSound

LEMMA SoundStep ==
  ASSUME Sound, OwnerKept, [Next]_vars
  PROVE  Sound'
<1>1. CASE UNCHANGED vars
  BY <1>1 DEF vars, Sound, Counters, FilesSound, ProcessSound, Resetting, BackupSound
<1>2. CASE Next
  BY <1>2, WriteSound, IssuingSound, InfoGenSound, RestoreSound, ReSetSound, OtherSound,
     DeleteSound, IssueRestorableSound, RegisterSound, StorageGenSound, TrySound, UpdateSound
     DEF Next
<1> QED
  BY <1>1, <1>2

-----------------------------------------------------------------------------
(* Whose wallet it is, and that it is somewhere                              *)

LEMMA OwnerInit == Init => OwnerKept /\ Safe
BY DEF Init, OwnerKept, Safe, KeyKept, IsWallet, Missing, Files, Idle

\* The restorable file is opened: by an issue or a restore when it is missing,
\* by a reset when the temporary file has the owner's wallet.
LEMMA OpensRestore ==
  ASSUME Sound, OwnerKept, Safe, NEW content, NEW then,
         \/ FileStorage("restore", content, FALSE, then) /\ then = "idle"
         \/ /\ FileStorage("restore", content, TRUE, then) /\ then = "discard"
            /\ content = files["temp"] /\ Owned("temp")
  PROVE  OwnerKept' /\ Safe'
<1>1. CASE files' = files /\ process' = Idle /\ history' = history
  BY <1>1 DEF OwnerKept, Safe, KeyKept, Owned, Idle
<1>2. CASE ~(files' = files /\ process' = Idle /\ history' = history)
  <2>1. /\ files' = [files EXCEPT !["restore"] = Empty]
        /\ process' = [process EXCEPT !.op = "write", !.then = then,
                                      !.file = "restore", !.content = content]
        /\ history' = [history EXCEPT !.repeated =
                         @ \/ ("restore" = "temp" /\ ~IsWallet(files["restore"]))]
        /\ files["restore"] = Missing \/ Owned("temp")
    BY <1>2 DEF FileStorage
  <2>2. /\ process'.op = "write" /\ process'.then = then /\ process'.content = content
        /\ ~IsWallet(files'["restore"]) /\ files'["temp"] = files["temp"]
    BY <2>1 DEF Sound, FilesSound, ProcessSound, ProcessFields, Files, IsWallet, Empty
  <2>3. history'.has = history.has /\ history'.owner = history.owner
        /\ history'.repeated = history.repeated
    BY <2>1 DEF Sound, Counters
  <2>4. OwnerKept'
    BY <2>2, <2>3 DEF OwnerKept, KeyKept, Owned
  <2>5. history.has /\ ~history.repeated => Owned("temp")
    BY <2>1 DEF Safe, Owned, IsWallet, Missing
  <2> QED
    BY <2>2, <2>3, <2>4, <2>5 DEF Safe, Owned
<1> QED
  BY <1>1, <1>2

LEMMA OpensWallet ==
  ASSUME Sound, OwnerKept, Safe, NEW content, FileStorage("wallet", content, FALSE, "idle")
  PROVE  OwnerKept' /\ Safe'
<1>1. /\ files'["restore"] = files["restore"] /\ files'["temp"] = files["temp"]
      /\ process'.op \in {"idle", "write"} /\ process'.then = "idle"
      /\ history'.has = history.has /\ history'.owner = history.owner
      /\ history'.repeated = history.repeated
  <2>1. CASE UNCHANGED <<files, history>> /\ process' = Idle
    BY <2>1 DEF Idle
  <2>2. CASE ~(UNCHANGED <<files, history>> /\ process' = Idle)
    <3>1. /\ files' = [files EXCEPT !["wallet"] = Empty]
          /\ process' = [process EXCEPT !.op = "write", !.then = "idle",
                                        !.file = "wallet", !.content = content]
          /\ history' = [history EXCEPT !.repeated =
                           @ \/ ("wallet" = "temp" /\ ~IsWallet(files["restore"]))]
      BY <2>2 DEF FileStorage
    <3>2. files'["restore"] = files["restore"] /\ files'["temp"] = files["temp"]
      BY <3>1 DEF Sound, FilesSound, Files
    <3>3. process'.op = "write" /\ process'.then = "idle"
      BY <3>1 DEF Sound, ProcessSound, ProcessFields
    <3>4. /\ history'.has = history.has /\ history'.owner = history.owner
          /\ history'.repeated = history.repeated
      BY <3>1 DEF Sound, Counters
    <3> QED
      BY <3>2, <3>3, <3>4
  <2> QED
    BY <2>1, <2>2
<1> QED
  BY <1>1 DEF OwnerKept, Safe, KeyKept, Owned

LEMMA OpensTemp ==
  ASSUME Sound, OwnerKept, Safe, NEW content, FileStorage("temp", content, TRUE, "check")
  PROVE  OwnerKept' /\ Safe'
<1>1. /\ files'["restore"] = files["restore"]
      /\ process'.op = "write" /\ process'.then = "check"
      /\ history'.has = history.has /\ history'.owner = history.owner
      /\ ~history'.repeated => ~history.repeated /\ IsWallet(files["restore"])
  BY DEF FileStorage, Sound, FilesSound, ProcessSound, ProcessFields, Files, Counters
<1> QED
  BY <1>1 DEF OwnerKept, Safe, KeyKept, Owned

\* What was opened is written.
LEMMA WriteOwner ==
  ASSUME Sound, OwnerKept, Safe, Write
  PROVE  OwnerKept' /\ Safe'
<1>1. /\ process.op = "write" /\ process.file \in Files
      /\ files' = [files EXCEPT ![process.file] = process.content]
      /\ files'[process.file] = process.content /\ IsWallet(process.content)
  BY SoundIsWallet DEF Write, Sound, ProcessSound, FilesSound
<1>2. CASE process.then = "idle" /\ process.file = "restore"
  <2>1. /\ history' = [history EXCEPT !.owner = process.content.puk, !.has = TRUE]
        /\ process' = Idle
    BY <1>2 DEF Write
  <2>2. history'.owner = process.content.puk
    BY <2>1 DEF Sound, Counters
  <2> QED
    BY <1>1, <1>2, <2>1, <2>2 DEF OwnerKept, Safe, KeyKept, Owned, Idle
<1>3. CASE process.then = "idle" /\ process.file = "wallet"
  <2>1. history' = history /\ process' = Idle
    BY <1>3 DEF Write
  <2>2. files'["restore"] = files["restore"] /\ files'["temp"] = files["temp"]
    BY <1>1, <1>3 DEF Sound, FilesSound, Files
  <2> QED
    BY <2>1, <2>2 DEF OwnerKept, Safe, KeyKept, Owned, Idle
<1>4. CASE process.then = "check" /\ process.file = "temp"
  <2>1. history' = history /\ process'.op = "check"
    BY <1>4 DEF Write, Sound, ProcessSound, ProcessFields
  <2>2. files'["restore"] = files["restore"] /\ files["temp"] = Empty
    BY <1>1, <1>4 DEF Sound, FilesSound, ProcessSound, Files
  <2>3. ~Owned("temp")
    BY <2>2 DEF Owned, IsWallet, Empty
  <2> QED
    BY <2>1, <2>2, <2>3 DEF OwnerKept, Safe, KeyKept, Owned
<1>5. CASE process.then = "discard" /\ process.file = "restore"
  <2>1. history' = history /\ process'.op = "discard"
    BY <1>5 DEF Write, Sound, ProcessSound, ProcessFields
  <2>2. process.content.puk = history.owner
    BY <1>1, <1>5 DEF OwnerKept
  <2> QED
    BY <1>1, <1>5, <2>1, <2>2 DEF OwnerKept, Safe, KeyKept, Owned
<1> QED
  BY <1>1, <1>2, <1>3, <1>4, <1>5 DEF Sound, ProcessSound, Files

\* The test lets only a wallet of the owner's key through: it signs with the
\* key that its own public key belongs to.
LEMMA TryOwner ==
  ASSUME Sound, OwnerKept, Safe, TryTemp
  PROVE  OwnerKept' /\ Safe'
<1>1. UNCHANGED <<files, history>>
  BY DEF TryTemp
<1>2. CASE process' = Idle
  BY <1>1, <1>2 DEF OwnerKept, Safe, KeyKept, Owned, Idle
<1>3. CASE process' # Idle
  <2>1. IsWallet(files["restore"]) /\ Verifies(process.psw, files["temp"])
    BY <1>3 DEF TryTemp
  <2>2. PICK op \in {"update", "discard"} :
          /\ process' = [process EXCEPT !.op = op]
          /\ op = "update" => \E k \in 0 .. drawn :
                /\ SigningKey(process.psw, files["temp"]) = Prk(k)
                /\ files["restore"].puk = Puk(k)
    BY <1>3 DEF TryTemp, Goes
  <2>3. process'.op = op
    BY <2>2 DEF Sound, ProcessSound, ProcessFields
  <2>4. ASSUME op = "update" PROVE Owned("temp")
    <3>1. PICK k \in 0 .. drawn : /\ SigningKey(process.psw, files["temp"]) = Prk(k)
                                  /\ files["restore"].puk = Puk(k)
      BY <2>2, <2>4
    <3>2. SoundWallet(files["temp"], "R", drawn)
      BY <2>1 DEF Verifies, Sound, FilesSound, Files, TypeOf, IsWallet, Missing, Empty
    <3>3. PICK psw \in Psws, n \in Nat, i \in 0 .. drawn : files["temp"] = WalletOf("R", psw, n, i)
      BY <3>2 DEF SoundWallet
    <3>4. process.psw = psw
      BY <2>1, <3>3, VerifiesOnly
    <3>5. SigningKey(process.psw, files["temp"]) = Prk(i) /\ files["temp"].puk = Puk(i)
      BY <3>3, <3>4, WalletOfOpens DEF Opens
    <3>6. i = k
      BY <3>1, <3>5 DEF Prk
    <3> QED
      BY <2>1, <3>1, <3>3, <3>5, <3>6, WalletFields DEF OwnerKept, KeyKept, Owned
  <2> QED
    BY <1>1, <2>1, <2>3, <2>4 DEF OwnerKept, Safe, KeyKept, Owned
<1> QED
  BY <1>2, <1>3

\* The temporary file is deleted beside the restorable wallet, or by the user.
LEMMA DeleteOwner ==
  ASSUME Sound, OwnerKept, Safe,
         DeleteTemp \/ \E file \in Files : BlockchainWalletFileDelete(file)
  PROVE  OwnerKept' /\ Safe'
<1>1. CASE DeleteTemp
  <2>1. /\ files'["restore"] = files["restore"] /\ process'.op = "idle" /\ history' = history
        /\ IsWallet(files["restore"])
    BY <1>1 DEF DeleteTemp, Idle, Sound, FilesSound, Files, OwnerKept
  <2> QED
    BY <2>1 DEF OwnerKept, Safe, KeyKept, Owned
<1>2. ASSUME NEW file \in Files, BlockchainWalletFileDelete(file)
      PROVE  OwnerKept' /\ Safe'
  <2>1. /\ process.op = "idle" /\ process' = process
        /\ files' = [files EXCEPT ![file] = Missing]
        /\ history' = [history EXCEPT !.has = @ /\ file # "restore"
                                                /\ (file = "temp" => IsWallet(files["restore"]))]
    BY <1>2 DEF BlockchainWalletFileDelete, Call
  <2>2. /\ history'.owner = history.owner /\ history'.repeated = history.repeated
        /\ history'.has => history.has /\ file # "restore"
                            /\ (file = "temp" => IsWallet(files["restore"]))
    BY <2>1 DEF Sound, Counters
  <2>3. \A f \in Files : files'[f] = IF f = file THEN Missing ELSE files[f]
    BY <2>1 DEF Sound, FilesSound
  <2>4. ~IsWallet(Missing)
    BY DEF IsWallet, Missing
  <2>5. KeyKept'
    BY <2>2, <2>3, <2>4 DEF OwnerKept, KeyKept, Files
  <2> QED
    BY <2>1, <2>2, <2>3, <2>4, <2>5 DEF OwnerKept, Safe, Owned, KeyKept, Files
<1> QED
  BY <1>1, <1>2

\* A step that leaves the files alone and ends no test.
LEMMA QuietOwner ==
  ASSUME OwnerKept, Safe, UNCHANGED <<files, history>>,
         process' = process \/ process'.op \in {"idle", "issue", "store", "check"}
  PROVE  OwnerKept' /\ Safe'
BY DEF OwnerKept, Safe, KeyKept, Owned

LEMMA OwnerStep ==
  ASSUME Sound, OwnerKept, Safe, [Next]_vars
  PROVE  OwnerKept' /\ Safe'
<1>1. CASE UNCHANGED vars
  BY <1>1, QuietOwner DEF vars
<1>2. CASE Write
  BY <1>2, WriteOwner
<1>3. ASSUME NEW psw \in Psws, NonRestoreBlockchainWalletIssuing(psw)
      PROVE  OwnerKept' /\ Safe'
  BY <1>3, OpensWallet DEF NonRestoreBlockchainWalletIssuing
<1>4. ASSUME NEW psw \in Psws, RestoreBlockchainWalletInfoGen(psw) \/ PswReSetRegistDataGen(psw)
      PROVE  OwnerKept' /\ Safe'
  <2>1. UNCHANGED <<files, history>> /\ process'.op \in {"issue", "store"}
    BY <1>4 DEF RestoreBlockchainWalletInfoGen, PswReSetRegistDataGen, Idle
  <2> QED
    BY <2>1, QuietOwner
<1>5. ASSUME NEW psw \in Psws, RestoreBlockchainWallet(psw)
      PROVE  OwnerKept' /\ Safe'
  BY <1>5, OpensRestore DEF RestoreBlockchainWallet
<1>6. ASSUME NEW psw \in Psws, OtherDevice(psw)
      PROVE  OwnerKept' /\ Safe'
  BY <1>6, QuietOwner DEF OtherDevice
<1>7. CASE RestoreBlockchainWalletIssuing
  BY <1>7, OpensRestore DEF RestoreBlockchainWalletIssuing
<1>8. CASE Register
  BY <1>8, QuietOwner DEF Register
<1>9. CASE PswReSetStorageGen
  BY <1>9, OpensTemp DEF PswReSetStorageGen
<1>10. CASE TryTemp
  BY <1>10, TryOwner
<1>11. CASE BlockchainWalletFileUpdate
  BY <1>11, OpensRestore DEF BlockchainWalletFileUpdate, OwnerKept
<1>12. CASE DeleteTemp \/ \E file \in Files : BlockchainWalletFileDelete(file)
  BY <1>12, DeleteOwner
<1>13. CASE Crash
  BY <1>13, QuietOwner DEF Crash, Idle
<1> QED
  BY <1>1, <1>2, <1>3, <1>4, <1>5, <1>6, <1>7, <1>8, <1>9, <1>10, <1>11, <1>12, <1>13 DEF Next

-----------------------------------------------------------------------------
(* The theorems                                                              *)

\* The invariant behind all of them.
THEOREM DesktopSound == Spec => []DesktopInv
<1>1. Init => DesktopInv
  BY SoundInit, OwnerInit DEF DesktopInv
<1>2. DesktopInv /\ [Next]_vars => DesktopInv'
  BY SoundStep, OwnerStep DEF DesktopInv
<1> QED
  BY <1>1, <1>2, PTL DEF Spec

\* The variables keep their types, and a file its type of wallet.
THEOREM DesktopTypeSafe == Spec => []TypeOK
<1>1. DesktopInv => TypeOK
  <2> SUFFICES ASSUME DesktopInv PROVE TypeOK
    OBVIOUS
  <2>1. \A file \in Files : \/ files[file] \in {Missing, Empty}
                            \/ IsWallet(files[file]) /\ files[file].type = TypeOf(file)
    BY SoundIsWallet DEF DesktopInv, Sound, FilesSound
  <2>2. DOMAIN files = Files
    BY DEF DesktopInv, Sound, FilesSound
  <2> QED
    BY <2>1, <2>2 DEF DesktopInv, Sound, Counters, ProcessSound, Ops, TypeOK, TypeOf
<1> QED
  BY <1>1, DesktopSound, PTL

\* What a password verifies opens with it, to the key of the public key.
THEOREM DesktopOpens == Spec => []WalletOpens
<1>1. DesktopInv => WalletOpens
  <2> SUFFICES ASSUME DesktopInv, NEW file \in Files, NEW psw \in Psws,
                      Verifies(psw, files[file])
               PROVE  \E k \in 0 .. drawn : Opens(psw, files[file], k)
    BY DEF WalletOpens
  <2>1. SoundWallet(files[file], TypeOf(file), drawn)
    BY DEF Verifies, IsWallet, Missing, Empty, DesktopInv, Sound, FilesSound
  <2>2. PICK own \in Psws, n \in Nat, k \in 0 .. drawn :
          files[file] = WalletOf(TypeOf(file), own, n, k)
    BY <2>1 DEF SoundWallet
  <2>3. psw = own
    BY <2>2, VerifiesOnly
  <2> QED
    BY <2>2, <2>3, WalletOfOpens
<1> QED
  BY <1>1, DesktopSound, PTL

\* A reset keeps the key pair of the restorable wallet.
THEOREM DesktopKeyKept == Spec => []KeyKept
<1>1. DesktopInv => KeyKept
  BY DEF DesktopInv, OwnerKept
<1> QED
  BY <1>1, DesktopSound, PTL

\* The restorable wallet is whole in one of the two files.
THEOREM DesktopNeverLost == Spec => []NeverLost
<1>1. DesktopInv => NeverLost
  <2> SUFFICES ASSUME DesktopInv, history.has, ~history.repeated
               PROVE  \E file \in {"restore", "temp"}, psw \in Psws, k \in 0 .. drawn :
                          Opens(psw, files[file], k) /\ history.owner = Puk(k)
    BY DEF NeverLost
  <2>1. PICK file \in {"restore", "temp"} : Owned(file)
    BY DEF DesktopInv, Safe
  <2>2. SoundWallet(files[file], "R", drawn)
    BY <2>1 DEF Owned, IsWallet, Missing, Empty, DesktopInv, Sound, FilesSound, Files, TypeOf
  <2>3. PICK psw \in Psws, n \in Nat, k \in 0 .. drawn : files[file] = WalletOf("R", psw, n, k)
    BY <2>2 DEF SoundWallet
  <2>4. Opens(psw, files[file], k) /\ history.owner = Puk(k)
    BY <2>1, <2>3, WalletOfOpens, WalletFields DEF Owned
  <2> QED
    BY <2>4
<1> QED
  BY <1>1, DesktopSound, PTL
=============================================================================
