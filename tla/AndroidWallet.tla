----------------------------- MODULE AndroidWallet -----------------------------
(***************************************************************************)
(* The Android wallet (Wallet, MoaWalletHelper): one object with a password  *)
(* field and a mode that chooses between two preference files, used by the   *)
(* thread of the user interface and, when the WebView has made a key pair or *)
(* a signature, by the thread of its JavaScript bridge.                      *)
(*                                                                           *)
(* A step writes at most one preference, the mode or the password: another   *)
(* thread, or the end of the process, may come between two, and between the  *)
(* choice of a file and the write to it.  The server is the application's:   *)
(* it keeps the last backup it was sent.  Cryptography is symbolic.          *)
(***************************************************************************)
EXTENDS Naturals, Sequences, SequencesExt

CONSTANTS Psws,
          NoPsw,        \* the empty string in the password field
          MaxCalls,     \* a bound: calls of the library
          MaxFaults     \* a bound: ends of the process and failures of the key store

VARIABLES prefs,          \* the two preference files
          isPswInitMode, password,   \* fields of Wallet
          thread,         \* what each thread is doing
          jobs,           \* posted to the WebView and not yet called back
          server,         \* the backup of the account
          drawn,          \* how many salts and key pairs were drawn
          calls, faults,
          history         \* what happened, for the properties

vars == <<prefs, isPswInitMode, password, thread, jobs, server, drawn, calls, faults, history>>

AndroidWalletAssumption == MaxCalls \in Nat /\ MaxFaults \in Nat /\ NoPsw \notin Psws
ASSUME AndroidWalletAssumption

-----------------------------------------------------------------------------
(* Values                                                                    *)

None == [t |-> "none"]
Garbage == [t |-> "garbage"]
Prk(k) == [t |-> "prk", key |-> k]
Puk(k) == [t |-> "puk", key |-> k]
NewSalt(n) == [t |-> "salt", n |-> n]

Encrypt(psw, salt, data) == [t |-> "enc", psw |-> psw, salt |-> salt, data |-> data]
Decrypt(psw, salt, data) ==
    IF data.t = "enc" /\ data = Encrypt(psw, salt, data.data) THEN data.data ELSE Garbage

generateAddress(puk) == [t |-> "addr", of |-> puk]

\* generateRestoreDataFormat: the HMAC of the public key stands for psw.
RestoreData(psw, salt, prk, puk) ==
    [t |-> "backup", psw |-> psw, prk |-> Encrypt(psw, salt, prk),
     puk |-> Encrypt(psw, salt, puk), salt |-> salt]

Files == {"moaWallet", "tempWallet"}
Required == <<"Ciphered.Data", "Wallet.PublicKey", "Wallet.Addr", "OS.Info", "MAC.Data">>
Copied == <<"Ciphered.Data", "Wallet.PublicKey", "Wallet.Addr", "MAC.Data", "Salt.Value">>

\* "Properties" stands for the eight that initProperties puts after the first.
Properties == <<"Version.Info", "Properties">>
Items == ToSet(Required) \cup ToSet(Copied) \cup ToSet(Properties)
NoValues == [i \in Items |-> None]
Constant == [t |-> "constant"]
Properly == [i \in Items |-> IF i \in ToSet(Properties) THEN Constant ELSE None]

\* A mistaken MAC: the encrypted private key is left out.
MACDataWithoutKey(psw, f) ==
    [t |-> "mac", psw |-> psw,
     of |-> [i \in Items \ {"MAC.Data", "Properties", "Ciphered.Data"} |-> f[i]]]

MACData(psw, f) ==
    [t |-> "mac", psw |-> psw,
     of |-> [i \in Items \ {"MAC.Data", "Properties"} |-> f[i]]]

\* checkMACData
checkMACData(psw, f) == f["Wallet.Addr"] # None /\ f["MAC.Data"] = MACData(psw, f)

\* A file holds a wallet: psw verifies its MAC and decrypts its private key.
Opens(psw, key, f) ==
    /\ checkMACData(psw, f)
    /\ Decrypt(psw, f["Salt.Value"], f["Ciphered.Data"]) = Prk(key)
    /\ f["Wallet.PublicKey"] = Puk(key) /\ f["Wallet.Addr"] = generateAddress(Puk(key))

\* What save gives setWalletPref.
WalletValues(psw, salt, prk, puk) ==
    [NoValues EXCEPT !["Ciphered.Data"] = Encrypt(psw, salt, prk),
                     !["Wallet.PublicKey"] = puk,
                     !["Wallet.Addr"] = generateAddress(puk),
                     !["OS.Info"] = Constant]

-----------------------------------------------------------------------------
(* Threads                                                                   *)

Threads == {"ui", "bridge"}
NoFile == "none"
Idle == [op |-> "idle", todo |-> <<>>, file |-> NoFile, values |-> NoValues, psw |-> NoPsw,
         prk |-> None, puk |-> None, msg |-> None]
Busy(t) == thread[t].op # "idle"
At(t, op) == thread[t].op = op /\ thread[t].todo = <<>>

initProperties(f) == IF f["Version.Info"] = None THEN Properties ELSE <<>>

getPrefName(mode) == IF mode THEN "tempWallet" ELSE "moaWallet"
File == prefs[getPrefName(isPswInitMode)]
HasProperties(f) == f["Properties"] # None

NewProcess == [t \in Threads |->
    IF t = "ui" THEN [Idle EXCEPT !.op = "setContext", !.todo = initProperties(prefs["moaWallet"]),
                                  !.values = Properly]
    ELSE Idle]

NoHistory == [overlapped |-> FALSE, interleaved |-> FALSE, failed |-> FALSE, threw |-> FALSE,
              foreign |-> FALSE, kept |-> {}]

Stored(psw, salt, k) ==
    LET values == WalletValues(psw, salt, Prk(k), Puk(k))
        f == [i \in Items |-> CASE i = "Salt.Value" -> salt
                                [] i \in ToSet(Properties) -> Constant
                                [] OTHER -> values[i]]
    IN  [f EXCEPT !["MAC.Data"] = MACData(psw, f)]

\* A device without a wallet, whose account has a backup or none; one with the
\* wallet whose backup the server has; and one that has reset its password,
\* too, and is yet to put the temporary wallet into use.
Init ==
    /\ \E psw, newPsw \in Psws, has \in {"nothing", "backup", "wallet", "reset"} :
          /\ prefs = [name \in Files |->
                CASE name = "moaWallet" /\ has \in {"wallet", "reset"} -> Stored(psw, NewSalt(0), 0)
                  [] name = "tempWallet" /\ has = "reset" -> Stored(newPsw, NewSalt(0), 0)
                  [] OTHER -> NoValues]
          /\ server = IF has = "nothing" THEN None
                      ELSE RestoreData(IF has = "reset" THEN newPsw ELSE psw,
                                       NewSalt(0), Prk(0), Puk(0))
    /\ isPswInitMode = FALSE /\ password = NoPsw
    /\ thread = NewProcess
    /\ jobs = <<>> /\ drawn = [salts |-> 0, keys |-> 0]
    /\ calls = 0 /\ faults = 0 /\ history = NoHistory

Quiet == ~Busy("bridge") /\ jobs = <<>>

\* A call of the library begins.
Call ==
    /\ ~Busy("ui") /\ calls < MaxCalls
    /\ calls' = calls + 1

\* The wallets that updateWallet has taken in hand are those of kept.
Called(kept) ==
    history' = [history EXCEPT !.overlapped = ~Quiet,
                               !.failed = ~Quiet /\ @,
                               !.interleaved = @ \/ Busy("bridge"),
                               !.kept = kept]

Does(t, work) == thread' = [thread EXCEPT ![t] = work]

\* getSalt, on the way to work: when the file has none, one is drawn and is the
\* first thing to be stored.
SaltGot == IF File["Salt.Value"] = None THEN NewSalt(drawn.salts + 1) ELSE File["Salt.Value"]
getSalt(t, work) ==
    IF File["Salt.Value"] = None
    THEN /\ drawn' = [drawn EXCEPT !.salts = @ + 1]
         /\ Does(t, [work EXCEPT !.todo = <<"Salt.Value">>, !.values["Salt.Value"] = SaltGot])
    ELSE UNCHANGED drawn /\ Does(t, work)

\* The MAC is made before its file is chosen, of what the file of the mode has.
MustMake(t) ==
    /\ thread[t].op \in {"saved", "restored"} /\ thread[t].values["MAC.Data"] = None
    /\ thread[t].todo # <<>> /\ Head(thread[t].todo) = "MAC.Data"
Reads(t) == thread[t].op = "getTemp"

generateMACData(t) ==
    /\ MustMake(t)
    /\ LET v == thread[t].values
           target == [File EXCEPT !["Ciphered.Data"] = v["Ciphered.Data"],
                                  !["Wallet.PublicKey"] = v["Wallet.PublicKey"],
                                  !["Wallet.Addr"] = v["Wallet.Addr"],
                                  !["OS.Info"] = v["OS.Info"]]
       IN  Does(t, [thread[t] EXCEPT !.values["MAC.Data"] = MACData(password, target)])
    /\ UNCHANGED <<prefs, isPswInitMode, password, jobs, server, drawn, calls, faults, history>>

\* setValuesInPreferences: the file is the one of the mode there is now ...
ChoosePref(t) ==
    /\ thread[t].todo # <<>> /\ thread[t].file = NoFile /\ ~Reads(t) /\ ~MustMake(t)
    /\ Does(t, [thread[t] EXCEPT !.file = getPrefName(isPswInitMode)])
    /\ UNCHANGED <<prefs, isPswInitMode, password, jobs, server, drawn, calls, faults, history>>

\* ... and is written to, whatever mode there is by then.
WritePref(t) ==
    /\ thread[t].file # NoFile
    /\ LET item == Head(thread[t].todo)
       IN  prefs' = [prefs EXCEPT ![thread[t].file][item] = thread[t].values[item]]
    /\ Does(t, [thread[t] EXCEPT !.todo = Tail(@), !.file = NoFile])
    /\ UNCHANGED <<isPswInitMode, password, jobs, server, drawn, calls, faults, history>>

\* setContext and getSalt return.
Returned ==
    /\ At("ui", "setContext") \/ At("ui", "getSalt")
    /\ Does("ui", Idle)
    /\ UNCHANGED <<prefs, isPswInitMode, password, jobs, server, drawn, calls, faults, history>>

-----------------------------------------------------------------------------
(* Creating a wallet                                                         *)

create(psw) ==
    /\ Call
    /\ Called({})
    /\ jobs' = Append(jobs, [job |-> "doGenerate", curve |-> HasProperties(File), psw |-> psw])
    /\ password' = psw
    /\ UNCHANGED <<prefs, isPswInitMode, thread, server, drawn, faults>>

\* A mistaken WebView: what was posted stays and is done again.
doGenerateAgain ==
    /\ ~Busy("bridge") /\ jobs # <<>> /\ Head(jobs).job = "doGenerate"
    /\ drawn' = [drawn EXCEPT !.keys = @ + 1]
    /\ Does("bridge", [Idle EXCEPT !.op = "save", !.psw = Head(jobs).psw,
                                   !.prk = Prk(drawn'.keys), !.puk = Puk(drawn'.keys)])
    /\ history' = [history EXCEPT !.interleaved = @ \/ Busy("ui")]
    /\ UNCHANGED <<prefs, isPswInitMode, password, jobs, server, calls, faults>>

\* The script throws without a curve; otherwise the bridge is called.
doGenerate ==
    /\ ~Busy("bridge") /\ jobs # <<>> /\ Head(jobs).job = "doGenerate"
    /\ jobs' = Tail(jobs)
    /\ IF Head(jobs).curve
       THEN /\ drawn' = [drawn EXCEPT !.keys = @ + 1]
            /\ Does("bridge", [Idle EXCEPT !.op = "save", !.psw = Head(jobs).psw,
                                           !.prk = Prk(drawn'.keys), !.puk = Puk(drawn'.keys)])
            /\ history' = [history EXCEPT !.interleaved = @ \/ Busy("ui")]
       ELSE /\ history' = [history EXCEPT !.threw = TRUE]
            /\ UNCHANGED <<drawn, thread>>
    /\ UNCHANGED <<prefs, isPswInitMode, password, server, calls, faults>>

\* getRSAData gives nothing when the key store fails.
KeyStore(works) ==
    /\ works \/ faults < MaxFaults
    /\ faults' = IF works THEN faults ELSE faults + 1

Throws(t) ==
    /\ Does(t, Idle)
    /\ history' = [history EXCEPT !.threw = TRUE]

\* save(prk, puk), on either thread: the address, the salt and the encrypted
\* key.  Without the properties of the file it throws.
savePair(t) ==
    /\ At(t, "save")
    /\ LET work == thread[t]
       IN  IF HasProperties(File)
           THEN /\ getSalt(t, [work EXCEPT !.op = "keyStore",
                                 !.values = WalletValues(password, SaltGot, work.prk, work.puk)])
                /\ UNCHANGED history
           ELSE Throws(t) /\ UNCHANGED drawn
    /\ UNCHANGED <<prefs, isPswInitMode, password, jobs, server, calls, faults>>

\* When the key store fails nothing is written, and the caller goes on.
setWalletPref(t) ==
    /\ At(t, "keyStore")
    /\ IF HasProperties(File)
       THEN \E keyStoreWorks \in BOOLEAN :
               /\ KeyStore(keyStoreWorks)
               /\ Does(t, [thread[t] EXCEPT !.op = "saved",
                             !.todo = IF keyStoreWorks THEN Required ELSE <<>>])
               /\ history' = [history EXCEPT !.failed = @ \/ ~keyStoreWorks]
       ELSE Throws(t) /\ UNCHANGED faults
    /\ UNCHANGED <<prefs, isPswInitMode, password, jobs, server, drawn, calls>>

\* A mistaken order: the password is cleared before the backup is made.
generateRestoreDataFormatCleared(t) ==
    /\ At(t, "saved")
    /\ password' = NoPsw
    /\ LET work == thread[t]
       IN  getSalt(t, [work EXCEPT !.op = "formatted",
                         !.msg = RestoreData(NoPsw, SaltGot, work.prk, work.puk)])
    /\ UNCHANGED <<prefs, isPswInitMode, jobs, server, calls, faults, history>>

generateRestoreDataFormat(t) ==
    /\ At(t, "saved")
    /\ LET work == thread[t]
       IN  getSalt(t, [work EXCEPT !.op = "formatted",
                         !.msg = RestoreData(password, SaltGot, work.prk, work.puk)])
    /\ UNCHANGED <<prefs, isPswInitMode, password, jobs, server, calls, faults, history>>

\* The application sends the backup it is given to the server, or fails to.
Tells(t) == server' \in {server, thread[t].msg}

onLibWalletCreated ==
    /\ At("bridge", "formatted")
    /\ IF HasProperties(File)
       THEN /\ Tells("bridge")
            /\ Does("bridge", [thread["bridge"] EXCEPT !.op = "told"])
            /\ UNCHANGED history
       ELSE Throws("bridge") /\ UNCHANGED server
    /\ UNCHANGED <<prefs, isPswInitMode, password, jobs, drawn, calls, faults>>

onSuccessKeyPair ==
    /\ At("bridge", "told")
    /\ password' = NoPsw
    /\ Does("bridge", Idle)
    /\ history' = [history EXCEPT !.failed = FALSE]
    /\ UNCHANGED <<prefs, isPswInitMode, jobs, server, drawn, calls, faults>>

-----------------------------------------------------------------------------
(* Signing and the small operations                                          *)

generateSignedTransaction(psw) ==
    /\ Call /\ Called({})
    /\ \E keyStoreWorks \in BOOLEAN :
          IF checkMACData(psw, File) /\ keyStoreWorks
          THEN /\ jobs' = Append(jobs, [job |-> "doSign",
                                        prk |-> Decrypt(psw, File["Salt.Value"], File["Ciphered.Data"])])
               /\ UNCHANGED password
          ELSE password' = NoPsw /\ UNCHANGED jobs
    /\ UNCHANGED <<prefs, isPswInitMode, thread, server, drawn, faults>>

\* Nor is there an answer when the file has no curve by now.
onSuccessSign ==
    /\ ~Busy("bridge") /\ jobs # <<>> /\ Head(jobs).job = "doSign"
    /\ jobs' = Tail(jobs)
    /\ password' = IF HasProperties(File) THEN NoPsw ELSE password
    /\ history' = [history EXCEPT !.interleaved = @ \/ Busy("ui"),
                                  !.threw = @ \/ ~HasProperties(File)]
    /\ UNCHANGED <<prefs, isPswInitMode, thread, server, drawn, calls, faults>>

removeWallet ==
    /\ Call /\ Called({})
    /\ prefs' = [prefs EXCEPT ![getPrefName(isPswInitMode)] =
                   [i \in Items |-> IF i \in ToSet(Required) \ {"OS.Info"} THEN None ELSE @[i]]]
    /\ UNCHANGED <<isPswInitMode, password, thread, jobs, server, drawn, faults>>

removeTempWallet ==
    /\ Call /\ Called({})
    /\ prefs' = [prefs EXCEPT !["tempWallet"] = NoValues]
    /\ Does("ui", [Idle EXCEPT !.op = "removeTemp"])
    /\ UNCHANGED <<isPswInitMode, password, jobs, server, drawn, faults>>

\* The end of it, also when updateWallet calls it.
TempWalletRemoved ==
    /\ At("ui", "removeTemp")
    /\ isPswInitMode' = FALSE
    /\ Does("ui", Idle)
    /\ UNCHANGED <<prefs, password, jobs, server, drawn, calls, faults, history>>

setPswInitMode(mode) ==
    /\ Call /\ Called({})
    /\ isPswInitMode' = mode
    /\ UNCHANGED <<prefs, password, thread, jobs, server, drawn, faults>>

SaltAsked ==
    /\ Call /\ Called({})
    /\ getSalt("ui", [Idle EXCEPT !.op = "getSalt"])
    /\ UNCHANGED <<prefs, isPswInitMode, password, jobs, server, faults>>

-----------------------------------------------------------------------------
(* Restoring                                                                 *)

\* restoreWallet goes on when the backup's HMAC is the password's; the salt is
\* the first thing stored.
restoreWallet(psw) ==
    /\ Call /\ Called({})
    /\ server # None /\ server.psw = psw /\ HasProperties(File)
    /\ Does("ui", [Idle EXCEPT !.op = "restore", !.psw = psw, !.msg = server,
                     !.todo = <<"Salt.Value">>, !.values["Salt.Value"] = server.salt])
    /\ UNCHANGED <<prefs, isPswInitMode, password, jobs, server, drawn, faults>>

SetPassword ==
    /\ At("ui", "restore")
    /\ password' = thread["ui"].psw
    /\ Does("ui", [thread["ui"] EXCEPT !.op = "restoring"])
    /\ UNCHANGED <<prefs, isPswInitMode, jobs, server, drawn, calls, faults, history>>

\* A mistaken early return: the password stays.
saveKeeps(keyStoreWorks) ==
    /\ At("ui", "restoring") /\ KeyStore(keyStoreWorks)
    /\ Does("ui", Idle)
    /\ UNCHANGED <<prefs, isPswInitMode, password, jobs, server, drawn, calls, history>>

save(keyStoreWorks) ==
    /\ At("ui", "restoring") /\ KeyStore(keyStoreWorks)
    /\ LET work == thread["ui"]
           puk == Decrypt(work.psw, File["Salt.Value"], work.msg.puk)
       IN  IF keyStoreWorks
           THEN /\ Does("ui", [work EXCEPT !.op = "restored", !.todo = Required,
                                 !.values = [WalletValues(work.psw, None, None, puk)
                                               EXCEPT !["Ciphered.Data"] = work.msg.prk]])
                /\ UNCHANGED password
           ELSE password' = NoPsw /\ Does("ui", Idle)
    /\ UNCHANGED <<prefs, isPswInitMode, jobs, server, drawn, calls, history>>

onLibRestoreCompleted ==
    /\ At("ui", "restored")
    /\ Does("ui", Idle)
    /\ password' = NoPsw
    /\ UNCHANGED <<prefs, isPswInitMode, jobs, server, drawn, calls, faults, history>>

-----------------------------------------------------------------------------
(* Resetting the password                                                    *)

\* generateBackUpRestoreDataFormat: the properties of the temporary file; the
\* keys, decrypted under the salt of the device's own file; the backup's salt;
\* the wallet under the new password, and its backup.
generateBackUpRestoreDataFormat(psw) ==
    /\ Call /\ Called({})
    /\ server # None
    /\ isPswInitMode' = TRUE
    /\ Does("ui", [Idle EXCEPT !.op = "init", !.psw = psw, !.msg = server,
                     !.todo = initProperties(prefs["tempWallet"]), !.values = Properly])
    /\ UNCHANGED <<prefs, password, jobs, server, drawn, faults>>

OwnFile ==
    /\ At("ui", "init")
    /\ isPswInitMode' = FALSE
    /\ Does("ui", [thread["ui"] EXCEPT !.op = "decrypt"])
    /\ UNCHANGED <<prefs, password, jobs, server, drawn, calls, faults, history>>

DecryptBackUp ==
    /\ At("ui", "decrypt")
    /\ LET msg == thread["ui"].msg
       IN  /\ getSalt("ui", [thread["ui"] EXCEPT !.op = "decrypted",
                               !.prk = Decrypt(msg.psw, SaltGot, msg.prk),
                               !.puk = Decrypt(msg.psw, SaltGot, msg.puk)])
           /\ history' = [history EXCEPT !.foreign = @ \/ SaltGot # msg.salt]
    /\ UNCHANGED <<prefs, isPswInitMode, password, jobs, server, calls, faults>>

\* The salt of the device is stored by now, even when the cipher throws.
SaveSalt ==
    /\ At("ui", "decrypted")
    /\ IF HasProperties(File)
       THEN /\ isPswInitMode' = TRUE
            /\ Does("ui", [thread["ui"] EXCEPT !.op = "encrypt", !.todo = <<"Salt.Value">>,
                             !.values["Salt.Value"] = thread["ui"].msg.salt])
            /\ UNCHANGED history
       ELSE Throws("ui") /\ UNCHANGED isPswInitMode
    /\ UNCHANGED <<prefs, password, jobs, server, drawn, calls, faults>>

\* What follows is savePair("ui"): without properties of the temporary file it
\* throws, and the password and the mode stay.
EncryptBackUp ==
    /\ At("ui", "encrypt")
    /\ password' = thread["ui"].psw
    /\ Does("ui", [thread["ui"] EXCEPT !.op = "save"])
    /\ UNCHANGED <<prefs, isPswInitMode, jobs, server, drawn, calls, faults, history>>

BackUpGenerated ==
    /\ At("ui", "formatted")
    /\ password' = NoPsw
    /\ Does("ui", [thread["ui"] EXCEPT !.op = "backedUp"])
    /\ UNCHANGED <<prefs, isPswInitMode, jobs, server, drawn, calls, faults, history>>

BackUpReturned ==
    /\ At("ui", "backedUp")
    /\ isPswInitMode' = FALSE
    /\ Tells("ui")
    /\ Does("ui", Idle)
    /\ history' = [history EXCEPT !.failed = FALSE]
    /\ UNCHANGED <<prefs, password, jobs, drawn, calls, faults>>

-----------------------------------------------------------------------------
(* Putting the temporary wallet into use                                     *)

\* What updateWallet is to keep: the temporary wallet, unless the WebView owes
\* an answer that may write to it, or the items of the MAC that are not copied
\* differ.
TakenInHand ==
    {w \in [psw : Psws \cup {NoPsw}, key : 0 .. drawn.keys] :
        /\ Quiet
        /\ \A i \in {"Version.Info", "OS.Info"} : prefs["moaWallet"][i] = prefs["tempWallet"][i]
        /\ Opens(w.psw, w.key, prefs["tempWallet"])}

updateWallet ==
    /\ Call /\ Called(TakenInHand)
    /\ isPswInitMode' = TRUE
    /\ Does("ui", [Idle EXCEPT !.op = "getTemp", !.todo = Copied])
    /\ UNCHANGED <<prefs, password, jobs, server, drawn, faults>>

\* One getValuesInPreferences.
GetPref ==
    /\ Reads("ui") /\ thread["ui"].todo # <<>>
    /\ LET item == Head(thread["ui"].todo)
       IN  Does("ui", [thread["ui"] EXCEPT !.todo = Tail(@), !.values[item] = File[item]])
    /\ UNCHANGED <<prefs, isPswInitMode, password, jobs, server, drawn, calls, faults, history>>

\* A mistaken update: the temporary wallet is moved, not copied.
MoveTempWallet ==
    /\ At("ui", "getTemp")
    /\ isPswInitMode' = FALSE
    /\ Does("ui", [thread["ui"] EXCEPT !.op = "updateWallet", !.todo = Copied])
    /\ prefs' = [prefs EXCEPT !["tempWallet"] = NoValues]
    /\ UNCHANGED <<password, jobs, server, drawn, calls, faults, history>>

GotTempWallet ==
    /\ At("ui", "getTemp")
    /\ isPswInitMode' = FALSE
    /\ Does("ui", [thread["ui"] EXCEPT !.op = "updateWallet", !.todo = Copied])
    /\ UNCHANGED <<prefs, password, jobs, server, drawn, calls, faults, history>>

WalletUpdated ==
    /\ At("ui", "updateWallet")
    /\ prefs' = [prefs EXCEPT !["tempWallet"] = NoValues]
    /\ Does("ui", [Idle EXCEPT !.op = "removeTemp"])
    /\ UNCHANGED <<isPswInitMode, password, jobs, server, drawn, calls, faults, history>>

-----------------------------------------------------------------------------
\* The process ends; what is in the files stays.
Crash ==
    /\ faults < MaxFaults
    /\ faults' = faults + 1
    /\ isPswInitMode' = FALSE /\ password' = NoPsw
    /\ thread' = NewProcess /\ jobs' = <<>>
    /\ history' = [history EXCEPT !.overlapped = FALSE, !.failed = FALSE, !.threw = FALSE]
    /\ UNCHANGED <<prefs, server, drawn, calls>>

Next ==
    \/ \E t \in Threads : \/ generateMACData(t) \/ ChoosePref(t) \/ WritePref(t)
                          \/ savePair(t) \/ setWalletPref(t) \/ generateRestoreDataFormat(t)
    \/ Returned
    \/ \E psw \in Psws : create(psw) \/ generateSignedTransaction(psw) \/ restoreWallet(psw)
                         \/ generateBackUpRestoreDataFormat(psw)
    \/ doGenerate \/ onLibWalletCreated \/ onSuccessKeyPair \/ onSuccessSign
    \/ removeWallet \/ removeTempWallet \/ TempWalletRemoved \/ SaltAsked
    \/ \E mode \in BOOLEAN : setPswInitMode(mode)
    \/ SetPassword \/ \E keyStoreWorks \in BOOLEAN : save(keyStoreWorks)
    \/ onLibRestoreCompleted
    \/ OwnFile \/ DecryptBackUp \/ SaveSalt \/ EncryptBackUp \/ BackUpGenerated \/ BackUpReturned
    \/ updateWallet \/ GetPref \/ GotTempWallet \/ WalletUpdated
    \/ Crash

Spec == Init /\ [][Next]_vars

-----------------------------------------------------------------------------
(* What is to be true of it                                                  *)

\* Every variable has its type, and no more jobs are posted than calls were made.
TypeOK ==
    /\ DOMAIN prefs = Files /\ \A name \in Files : DOMAIN prefs[name] = Items
    /\ isPswInitMode \in BOOLEAN /\ password \in Psws \cup {NoPsw}
    /\ DOMAIN thread = Threads
    /\ thread["bridge"].op \in {"idle", "save", "keyStore", "saved", "formatted", "told"}
    /\ thread["ui"].op \in {"idle", "setContext", "getSalt", "removeTemp",
                            "restore", "restoring", "restored",
                            "init", "decrypt", "decrypted", "encrypt",
                            "save", "keyStore", "saved", "formatted", "backedUp",
                            "getTemp", "updateWallet"}
    /\ \A t \in Threads : /\ ToSet(thread[t].todo) \subseteq Items
                          /\ thread[t].file \in Files \cup {NoFile}
    /\ Len(jobs) <= MaxCalls
    /\ drawn.keys \in 0 .. MaxCalls /\ drawn.salts \in Nat
    /\ calls \in 0 .. MaxCalls /\ faults \in 0 .. MaxFaults

\* A file whose MAC a password verifies holds a key pair, and its private key
\* decrypts under that password: whatever calls were made, in whatever order
\* the WebView answered, and wherever the process ended (setWalletPref,
\* checkMACData).  Not when the two threads ran at once, and not after a reset
\* with the backup of another wallet.
WalletOpens ==
    ~history.interleaved /\ ~history.foreign =>
        \A name \in Files, psw \in Psws \cup {NoPsw} :
            checkMACData(psw, prefs[name]) =>
                \E key \in 0 .. drawn.keys : Opens(psw, key, prefs[name])

\* The wallet that onLibWalletCreated tells of is stored under the password
\* create was called with, and the backup it is given opens with that password
\* too, if no other call was made meanwhile and the key store did not fail.
CreatedAsAsked ==
    [][ At("bridge", "formatted") /\ At("bridge", "told")'
        /\ ~history.overlapped /\ ~history.failed =>
            LET work == thread["bridge"]
            IN  /\ checkMACData(work.psw, File) /\ File["Wallet.PublicKey"] = work.puk
                /\ server' \in {server, RestoreData(work.psw, File["Salt.Value"], work.prk, work.puk)}
      ]_vars

\* updateWallet loses no wallet: the one it puts into use opens, under the
\* passwords it opened under, in one of the two files, wherever the process
\* ends, while it is copied, preference by preference, and when the temporary
\* one is gone.
UpdateKeepsWallet ==
    \A w \in history.kept : \E name \in Files : Opens(w.psw, w.key, prefs[name])

\* The password is not kept when nothing is under way, however the calls and
\* the answers of the WebView interleaved; an exception leaves it.
PasswordCleared ==
    ~Busy("ui") /\ Quiet /\ ~history.threw => password = NoPsw
=============================================================================
