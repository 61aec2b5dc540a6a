-------------------------- MODULE AndroidWalletProofs --------------------------
(***************************************************************************)
(* The Android wallet, for any passwords and any number of calls, faults and *)
(* ends of the process.                                                      *)
(***************************************************************************)
EXTENDS AndroidWallet, SequenceTheorems, TLAPS

WorkFields == {"op", "todo", "file", "values", "psw", "prk", "puk", "msg"}
HistoryFlags == {"overlapped", "interleaved", "failed", "threw", "foreign"}
HistoryFields == HistoryFlags \cup {"kept"}
Saves == {"saved", "restored"}
PropertyOps == {"setContext", "init"}
SaltOps == {"keyStore", "formatted", "getSalt", "decrypted", "restore", "encrypt"}
CopyOps == {"getTemp", "updateWallet"}
BridgeOps == {"idle", "save", "keyStore", "saved", "formatted", "told"}
UiOps == {"idle", "setContext", "getSalt", "removeTemp", "restore", "restoring", "restored",
          "init", "decrypt", "decrypted", "encrypt", "save", "keyStore", "saved", "formatted",
          "backedUp", "getTemp", "updateWallet"}
Ops(t) == IF t = "ui" THEN UiOps ELSE BridgeOps

\* What a thread has left to read or write belongs to what it is doing; a save
\* writes the MAC last.
TodoOK(op, todo) ==
    /\ todo \in Seq(Items)
    /\ op \in PropertyOps => \A i \in DOMAIN todo : todo[i] \in ToSet(Properties)
    /\ op \in Saves => \A i \in DOMAIN todo : todo[i] \in ToSet(Required)
    /\ op \in Saves => \A i \in DOMAIN todo : (todo[i] = "MAC.Data" <=> i = Len(todo))
    /\ op \in SaltOps => \A i \in DOMAIN todo : todo[i] = "Salt.Value"
    /\ op \in CopyOps => \A i \in DOMAIN todo : todo[i] \in ToSet(Copied)
    /\ op \notin PropertyOps \cup Saves \cup SaltOps \cup CopyOps => todo = <<>>

WorkTyped(w) ==
    /\ DOMAIN w = WorkFields /\ DOMAIN w.values = Items
    /\ w.psw \in Psws \cup {NoPsw} /\ w.file \in Files \cup {NoFile}
    /\ TodoOK(w.op, w.todo)
    /\ w.file # NoFile => w.todo # <<>> /\ w.op # "getTemp"
    /\ w.op \in PropertyOps => w.values = Properly

JobOK(job) == \/ job.job = "doGenerate" /\ job.psw \in Psws
              \/ job.job = "doSign"

PrefsTyped == DOMAIN prefs = Files /\ \A name \in Files : DOMAIN prefs[name] = Items

ThreadsTyped ==
    /\ DOMAIN thread = Threads
    /\ \A t \in Threads : thread[t].op \in Ops(t) /\ WorkTyped(thread[t])

JobsTyped == /\ \E S : jobs \in Seq(S)
             /\ \A i \in DOMAIN jobs : JobOK(jobs[i])

DrawnTyped == DOMAIN drawn = {"salts", "keys"} /\ drawn.salts \in Nat /\ drawn.keys \in Nat

HistoryTyped == /\ DOMAIN history = HistoryFields
                /\ \A field \in HistoryFlags : history[field] \in BOOLEAN

RestTyped ==
    /\ isPswInitMode \in BOOLEAN /\ password \in Psws \cup {NoPsw}
    /\ DrawnTyped /\ calls \in 0 .. MaxCalls /\ drawn.keys + Len(jobs) <= calls
    /\ faults \in 0 .. MaxFaults

Typed == PrefsTyped /\ ThreadsTyped /\ JobsTyped /\ HistoryTyped /\ RestTyped

\* Nothing but a restore or a reset on its way, or an exception, has the
\* password in the field when the bridge is quiet.
WithPassword == {"restoring", "restored", "save", "keyStore", "saved", "formatted"}
Cleared == ~history.threw /\ thread["ui"].op \notin WithPassword /\ Quiet => password = NoPsw

\* The device's own file has its version once setContext is done.
Started ==
    IF thread["ui"].op = "setContext"
    THEN /\ ~isPswInitMode /\ thread["ui"].file \in {NoFile, "moaWallet"}
         /\ \/ prefs["moaWallet"]["Version.Info"] # None
            \/ "Version.Info" \in ToSet(thread["ui"].todo)
    ELSE prefs["moaWallet"]["Version.Info"] # None

\* How far updateWallet is with the wallets it is to keep.
OpenAll(f) == \A w \in history.kept : Opens(w.psw, w.key, f)
Agree == \A i \in {"Version.Info", "OS.Info"} : prefs["moaWallet"][i] = prefs["tempWallet"][i]
Keeping ==
    LET work == thread["ui"]
        moa == prefs["moaWallet"]
        temp == prefs["tempWallet"]
    IN  history.kept # {} =>
          /\ Quiet
          /\ \/ /\ work.op = "getTemp" /\ isPswInitMode /\ Agree /\ OpenAll(temp)
                /\ \A i \in ToSet(Copied) : i \in ToSet(work.todo) \/ work.values[i] = temp[i]
             \/ /\ work.op = "updateWallet" /\ ~isPswInitMode /\ Agree /\ OpenAll(temp)
                /\ work.file \in {NoFile, "moaWallet"}
                /\ \A i \in ToSet(Copied) :
                      /\ work.values[i] = temp[i]
                      /\ i \in ToSet(work.todo) \/ moa[i] = temp[i]
             \/ work.op = "removeTemp" /\ OpenAll(moa)
             \/ /\ work.op \in {"idle", "setContext"} /\ work.todo = <<>>
                /\ OpenAll(temp) \/ OpenAll(moa)

\* A MAC is of a whole wallet.
GoodMAC(m, d) ==
    m = None \/ \E k \in 0 .. d : /\ m.of["Ciphered.Data"] = Encrypt(m.psw, m.of["Salt.Value"], Prk(k))
                                  /\ m.of["Wallet.PublicKey"] = Puk(k)
                                  /\ m.of["Wallet.Addr"] = generateAddress(Puk(k))
GoodPair(work, d) == \E k \in 0 .. d : work.prk = Prk(k) /\ work.puk = Puk(k)
GoodBackUp(b, d) == \E k \in 0 .. d : b = RestoreData(b.psw, b.salt, Prk(k), Puk(k))
GoodValues(v, psw, salt, d) ==
    \E k \in 0 .. d : /\ v["Ciphered.Data"] = Encrypt(psw, salt, Prk(k))
                      /\ v["Wallet.PublicKey"] = Puk(k)
                      /\ v["Wallet.Addr"] = generateAddress(Puk(k))

\* The salt there will be when the thread has stored the one it has.
SaltToBe(w, salt) ==
    IF w.op \in SaltOps /\ w.todo # <<>> THEN w.values["Salt.Value"] ELSE salt

\* What a thread works with, under the mode, the password and the salt of now.
WithPair == {"save", "keyStore", "saved", "decrypted", "encrypt"}
WithBackUp == {"restore", "restoring", "init", "decrypt", "formatted", "backedUp"}
WorkGood(w, d, mode, psw, salt) ==
    /\ w.file \in {NoFile, getPrefName(mode)}
    /\ GoodMAC(w.values["MAC.Data"], d)
    /\ w.op \in WithPair => GoodPair(w, d)
    /\ w.op \in WithBackUp => GoodBackUp(w.msg, d)
    /\ w.op \in {"restore", "restoring"} => w.msg.psw = w.psw /\ SaltToBe(w, salt) = w.msg.salt
    /\ w.op = "restoring" => psw = w.psw
    /\ w.op = "keyStore" \/ (w.op \in Saves /\ w.todo # <<>>)
         => GoodValues(w.values, psw, SaltToBe(w, salt), d)

Orderly == ~history.interleaved /\ ~history.foreign
FilesGood == \A name \in Files : GoodMAC(prefs[name]["MAC.Data"], drawn.keys)
ServerGood == server = None \/ GoodBackUp(server, drawn.keys)
WorksGood ==
    /\ ~Busy("ui") \/ ~Busy("bridge")
    /\ \A t \in Threads :
          WorkGood(thread[t], drawn.keys, isPswInitMode, password, File["Salt.Value"])

AllGood == Orderly => FilesGood /\ ServerGood /\ WorksGood

\* What the bridge has saved so far in f of the wallet w under psw.
ValuesOf(w, psw, salt) ==
    \A i \in ToSet(Required) \ {"MAC.Data"} :
        w.values[i] = WalletValues(psw, salt, w.prk, w.puk)[i]
HasSaved(w, psw, f) ==
    /\ f["Salt.Value"] # None /\ f["MAC.Data"] = MACData(psw, f)
    /\ f["Wallet.Addr"] = generateAddress(w.puk) /\ f["Wallet.PublicKey"] = w.puk
Saving(w, psw, f) ==
    /\ f["Salt.Value"] # None /\ ValuesOf(w, psw, f["Salt.Value"])
    /\ \A i \in ToSet(Required) \ {"MAC.Data"} : i \in ToSet(w.todo) \/ f[i] = w.values[i]
    /\ w.values["MAC.Data"] # None =>
          Head(w.todo) = "MAC.Data" /\ w.values["MAC.Data"] = MACData(psw, f)
    /\ w.file # NoFile /\ Head(w.todo) = "MAC.Data" => w.values["MAC.Data"] # None
SavedSoFar(w, psw, f) ==
    /\ w.op = "keyStore" =>
          /\ SaltToBe(w, f["Salt.Value"]) # None /\ w.values["MAC.Data"] = None
          /\ ValuesOf(w, psw, SaltToBe(w, f["Salt.Value"]))
    /\ w.op = "saved" /\ w.todo # <<>> => Saving(w, psw, f)
    /\ w.op = "saved" /\ w.todo = <<>> => HasSaved(w, psw, f)
    /\ w.op = "formatted" =>
          /\ HasSaved(w, psw, f) /\ w.todo = <<>>
          /\ w.msg = RestoreData(psw, f["Salt.Value"], w.prk, w.puk)

\* What create asked for, as long as no other call came in between.
Asked ==
    ~history.overlapped /\ ~Quiet =>
        /\ ~Busy("ui")
        /\ jobs # <<>> => /\ Len(jobs) = 1 /\ ~Busy("bridge")
                          /\ Head(jobs).job = "doGenerate" => password = Head(jobs).psw
        /\ Busy("bridge") =>
              /\ password = thread["bridge"].psw
              /\ thread["bridge"].file \in {NoFile, getPrefName(isPswInitMode)}
              /\ ~history.failed => SavedSoFar(thread["bridge"], password, File)

-----------------------------------------------------------------------------
(* The items, and lists of them                                              *)

ItemNames == {"Ciphered.Data", "Wallet.PublicKey", "Wallet.Addr", "OS.Info", "MAC.Data",
              "Salt.Value", "Version.Info", "Properties"}

LEMMA ItemsNamed ==
    /\ ToSet(Required) = ItemNames \ {"Salt.Value", "Version.Info", "Properties"}
    /\ ToSet(Copied) = ItemNames \ {"OS.Info", "Version.Info", "Properties"}
    /\ ToSet(Properties) = {"Version.Info", "Properties"}
    /\ Items = ItemNames
<1>1. ToSet(Required) = ItemNames \ {"Salt.Value", "Version.Info", "Properties"}
  BY DEF ToSet, Required, ItemNames
<1>2. ToSet(Copied) = ItemNames \ {"OS.Info", "Version.Info", "Properties"}
  BY DEF ToSet, Copied, ItemNames
<1>3. ToSet(Properties) = {"Version.Info", "Properties"}
  BY DEF ToSet, Properties
<1> QED
  BY <1>1, <1>2, <1>3 DEF Items, ItemNames

LEMMA ListsOfItems ==
    /\ Required \in Seq(Items) /\ Copied \in Seq(Items) /\ Properties \in Seq(Items)
    /\ <<>> \in Seq(Items) /\ <<"Salt.Value">> \in Seq(Items)
<1>1. Required \in Seq(Items)
  BY ItemsNamed DEF Required, ItemNames
<1>2. Copied \in Seq(Items)
  BY ItemsNamed DEF Copied, ItemNames
<1>3. Properties \in Seq(Items)
  BY ItemsNamed DEF Properties, ItemNames
<1>4. <<"Salt.Value">> \in Seq(Items)
  BY ItemsNamed DEF ItemNames
<1> QED
  BY <1>1, <1>2, <1>3, <1>4

LEMMA HeadAndTail ==
    ASSUME NEW S, NEW s \in Seq(S), s # <<>>
    PROVE  /\ Tail(s) \in Seq(S) /\ Head(s) \in S /\ Head(s) = s[1]
           /\ Len(Tail(s)) = Len(s) - 1 /\ Len(s) \in Nat \ {0}
           /\ \A i \in 1 .. Len(Tail(s)) : Tail(s)[i] = s[i + 1]
BY HeadTailProperties

LEMMA HeadOrTail ==
    ASSUME NEW S, NEW s \in Seq(S), s # <<>>
    PROVE  ToSet(s) = ToSet(Tail(s)) \cup {Head(s)}
<1>1. /\ Tail(s) \in Seq(S) /\ Head(s) = s[1] /\ Len(s) \in Nat \ {0}
      /\ Len(Tail(s)) = Len(s) - 1
      /\ \A i \in 1 .. Len(Tail(s)) : Tail(s)[i] = s[i + 1]
  BY HeadAndTail
<1>2. DOMAIN s = 1 .. Len(s) /\ DOMAIN Tail(s) = 1 .. Len(s) - 1
  BY <1>1
<1>3. /\ 1 \in DOMAIN s
      /\ \A i \in DOMAIN s : i = 1 \/ (i - 1 \in DOMAIN Tail(s) /\ Tail(s)[i - 1] = s[i])
      /\ \A i \in DOMAIN Tail(s) : i + 1 \in DOMAIN s /\ Tail(s)[i] = s[i + 1]
  BY <1>1, <1>2
<1>4. ASSUME NEW x \in ToSet(s)
      PROVE  x \in ToSet(Tail(s)) \cup {Head(s)}
  <2>1. PICK i \in DOMAIN s : x = s[i]
    BY <1>4 DEF ToSet
  <2> QED
    BY <1>1, <1>3, <2>1 DEF ToSet
<1>5. ASSUME NEW x \in ToSet(Tail(s)) \cup {Head(s)}
      PROVE  x \in ToSet(s)
  BY <1>1, <1>3, <1>5 DEF ToSet
<1> QED
  BY <1>4, <1>5

LEMMA NoValuesTyped == /\ DOMAIN NoValues = Items /\ \A i \in Items : NoValues[i] = None
                       /\ DOMAIN Properly = Items /\ Properly["MAC.Data"] = None
                       /\ Properly["Version.Info"] # None
<1>1. "MAC.Data" \in Items \ ToSet(Properties) /\ "Version.Info" \in Items \cap ToSet(Properties)
  BY ItemsNamed DEF ItemNames
<1>2. Constant # None
  BY DEF Constant, None
<1> QED
  BY <1>1, <1>2 DEF NoValues, Properly

LEMMA WalletValuesTyped ==
    \A psw, salt, prk, puk : LET v == WalletValues(psw, salt, prk, puk)
                             IN  /\ DOMAIN v = Items /\ v["MAC.Data"] = None
                                 /\ v["Ciphered.Data"] = Encrypt(psw, salt, prk)
                                 /\ v["Wallet.PublicKey"] = puk
                                 /\ v["Wallet.Addr"] = generateAddress(puk)
<1>1. {"MAC.Data", "Ciphered.Data", "Wallet.PublicKey", "Wallet.Addr"} \subseteq Items
  BY ItemsNamed DEF ItemNames
<1> QED
  BY <1>1, NoValuesTyped DEF WalletValues

-----------------------------------------------------------------------------
(* What the helpers of the actions leave typed                               *)

LEMMA TodoTyped ==
    /\ \A op : TodoOK(op, <<>>)
    /\ \A op \in Saves : TodoOK(op, Required)
    /\ \A op \in CopyOps : TodoOK(op, Copied)
    /\ \A op \in SaltOps : TodoOK(op, <<"Salt.Value">>)
    /\ \A op \in PropertyOps : \A f : TodoOK(op, initProperties(f))
<1> USE DEF Saves, CopyOps, SaltOps, PropertyOps
<1>1. \A op : TodoOK(op, <<>>)
  BY ListsOfItems DEF TodoOK
<1>2. ASSUME NEW op \in Saves
      PROVE  TodoOK(op, Required)
  <2>1. Len(Required) = 5 /\ Required[5] = "MAC.Data"
    BY DEF Required
  <2>2. \A i \in 1 .. 5 : Required[i] = "MAC.Data" <=> i = 5
    BY DEF Required
  <2>3. \A i \in DOMAIN Required : Required[i] \in ToSet(Required)
    BY DEF ToSet
  <2>4. DOMAIN Required = 1 .. 5
    BY DEF Required
  <2> QED
    BY <2>1, <2>2, <2>3, <2>4, ListsOfItems DEF TodoOK
<1>3. ASSUME NEW op \in CopyOps
      PROVE  TodoOK(op, Copied)
  <2>1. \A i \in DOMAIN Copied : Copied[i] \in ToSet(Copied)
    BY DEF ToSet
  <2> QED
    BY <2>1, ListsOfItems DEF TodoOK
<1>4. ASSUME NEW op \in PropertyOps, NEW f
      PROVE  TodoOK(op, initProperties(f))
  <2>1. \A i \in DOMAIN Properties : Properties[i] \in ToSet(Properties)
    BY DEF ToSet
  <2> QED
    BY <2>1, <1>1, ListsOfItems DEF TodoOK, initProperties
<1>5. ASSUME NEW op \in SaltOps
      PROVE  TodoOK(op, <<"Salt.Value">>)
  BY ListsOfItems DEF TodoOK
<1> QED
  BY <1>1, <1>2, <1>3, <1>4, <1>5

\* The rest of what a thread has to write is as good as the whole.
LEMMA TailTyped ==
    ASSUME NEW op, NEW todo, TodoOK(op, todo), todo # <<>>
    PROVE  TodoOK(op, Tail(todo))
<1>1. /\ Tail(todo) \in Seq(Items) /\ Len(Tail(todo)) = Len(todo) - 1
      /\ \A i \in 1 .. Len(Tail(todo)) : Tail(todo)[i] = todo[i + 1]
      /\ Len(todo) \in Nat
  BY HeadAndTail DEF TodoOK
<1>2. DOMAIN Tail(todo) = 1 .. Len(todo) - 1 /\ DOMAIN todo = 1 .. Len(todo)
  BY <1>1 DEF TodoOK
<1> QED
  BY <1>1, <1>2 DEF TodoOK

LEMMA IdleTyped == /\ WorkTyped(Idle) /\ Idle.op = "idle" /\ Idle.todo = <<>>
                   /\ Idle.file = NoFile /\ Idle.values = NoValues
BY TodoTyped, NoValuesTyped DEF WorkTyped, Idle, WorkFields, PropertyOps

LEMMA FileNamed == /\ \A mode \in BOOLEAN : getPrefName(mode) \in Files
                   /\ NoFile \notin Files
BY DEF getPrefName, Files, NoFile

LEMMA FileIs == Typed => getPrefName(isPswInitMode) \in Files /\ DOMAIN File = Items
BY FileNamed DEF Typed, RestTyped, PrefsTyped, File

LEMMA ThreadsApart ==
    ASSUME Typed, NEW t \in Threads, NEW work, Does(t, work)
    PROVE  /\ thread'[t] = work /\ DOMAIN thread' = Threads
           /\ \A u \in Threads \ {t} : thread'[u] = thread[u]
BY DEF Typed, ThreadsTyped, Does

LEMMA DoesTyped ==
    ASSUME Typed, NEW t \in Threads, NEW work, Does(t, work), WorkTyped(work), work.op \in Ops(t)
    PROVE  ThreadsTyped'
BY ThreadsApart DEF Typed, ThreadsTyped

LEMMA NewProcessTyped ==
    /\ DOMAIN NewProcess = Threads /\ NewProcess["bridge"] = Idle
    /\ NewProcess["ui"].op = "setContext" /\ NewProcess["ui"].file = NoFile
    /\ NewProcess["ui"].todo = initProperties(prefs["moaWallet"])
    /\ NewProcess["ui"].values = Properly /\ WorkTyped(NewProcess["ui"])
<1>1. DOMAIN NewProcess = Threads /\ NewProcess["bridge"] = Idle
  BY DEF NewProcess, Threads
<1>2. /\ NewProcess["ui"].op = "setContext" /\ NewProcess["ui"].psw = NoPsw
      /\ NewProcess["ui"].file = NoFile /\ NewProcess["ui"].values = Properly
      /\ DOMAIN NewProcess["ui"] = WorkFields
      /\ NewProcess["ui"].todo = initProperties(prefs["moaWallet"])
  BY DEF NewProcess, Threads, Idle, WorkFields
<1>3. WorkTyped(NewProcess["ui"])
  BY <1>2, TodoTyped, NoValuesTyped DEF WorkTyped, PropertyOps
<1> QED
  BY <1>1, <1>2, <1>3

LEMMA ProcessTyped == thread \in {NewProcess} => ThreadsTyped
<1>1. "setContext" \in Ops("ui") /\ "idle" \in Ops("bridge")
  BY DEF Ops, UiOps, BridgeOps
<1> QED
  BY <1>1, NewProcessTyped, IdleTyped DEF ThreadsTyped, Threads

LEMMA JobAppended ==
    ASSUME JobsTyped, NEW job, JobOK(job), jobs' = Append(jobs, job)
    PROVE  /\ JobsTyped' /\ Len(jobs') = Len(jobs) + 1 /\ Len(jobs) \in Nat
           /\ jobs' # <<>> /\ jobs' # jobs
<1>1. PICK S : jobs \in Seq(S)
  BY DEF JobsTyped
<1>2. jobs \in Seq(S \cup {job})
  BY <1>1
<1>3. jobs' \in Seq(S \cup {job}) /\ Len(jobs') = Len(jobs) + 1 /\ Len(jobs) \in Nat
  BY <1>2
<1>4. \A i \in DOMAIN jobs' : JobOK(jobs'[i])
  BY <1>2, <1>3 DEF JobsTyped
<1>5. jobs' # <<>> /\ jobs' # jobs
  BY <1>3
<1> QED
  BY <1>3, <1>4, <1>5 DEF JobsTyped

LEMMA JobTaken ==
    ASSUME JobsTyped, jobs # <<>>
    PROVE  /\ JobOK(Head(jobs)) /\ Len(jobs) \in Nat \ {0}
           /\ jobs' = Tail(jobs) => JobsTyped' /\ Len(jobs') = Len(jobs) - 1
<1>1. PICK S : jobs \in Seq(S)
  BY DEF JobsTyped
<1>2. /\ Tail(jobs) \in Seq(S) /\ Head(jobs) = jobs[1] /\ Len(Tail(jobs)) = Len(jobs) - 1
      /\ Len(jobs) \in Nat \ {0} /\ \A i \in 1 .. Len(Tail(jobs)) : Tail(jobs)[i] = jobs[i + 1]
  BY <1>1, HeadAndTail
<1>3. DOMAIN Tail(jobs) = 1 .. Len(jobs) - 1 /\ DOMAIN jobs = 1 .. Len(jobs)
  BY <1>1, <1>2
<1>4. JobOK(Head(jobs))
  BY <1>2, <1>3 DEF JobsTyped
<1>5. \A i \in DOMAIN Tail(jobs) : JobOK(Tail(jobs)[i])
  BY <1>2, <1>3 DEF JobsTyped
<1> QED
  BY <1>2, <1>4, <1>5 DEF JobsTyped

-----------------------------------------------------------------------------
(* What the steps of either thread do                                        *)

SameWork(n, w) == n.op = w.op /\ n.psw = w.psw /\ n.prk = w.prk /\ n.puk = w.puk /\ n.msg = w.msg

LEMMA WorksTyped == Typed => \A t \in Threads : thread[t].op \in Ops(t) /\ WorkTyped(thread[t])
BY DEF Typed, ThreadsTyped

\* A thread with nothing left to read or write has chosen no file.
LEMMA NothingToDo ==
    \A w : WorkTyped(w) /\ w.todo = <<>> => w.file = NoFile
BY DEF WorkTyped

\* generateMACData makes the MAC of the file of the mode, with the values that
\* are to be there.
Target(v) == [File EXCEPT !["Ciphered.Data"] = v["Ciphered.Data"],
                          !["Wallet.PublicKey"] = v["Wallet.PublicKey"],
                          !["Wallet.Addr"] = v["Wallet.Addr"],
                          !["OS.Info"] = v["OS.Info"]]

LEMMA MACMade ==
    ASSUME Typed, NEW t \in Threads, generateMACData(t)
    PROVE  LET w == thread[t]
               n == thread'[t]
           IN  /\ SameWork(n, w) /\ WorkTyped(n) /\ n.todo = w.todo /\ n.file = w.file
               /\ w.op \in Saves /\ w.todo # <<>> /\ Head(w.todo) = "MAC.Data"
               /\ w.values["MAC.Data"] = None
               /\ n.values["MAC.Data"] = MACData(password, Target(w.values))
               /\ \A i \in Items \ {"MAC.Data"} : n.values[i] = w.values[i]
               /\ Does(t, n)
               /\ UNCHANGED <<prefs, isPswInitMode, password, jobs, server, drawn, calls, faults,
                              history>>
<1> DEFINE w == thread[t]
           m == MACData(password, Target(w.values))
           work == [w EXCEPT !.values["MAC.Data"] = m]
<1>1. /\ MustMake(t) /\ Does(t, work)
      /\ UNCHANGED <<prefs, isPswInitMode, password, jobs, server, drawn, calls, faults, history>>
  BY DEF generateMACData, Target
<1>2. WorkTyped(w) /\ "MAC.Data" \in Items
  BY WorksTyped, ItemsNamed DEF ItemNames
<1>3. /\ DOMAIN work = WorkFields /\ SameWork(work, w) /\ work.todo = w.todo /\ work.file = w.file
      /\ DOMAIN work.values = Items /\ work.values["MAC.Data"] = m
      /\ \A i \in Items \ {"MAC.Data"} : work.values[i] = w.values[i]
  <2> HIDE DEF w, m
  <2> QED
    BY <1>2 DEF WorkTyped, WorkFields, SameWork
<1>4. w.op \in Saves /\ w.todo # <<>> /\ Head(w.todo) = "MAC.Data" /\ w.values["MAC.Data"] = None
  BY <1>1 DEF MustMake, Saves
<1>5. WorkTyped(work)
  <2> HIDE DEF work
  <2> QED
    BY <1>2, <1>3, <1>4 DEF WorkTyped, SameWork, Saves, PropertyOps
<1>6. thread'[t] = work
  BY <1>1, ThreadsApart
<1> QED
  BY <1>1, <1>3, <1>4, <1>5, <1>6

LEMMA PrefChosen ==
    ASSUME Typed, NEW t \in Threads, ChoosePref(t)
    PROVE  LET w == thread[t]
               n == thread'[t]
           IN  /\ SameWork(n, w) /\ WorkTyped(n) /\ n.todo = w.todo /\ n.values = w.values
               /\ n.file = getPrefName(isPswInitMode) /\ w.file = NoFile
               /\ w.todo # <<>> /\ w.op # "getTemp"
               /\ w.op \in Saves /\ Head(w.todo) = "MAC.Data" => w.values["MAC.Data"] # None
               /\ Does(t, n)
               /\ UNCHANGED <<prefs, isPswInitMode, password, jobs, server, drawn, calls, faults,
                              history>>
<1> DEFINE w == thread[t]
           work == [w EXCEPT !.file = getPrefName(isPswInitMode)]
<1>1. /\ w.todo # <<>> /\ w.file = NoFile /\ w.op # "getTemp" /\ ~MustMake(t) /\ Does(t, work)
      /\ UNCHANGED <<prefs, isPswInitMode, password, jobs, server, drawn, calls, faults, history>>
  BY DEF ChoosePref, Reads
<1>2. WorkTyped(w) /\ getPrefName(isPswInitMode) \in Files
  BY WorksTyped, FileIs
<1>3. /\ DOMAIN work = WorkFields /\ SameWork(work, w) /\ work.todo = w.todo
      /\ work.values = w.values /\ work.file = getPrefName(isPswInitMode)
  <2> HIDE DEF w
  <2> QED
    BY <1>2 DEF WorkTyped, WorkFields, SameWork
<1>4. WorkTyped(work)
  <2> HIDE DEF work
  <2> QED
    BY <1>1, <1>2, <1>3 DEF WorkTyped, SameWork
<1>5. thread'[t] = work
  BY <1>1, ThreadsApart
<1>6. w.op \in Saves /\ Head(w.todo) = "MAC.Data" => w.values["MAC.Data"] # None
  BY <1>1 DEF MustMake, Saves
<1> QED
  BY <1>1, <1>3, <1>4, <1>5, <1>6

LEMMA PrefWritten ==
    ASSUME Typed, NEW t \in Threads, WritePref(t)
    PROVE  LET w == thread[t]
               n == thread'[t]
           IN  /\ SameWork(n, w) /\ WorkTyped(n) /\ n.todo = Tail(w.todo) /\ n.values = w.values
               /\ n.file = NoFile /\ w.file \in Files /\ w.todo # <<>> /\ w.op # "getTemp"
               /\ Head(w.todo) \in Items
               /\ w.op \in PropertyOps => Head(w.todo) \in ToSet(Properties)
               /\ w.op \in Saves => Head(w.todo) \in ToSet(Required)
               /\ w.op \in SaltOps => Head(w.todo) = "Salt.Value"
               /\ w.op \in CopyOps => Head(w.todo) \in ToSet(Copied)
               /\ w.op \in PropertyOps \cup Saves \cup SaltOps \cup CopyOps
               /\ ToSet(w.todo) = ToSet(n.todo) \cup {Head(w.todo)}
               /\ Does(t, n) /\ PrefsTyped'
               /\ \A f \in Files, i \in Items :
                     prefs'[f][i] = IF f = w.file /\ i = Head(w.todo) THEN w.values[i]
                                    ELSE prefs[f][i]
               /\ UNCHANGED <<isPswInitMode, password, jobs, server, drawn, calls, faults, history>>
<1> DEFINE w == thread[t]
           work == [w EXCEPT !.todo = Tail(@), !.file = NoFile]
           item == Head(w.todo)
<1>1. /\ w.file # NoFile /\ Does(t, work)
      /\ prefs' = [prefs EXCEPT ![w.file][item] = w.values[item]]
      /\ UNCHANGED <<isPswInitMode, password, jobs, server, drawn, calls, faults, history>>
  BY DEF WritePref
<1>2. WorkTyped(w) /\ w.file \in Files /\ w.todo # <<>> /\ w.op # "getTemp" /\ w.todo \in Seq(Items)
  BY <1>1, WorksTyped DEF WorkTyped, TodoOK
<1>3. item \in Items /\ item = w.todo[1] /\ 1 \in DOMAIN w.todo
      /\ ToSet(w.todo) = ToSet(Tail(w.todo)) \cup {item}
  BY <1>2, HeadAndTail, HeadOrTail
<1>4. /\ DOMAIN work = WorkFields /\ SameWork(work, w) /\ work.todo = Tail(w.todo)
      /\ work.values = w.values /\ work.file = NoFile
  <2> HIDE DEF w
  <2> QED
    BY <1>2 DEF WorkTyped, WorkFields, SameWork
<1>5. WorkTyped(work)
  <2>1. TodoOK(work.op, work.todo)
    BY <1>2, <1>4, TailTyped DEF WorkTyped, SameWork
  <2> HIDE DEF work
  <2> QED
    BY <1>2, <1>4, <2>1 DEF WorkTyped, SameWork
<1>6. thread'[t] = work
  BY <1>1, ThreadsApart
<1>7. /\ w.op \in PropertyOps => item \in ToSet(Properties)
      /\ w.op \in Saves => item \in ToSet(Required)
      /\ w.op \in SaltOps => item = "Salt.Value"
      /\ w.op \in CopyOps => item \in ToSet(Copied)
      /\ w.op \in PropertyOps \cup Saves \cup SaltOps \cup CopyOps
  BY <1>2, <1>3 DEF WorkTyped, TodoOK
<1>8. PrefsTyped /\ DOMAIN prefs' = Files
      /\ \A f \in Files : prefs'[f] = IF f = w.file THEN [prefs[f] EXCEPT ![item] = w.values[item]]
                                      ELSE prefs[f]
  BY <1>1 DEF Typed, PrefsTyped
<1>9. \A f \in Files : DOMAIN prefs'[f] = Items
  BY <1>8 DEF PrefsTyped
<1>10. \A f \in Files, i \in Items :
          prefs'[f][i] = IF f = w.file /\ i = item THEN w.values[i] ELSE prefs[f][i]
  BY <1>8 DEF PrefsTyped
<1>11. PrefsTyped'
  BY <1>8, <1>9 DEF PrefsTyped
<1> QED
  BY <1>1, <1>2, <1>3, <1>4, <1>5, <1>6, <1>7, <1>10, <1>11

\* getSalt: the salt of the file, or a new one and something to store.
LEMMA SaltTaken ==
    ASSUME Typed, NEW t \in Threads, NEW work, WorkTyped(work), work.todo = <<>>,
           work.op \in SaltOps, work.op \in Ops(t), getSalt(t, work)
    PROVE  LET n == thread'[t]
           IN  /\ SameWork(n, work) /\ WorkTyped(n) /\ n.file = NoFile
               /\ \A i \in Items \ {"Salt.Value"} : n.values[i] = work.values[i]
               /\ SaltToBe(n, File["Salt.Value"]) = SaltGot /\ SaltGot # None
               /\ File["Salt.Value"] # None => n = work
               /\ Does(t, n) /\ ThreadsTyped' /\ DrawnTyped' /\ drawn'.keys = drawn.keys
<1>1. "Salt.Value" \in Items /\ \A n : NewSalt(n) # None
  BY ItemsNamed DEF ItemNames, NewSalt, None
<1>2. CASE File["Salt.Value"] # None
  <2>1. Does(t, work) /\ drawn' = drawn
    BY <1>2 DEF getSalt
  <2>2. thread'[t] = work /\ ThreadsTyped' /\ DrawnTyped'
    BY <2>1, ThreadsApart, DoesTyped DEF Typed, RestTyped, DrawnTyped
  <2>3. SaltToBe(work, File["Salt.Value"]) = SaltGot /\ work.file = NoFile
    BY <1>2, NothingToDo DEF SaltToBe, SaltGot
  <2> QED
    BY <1>2, <2>1, <2>2, <2>3 DEF SameWork, SaltGot
<1>3. CASE File["Salt.Value"] = None
  <2> DEFINE n == [work EXCEPT !.todo = <<"Salt.Value">>, !.values["Salt.Value"] = SaltGot]
  <2>1. Does(t, n) /\ drawn' = [drawn EXCEPT !.salts = @ + 1]
    BY <1>3 DEF getSalt
  <2>2. /\ DOMAIN n = WorkFields /\ SameWork(n, work) /\ n.file = work.file
        /\ n.todo = <<"Salt.Value">> /\ DOMAIN n.values = Items
        /\ n.values["Salt.Value"] = SaltGot
        /\ \A i \in Items \ {"Salt.Value"} : n.values[i] = work.values[i]
    BY <1>1 DEF WorkTyped, WorkFields, SameWork
  <2>3. WorkTyped(n) /\ n.file = NoFile /\ n.op = work.op
    <3>1. work.file = NoFile /\ work.op \notin PropertyOps
      BY NothingToDo DEF SaltOps, PropertyOps
    <3> HIDE DEF n
    <3> QED
      BY <2>2, <3>1, TodoTyped DEF WorkTyped, SameWork
  <2>4. thread'[t] = n /\ ThreadsTyped'
    <3> HIDE DEF n
    <3> QED
      BY <2>1, <2>3, ThreadsApart, DoesTyped
  <2>5. SaltToBe(n, File["Salt.Value"]) = SaltGot /\ SaltGot # None
    <3>1. n.todo # <<>>
      BY <2>2
    <3> HIDE DEF n
    <3> QED
      BY <1>1, <1>3, <2>2, <2>3, <3>1 DEF SaltToBe, SaltGot
  <2>6. DrawnTyped' /\ drawn'.keys = drawn.keys
    BY <2>1 DEF Typed, RestTyped, DrawnTyped
  <2> HIDE DEF n
  <2> QED
    BY <1>3, <2>1, <2>2, <2>3, <2>4, <2>5, <2>6
<1> QED
  BY <1>2, <1>3

LEMMA CallTyped ==
    ASSUME Typed, Call, NEW kept, Called(kept)
    PROVE  /\ calls' = calls + 1 /\ calls' \in 0 .. MaxCalls
           /\ HistoryTyped' /\ ~Busy("ui")
           /\ history'.interleaved = (history.interleaved \/ Busy("bridge"))
           /\ history'.overlapped = ~Quiet
           /\ history'.failed = (~Quiet /\ history.failed)
           /\ history'.kept = kept
           /\ history'.threw = history.threw /\ history'.foreign = history.foreign
<1>1. HistoryTyped
  BY DEF Typed
<1>2. history' = [history EXCEPT !.overlapped = ~Quiet,
                                 !.failed = ~Quiet /\ @,
                                 !.interleaved = @ \/ Busy("bridge"),
                                 !.kept = kept]
  BY DEF Called
<1>3. /\ history'.interleaved = (history.interleaved \/ Busy("bridge"))
      /\ history'.overlapped = ~Quiet
      /\ history'.failed = (~Quiet /\ history.failed)
      /\ history'.kept = kept
      /\ history'.threw = history.threw /\ history'.foreign = history.foreign
  BY <1>1, <1>2 DEF HistoryTyped, HistoryFields, HistoryFlags
<1>4. Quiet \in BOOLEAN /\ Busy("bridge") \in BOOLEAN
  BY DEF Quiet, Busy
<1>5. HistoryTyped'
  BY <1>1, <1>2, <1>3, <1>4 DEF HistoryTyped, HistoryFields, HistoryFlags
<1>6. calls' = calls + 1 /\ calls < MaxCalls /\ ~Busy("ui")
  BY DEF Call
<1> QED
  BY <1>3, <1>5, <1>6, AndroidWalletAssumption DEF Typed, RestTyped, AndroidWalletAssumption

LEMMA KeyStoreTyped ==
    ASSUME Typed, NEW works \in BOOLEAN, KeyStore(works)
    PROVE  faults' \in 0 .. MaxFaults
BY AndroidWalletAssumption DEF KeyStore, Typed, RestTyped, AndroidWalletAssumption

LEMMA ThrowsTyped ==
    ASSUME Typed, NEW t \in Threads, Throws(t)
    PROVE  /\ ThreadsTyped' /\ HistoryTyped' /\ thread'[t] = Idle /\ history'.threw
           /\ history'.kept = history.kept /\ history'.interleaved = history.interleaved
           /\ history'.foreign = history.foreign /\ history'.overlapped = history.overlapped
           /\ history'.failed = history.failed
<1>1. "idle" \in Ops(t)
  BY DEF Ops, UiOps, BridgeOps
<1>2. ThreadsTyped' /\ thread'[t] = Idle
  BY <1>1, DoesTyped, IdleTyped, ThreadsApart DEF Throws
<1>3. HistoryTyped' /\ history'.threw
      /\ history'.kept = history.kept /\ history'.interleaved = history.interleaved
      /\ history'.foreign = history.foreign /\ history'.overlapped = history.overlapped
      /\ history'.failed = history.failed
  BY DEF Throws, Typed, HistoryTyped, HistoryFields, HistoryFlags
<1> QED
  BY <1>2, <1>3

\* A thread goes on with what it has, under another name.
LEMMA Renamed ==
    ASSUME NEW w, WorkTyped(w), w.todo = <<>>, NEW op, op \notin PropertyOps
    PROVE  LET n == [w EXCEPT !.op = op]
           IN  /\ WorkTyped(n) /\ n.op = op /\ n.todo = <<>> /\ n.file = NoFile
               /\ n.psw = w.psw /\ n.prk = w.prk /\ n.puk = w.puk /\ n.msg = w.msg
               /\ n.values = w.values
<1> DEFINE n == [w EXCEPT !.op = op]
<1>1. /\ DOMAIN n = WorkFields /\ n.op = op /\ n.todo = <<>> /\ n.file = NoFile
      /\ n.psw = w.psw /\ n.prk = w.prk /\ n.puk = w.puk /\ n.msg = w.msg /\ n.values = w.values
  BY NothingToDo DEF WorkTyped, WorkFields
<1>2. WorkTyped(n)
  <2> HIDE DEF n
  <2> QED
    BY <1>1, TodoTyped DEF WorkTyped
<1> QED
  BY <1>1, <1>2

\* save on either thread: the values of the wallet, or an exception.
LEMMA PairSaved ==
    ASSUME Typed, NEW t \in Threads, savePair(t)
    PROVE  LET w == thread[t]
               n == thread'[t]
               v == WalletValues(password, SaltGot, w.prk, w.puk)
           IN  /\ At(t, "save") /\ ThreadsTyped' /\ HistoryTyped' /\ DrawnTyped'
               /\ drawn'.keys = drawn.keys /\ Does(t, n)
               /\ UNCHANGED <<prefs, isPswInitMode, password, jobs, server, calls, faults>>
               /\ \/ /\ HasProperties(File) /\ history' = history
                     /\ n.op = "keyStore" /\ n.file = NoFile
                     /\ n.psw = w.psw /\ n.prk = w.prk /\ n.puk = w.puk
                     /\ \A i \in Items \ {"Salt.Value"} : n.values[i] = v[i]
                     /\ SaltToBe(n, File["Salt.Value"]) = SaltGot /\ SaltGot # None
                  \/ n = Idle /\ Throws(t)
<1> DEFINE w == thread[t]
           v == WalletValues(password, SaltGot, w.prk, w.puk)
           work == [w EXCEPT !.op = "keyStore", !.values = v]
<1>1. /\ At(t, "save") /\ WorkTyped(w) /\ w.op \in Ops(t)
      /\ UNCHANGED <<prefs, isPswInitMode, password, jobs, server, calls, faults>>
  BY WorksTyped DEF savePair
<1>2. CASE HasProperties(File)
  <2>1. getSalt(t, work) /\ history' = history
    BY <1>2 DEF savePair
  <2>2. /\ DOMAIN work = WorkFields /\ work.op = "keyStore" /\ work.psw = w.psw
        /\ work.prk = w.prk /\ work.puk = w.puk /\ work.todo = <<>> /\ work.file = NoFile
        /\ work.values = v
    BY <1>1, NothingToDo DEF WorkTyped, WorkFields, At
  <2>3. WorkTyped(work) /\ work.op \in SaltOps /\ work.op \in Ops(t)
    <3>1. DOMAIN v = Items
      BY WalletValuesTyped
    <3> HIDE DEF work, v
    <3> QED
      BY <1>1, <2>2, <3>1, TodoTyped DEF WorkTyped, SaltOps, PropertyOps, Ops, UiOps, BridgeOps
  <2>4. HistoryTyped'
    BY <2>1 DEF Typed, HistoryTyped
  <2> HIDE DEF work
  <2>5. /\ SameWork(thread'[t], work) /\ thread'[t].file = NoFile
        /\ \A i \in Items \ {"Salt.Value"} : thread'[t].values[i] = work.values[i]
        /\ SaltToBe(thread'[t], File["Salt.Value"]) = SaltGot /\ SaltGot # None
        /\ Does(t, thread'[t]) /\ ThreadsTyped' /\ DrawnTyped' /\ drawn'.keys = drawn.keys
    BY <2>1, <2>2, <2>3, SaltTaken
  <2> QED
    BY <1>1, <1>2, <2>1, <2>2, <2>4, <2>5 DEF SameWork
<1>3. CASE ~HasProperties(File)
  <2>1. Throws(t) /\ drawn' = drawn
    BY <1>3 DEF savePair
  <2>2. Does(t, thread'[t])
    BY <2>1, ThrowsTyped DEF Throws
  <2> QED
    BY <1>1, <2>1, <2>2, ThrowsTyped DEF Typed, RestTyped, DrawnTyped
<1> QED
  BY <1>2, <1>3

\* setWalletPref: all there is to write, or nothing, or an exception.
LEMMA WalletPrefSet ==
    ASSUME Typed, NEW t \in Threads, setWalletPref(t)
    PROVE  LET w == thread[t]
               n == thread'[t]
           IN  /\ At(t, "keyStore") /\ ThreadsTyped' /\ HistoryTyped' /\ faults' \in 0 .. MaxFaults
               /\ Does(t, n)
               /\ UNCHANGED <<prefs, isPswInitMode, password, jobs, server, drawn, calls>>
               /\ history'.kept = history.kept /\ history'.interleaved = history.interleaved
               /\ history'.foreign = history.foreign /\ history'.overlapped = history.overlapped
               /\ \/ /\ n.op = "saved" /\ n.file = NoFile /\ n.values = w.values
                     /\ n.psw = w.psw /\ n.prk = w.prk /\ n.puk = w.puk
                     /\ \/ n.todo = Required /\ history'.failed = history.failed
                        \/ n.todo = <<>> /\ history'.failed
                     /\ history'.threw = history.threw
                  \/ n = Idle /\ history'.threw
<1> DEFINE w == thread[t]
<1>1. /\ At(t, "keyStore") /\ WorkTyped(w)
      /\ UNCHANGED <<prefs, isPswInitMode, password, jobs, server, drawn, calls>>
  BY WorksTyped DEF setWalletPref
<1>2. CASE HasProperties(File)
  <2>1. PICK works \in BOOLEAN :
           /\ KeyStore(works)
           /\ Does(t, [w EXCEPT !.op = "saved", !.todo = IF works THEN Required ELSE <<>>])
           /\ history' = [history EXCEPT !.failed = @ \/ ~works]
    BY <1>2 DEF setWalletPref
  <2> DEFINE todo == IF works THEN Required ELSE <<>>
             work == [w EXCEPT !.op = "saved", !.todo = todo]
  <2>2. /\ DOMAIN work = WorkFields /\ work.op = "saved" /\ work.psw = w.psw
        /\ work.prk = w.prk /\ work.puk = w.puk /\ work.file = NoFile
        /\ work.values = w.values /\ work.todo = todo
    <3> HIDE DEF todo
    <3> QED
      BY <1>1, NothingToDo DEF WorkTyped, WorkFields, At
  <2>3. Does(t, work)
    BY <2>1
  <2>4. WorkTyped(work) /\ work.op \in Ops(t)
    <3> HIDE DEF work
    <3> QED
      BY <1>1, <2>2, TodoTyped DEF WorkTyped, Saves, PropertyOps, Ops, UiOps, BridgeOps
  <2>5. /\ HistoryTyped' /\ history'.failed = (history.failed \/ ~works)
        /\ history'.kept = history.kept /\ history'.interleaved = history.interleaved
        /\ history'.foreign = history.foreign /\ history'.overlapped = history.overlapped
        /\ history'.threw = history.threw
    BY <2>1 DEF Typed, HistoryTyped, HistoryFields, HistoryFlags
  <2> HIDE DEF work
  <2>6. ThreadsTyped' /\ thread'[t] = work
    BY <2>3, <2>4, DoesTyped, ThreadsApart
  <2>7. \/ work.todo = Required /\ history'.failed = history.failed
        \/ work.todo = <<>> /\ history'.failed
    <3>1. CASE works
      BY <2>2, <2>5, <3>1 DEF Typed, HistoryTyped, HistoryFlags
    <3>2. CASE ~works
      BY <2>2, <2>5, <3>2
    <3> QED
      BY <3>1, <3>2
  <2>8. faults' \in 0 .. MaxFaults
    BY <2>1, KeyStoreTyped
  <2> QED
    BY <1>1, <2>2, <2>3, <2>5, <2>6, <2>7, <2>8
<1>3. CASE ~HasProperties(File)
  <2>1. Throws(t) /\ faults' = faults
    BY <1>3 DEF setWalletPref
  <2>2. Does(t, thread'[t])
    BY <2>1, ThrowsTyped DEF Throws
  <2> QED
    BY <1>1, <2>1, <2>2, ThrowsTyped DEF Typed, RestTyped
<1> QED
  BY <1>2, <1>3

\* generateRestoreDataFormat: the backup of what was saved.
LEMMA DataFormatted ==
    ASSUME Typed, NEW t \in Threads, generateRestoreDataFormat(t)
    PROVE  LET w == thread[t]
               n == thread'[t]
           IN  /\ At(t, "saved") /\ ThreadsTyped' /\ DrawnTyped' /\ drawn'.keys = drawn.keys
               /\ Does(t, n)
               /\ UNCHANGED <<prefs, isPswInitMode, password, jobs, server, calls, faults, history>>
               /\ n.op = "formatted" /\ n.file = NoFile
               /\ n.values["MAC.Data"] = w.values["MAC.Data"]
               /\ n.psw = w.psw /\ n.prk = w.prk /\ n.puk = w.puk
               /\ n.msg = RestoreData(password, SaltGot, w.prk, w.puk)
               /\ File["Salt.Value"] # None => n.todo = <<>> /\ SaltGot = File["Salt.Value"]
<1> DEFINE w == thread[t]
           msg == RestoreData(password, SaltGot, w.prk, w.puk)
           work == [w EXCEPT !.op = "formatted", !.msg = msg]
<1>1. /\ At(t, "saved") /\ WorkTyped(w) /\ getSalt(t, work) /\ w.op \in Ops(t)
      /\ UNCHANGED <<prefs, isPswInitMode, password, jobs, server, calls, faults, history>>
  BY WorksTyped DEF generateRestoreDataFormat
<1>2. /\ DOMAIN work = WorkFields /\ work.op = "formatted" /\ work.psw = w.psw
      /\ work.prk = w.prk /\ work.puk = w.puk /\ work.file = NoFile /\ work.todo = <<>>
      /\ work.values = w.values /\ work.msg = msg
  <2> HIDE DEF msg
  <2> QED
    BY <1>1, NothingToDo DEF WorkTyped, WorkFields, At
<1>3. WorkTyped(work) /\ work.op \in SaltOps /\ work.op \in Ops(t)
  <2> HIDE DEF work
  <2> QED
    BY <1>1, <1>2, TodoTyped DEF WorkTyped, SaltOps, PropertyOps, Ops, UiOps, BridgeOps
<1>4. "MAC.Data" \in Items \ {"Salt.Value"}
  BY ItemsNamed DEF ItemNames
<1>5. File["Salt.Value"] # None => SaltGot = File["Salt.Value"]
  BY DEF SaltGot
<1> HIDE DEF work, msg
<1>6. /\ SameWork(thread'[t], work) /\ thread'[t].file = NoFile
      /\ \A i \in Items \ {"Salt.Value"} : thread'[t].values[i] = work.values[i]
      /\ File["Salt.Value"] # None => thread'[t] = work
      /\ Does(t, thread'[t]) /\ ThreadsTyped' /\ DrawnTyped' /\ drawn'.keys = drawn.keys
  BY <1>1, <1>2, <1>3, SaltTaken
<1> QED
  BY <1>1, <1>2, <1>4, <1>5, <1>6 DEF SameWork, msg

-----------------------------------------------------------------------------
(* Every step leaves the state typed                                         *)

LEMMA TypedByThread ==
    ASSUME Typed, NEW t \in Threads,
           \/ generateMACData(t) \/ ChoosePref(t) \/ WritePref(t)
           \/ savePair(t) \/ setWalletPref(t) \/ generateRestoreDataFormat(t)
    PROVE  Typed'
<1>1. CASE generateMACData(t) \/ ChoosePref(t) \/ WritePref(t)
  <2>1. /\ Does(t, thread'[t]) /\ WorkTyped(thread'[t]) /\ thread'[t].op = thread[t].op
        /\ UNCHANGED <<isPswInitMode, password, jobs, server, drawn, calls, faults, history>>
        /\ PrefsTyped'
    BY <1>1, MACMade, PrefChosen, PrefWritten DEF SameWork, Typed, PrefsTyped
  <2>2. ThreadsTyped'
    BY <2>1, WorksTyped, DoesTyped
  <2> QED
    BY <2>1, <2>2 DEF Typed, JobsTyped, HistoryTyped, RestTyped, DrawnTyped
<1>2. CASE savePair(t)
  BY <1>2, PairSaved DEF Typed, PrefsTyped, JobsTyped, RestTyped
<1>3. CASE setWalletPref(t)
  BY <1>3, WalletPrefSet DEF Typed, PrefsTyped, JobsTyped, RestTyped, DrawnTyped
<1>4. CASE generateRestoreDataFormat(t)
  BY <1>4, DataFormatted DEF Typed, PrefsTyped, JobsTyped, HistoryTyped, RestTyped
<1> QED
  BY <1>1, <1>2, <1>3, <1>4

\* The calls that post to the WebView or change the files and the mode.
LEMMA SmallCallsTyped ==
    ASSUME Typed,
           \/ \E psw \in Psws : create(psw) \/ generateSignedTransaction(psw)
           \/ removeWallet \/ \E mode \in BOOLEAN : setPswInitMode(mode)
    PROVE  Typed'
<1>1. CASE \E psw \in Psws : create(psw)
  <2>1. PICK psw \in Psws : create(psw)
    BY <1>1
  <2>2. JobsTyped' /\ Len(jobs') = Len(jobs) + 1 /\ Len(jobs) \in Nat
    BY <2>1, JobAppended DEF create, JobOK, Typed
  <2>3. Call /\ Called({})
        /\ UNCHANGED <<prefs, thread, isPswInitMode, drawn, faults>> /\ password' = psw
    BY <2>1 DEF create
  <2> QED
    BY <2>2, <2>3, CallTyped DEF Typed, PrefsTyped, ThreadsTyped, RestTyped, DrawnTyped
<1>2. CASE \E psw \in Psws : generateSignedTransaction(psw)
  <2>1. PICK psw \in Psws : generateSignedTransaction(psw)
    BY <1>2
  <2>2. /\ Call /\ Called({}) /\ UNCHANGED <<prefs, thread, isPswInitMode, drawn, faults>>
        /\ password' = NoPsw \/ password' = password
    BY <2>1 DEF generateSignedTransaction
  <2>3. JobsTyped' /\ Len(jobs) \in Nat /\ Len(jobs') \in {Len(jobs), Len(jobs) + 1}
    <3>1. CASE jobs' = jobs
      <4>1. PICK S : jobs \in Seq(S)
        BY DEF Typed, JobsTyped
      <4>2. Len(jobs) \in Nat
        BY <4>1
      <4> QED
        BY <3>1, <4>2 DEF Typed, JobsTyped
    <3>2. CASE jobs' # jobs
      <4>1. PICK prk : jobs' = Append(jobs, [job |-> "doSign", prk |-> prk])
        BY <2>1, <3>2 DEF generateSignedTransaction
      <4> QED
        BY <4>1, JobAppended DEF JobOK, Typed
    <3> QED
      BY <3>1, <3>2
  <2> QED
    BY <2>2, <2>3, CallTyped DEF Typed, PrefsTyped, ThreadsTyped, RestTyped, DrawnTyped
<1>3. CASE removeWallet
  <2>1. /\ Call /\ Called({}) /\ UNCHANGED <<thread, jobs, isPswInitMode, password, drawn, faults>>
        /\ PrefsTyped'
    BY <1>3, FileIs DEF removeWallet, Typed, PrefsTyped
  <2> QED
    BY <2>1, CallTyped DEF Typed, JobsTyped, ThreadsTyped, RestTyped, DrawnTyped
<1>4. CASE \E mode \in BOOLEAN : setPswInitMode(mode)
  <2>1. /\ Call /\ Called({}) /\ UNCHANGED <<prefs, thread, jobs, password, drawn, faults>>
        /\ isPswInitMode' \in BOOLEAN
    BY <1>4 DEF setPswInitMode
  <2> QED
    BY <2>1, CallTyped DEF Typed, JobsTyped, PrefsTyped, ThreadsTyped, RestTyped, DrawnTyped
<1> QED
  BY <1>1, <1>2, <1>3, <1>4

WorkCalls == \/ \E psw \in Psws : restoreWallet(psw) \/ generateBackUpRestoreDataFormat(psw)
             \/ removeTempWallet \/ SaltAsked \/ updateWallet

\* What the calls that start work of the thread of the user interface start.
LEMMA WorkStarted ==
    ASSUME Typed, WorkCalls
    PROVE  LET n == thread'["ui"]
           IN  /\ Call /\ \E kept : Called(kept) /\ (kept = {} \/ updateWallet)
               /\ WorkTyped(n) /\ n.file = NoFile /\ n.op # "setContext" /\ n.op \notin WithPassword
               /\ n.values["MAC.Data"] = None
               /\ ThreadsTyped' /\ DrawnTyped' /\ drawn'.keys = drawn.keys /\ PrefsTyped'
               /\ Does("ui", n) /\ isPswInitMode' \in BOOLEAN
               /\ UNCHANGED <<password, jobs, server, faults>>
               /\ prefs' # prefs => removeTempWallet
               /\ \/ /\ n.op = "restore" /\ server # None /\ n.msg = server /\ n.msg.psw = n.psw
                     /\ n.todo # <<>> /\ n.values["Salt.Value"] = n.msg.salt
                     /\ UNCHANGED isPswInitMode
                  \/ n.op = "init" /\ server # None /\ n.msg = server
                  \/ n.op \in {"removeTemp", "getSalt"}
                  \/ n.op = "getTemp" /\ n.todo = Copied /\ isPswInitMode' /\ updateWallet
<1> USE DEF Threads
<1>0. {"restore", "init", "removeTemp", "getSalt", "getTemp"} \subseteq Ops("ui") \ {"setContext"}
      /\ {"restore", "init", "removeTemp", "getSalt", "getTemp"} \cap WithPassword = {}
      /\ "MAC.Data" \in Items \ {"Salt.Value"} /\ "Salt.Value" \in Items
  BY ItemsNamed DEF Ops, UiOps, WithPassword, ItemNames
<1>1. CASE \E psw \in Psws : restoreWallet(psw)
  <2>1. PICK psw \in Psws : restoreWallet(psw)
    BY <1>1
  <2> DEFINE n == [Idle EXCEPT !.op = "restore", !.psw = psw, !.msg = server,
                     !.todo = <<"Salt.Value">>, !.values["Salt.Value"] = server.salt]
  <2>2. /\ Call /\ Called({}) /\ Does("ui", n) /\ server # None /\ server.psw = psw
        /\ UNCHANGED <<prefs, isPswInitMode, password, jobs, server, drawn, faults>>
    BY <2>1 DEF restoreWallet
  <2>3. /\ DOMAIN n = WorkFields /\ n.op = "restore" /\ n.psw = psw /\ n.msg = server
        /\ n.todo = <<"Salt.Value">> /\ n.file = NoFile /\ DOMAIN n.values = Items
        /\ n.values["Salt.Value"] = server.salt /\ n.values["MAC.Data"] = None
    BY <1>0, NoValuesTyped DEF Idle, WorkFields
  <2>4. n.todo # <<>>
    BY <2>3
  <2>5. WorkTyped(n)
    <3> HIDE DEF n
    <3> QED
      BY <2>3, TodoTyped DEF WorkTyped, SaltOps, PropertyOps
  <2> HIDE DEF n
  <2>6. thread'["ui"] = n /\ ThreadsTyped'
    BY <1>0, <2>2, <2>3, <2>5, ThreadsApart, DoesTyped
  <2> QED
    BY <1>0, <2>2, <2>3, <2>4, <2>5, <2>6 DEF Typed, PrefsTyped, RestTyped, DrawnTyped
<1>2. CASE \E psw \in Psws : generateBackUpRestoreDataFormat(psw)
  <2>1. PICK psw \in Psws : generateBackUpRestoreDataFormat(psw)
    BY <1>2
  <2> DEFINE n == [Idle EXCEPT !.op = "init", !.psw = psw, !.msg = server,
                     !.todo = initProperties(prefs["tempWallet"]), !.values = Properly]
  <2>2. /\ Call /\ Called({}) /\ Does("ui", n) /\ server # None /\ isPswInitMode' = TRUE
        /\ UNCHANGED <<prefs, password, jobs, server, drawn, faults>>
    BY <2>1 DEF generateBackUpRestoreDataFormat
  <2>3. /\ DOMAIN n = WorkFields /\ n.op = "init" /\ n.psw = psw /\ n.msg = server
        /\ n.todo = initProperties(prefs["tempWallet"]) /\ n.file = NoFile /\ n.values = Properly
    BY DEF Idle, WorkFields
  <2>4. WorkTyped(n)
    <3> HIDE DEF n
    <3> QED
      BY <2>3, TodoTyped, NoValuesTyped DEF WorkTyped, PropertyOps
  <2> HIDE DEF n
  <2>5. thread'["ui"] = n /\ ThreadsTyped'
    BY <1>0, <2>2, <2>3, <2>4, ThreadsApart, DoesTyped
  <2> QED
    BY <1>0, <2>2, <2>3, <2>4, <2>5, NoValuesTyped DEF Typed, PrefsTyped, RestTyped, DrawnTyped
<1>3. CASE removeTempWallet
  <2> DEFINE n == [Idle EXCEPT !.op = "removeTemp"]
  <2>1. /\ Call /\ Called({}) /\ Does("ui", n) /\ prefs' = [prefs EXCEPT !["tempWallet"] = NoValues]
        /\ UNCHANGED <<isPswInitMode, password, jobs, server, drawn, faults>>
    BY <1>3 DEF removeTempWallet
  <2>2. WorkTyped(n) /\ n.op = "removeTemp" /\ n.file = NoFile /\ n.values = NoValues
    BY IdleTyped, Renamed DEF PropertyOps
  <2>3. PrefsTyped'
    BY <2>1, NoValuesTyped DEF Typed, PrefsTyped
  <2> HIDE DEF n
  <2>4. thread'["ui"] = n /\ ThreadsTyped'
    BY <1>0, <2>1, <2>2, ThreadsApart, DoesTyped
  <2> QED
    BY <1>0, <1>3, <2>1, <2>2, <2>3, <2>4, NoValuesTyped DEF Typed, RestTyped, DrawnTyped
<1>4. CASE SaltAsked
  <2> DEFINE n == [Idle EXCEPT !.op = "getSalt"]
  <2>1. /\ Call /\ Called({}) /\ getSalt("ui", n)
        /\ UNCHANGED <<prefs, isPswInitMode, password, jobs, server, faults>>
    BY <1>4 DEF SaltAsked
  <2>2. WorkTyped(n) /\ n.op = "getSalt" /\ n.todo = <<>> /\ n.values = NoValues /\ n.op \in SaltOps
    BY IdleTyped, Renamed DEF PropertyOps, SaltOps
  <2> HIDE DEF n
  <2>3. /\ SameWork(thread'["ui"], n) /\ WorkTyped(thread'["ui"]) /\ thread'["ui"].file = NoFile
        /\ thread'["ui"].values["MAC.Data"] = n.values["MAC.Data"]
        /\ Does("ui", thread'["ui"]) /\ ThreadsTyped' /\ DrawnTyped' /\ drawn'.keys = drawn.keys
    BY <1>0, <2>1, <2>2, SaltTaken
  <2> QED
    BY <1>0, <2>1, <2>2, <2>3, NoValuesTyped DEF Typed, PrefsTyped, RestTyped, SameWork
<1>5. CASE updateWallet
  <2> DEFINE n == [Idle EXCEPT !.op = "getTemp", !.todo = Copied]
  <2>1. /\ Call /\ Called(TakenInHand) /\ Does("ui", n) /\ isPswInitMode' = TRUE
        /\ UNCHANGED <<prefs, password, jobs, server, drawn, faults>>
    BY <1>5 DEF updateWallet
  <2>2. /\ DOMAIN n = WorkFields /\ n.op = "getTemp" /\ n.psw = NoPsw /\ n.todo = Copied
        /\ n.file = NoFile /\ n.values = NoValues
    BY DEF Idle, WorkFields
  <2>3. WorkTyped(n)
    <3> HIDE DEF n
    <3> QED
      BY <2>2, TodoTyped, NoValuesTyped DEF WorkTyped, CopyOps, PropertyOps
  <2> HIDE DEF n
  <2>4. thread'["ui"] = n /\ ThreadsTyped'
    BY <1>0, <2>1, <2>2, <2>3, ThreadsApart, DoesTyped
  <2> QED
    BY <1>0, <1>5, <2>1, <2>2, <2>3, <2>4, NoValuesTyped DEF Typed, PrefsTyped, RestTyped, DrawnTyped
<1> QED
  BY <1>1, <1>2, <1>3, <1>4, <1>5 DEF WorkCalls

LEMMA WorkCallsTyped ==
    ASSUME Typed, WorkCalls
    PROVE  Typed'
<1>1. PICK kept : Call /\ Called(kept)
  BY WorkStarted
<1>2. /\ ThreadsTyped' /\ DrawnTyped' /\ drawn'.keys = drawn.keys /\ PrefsTyped'
      /\ isPswInitMode' \in BOOLEAN /\ UNCHANGED <<password, jobs, server, faults>>
  BY WorkStarted
<1>3. calls' = calls + 1 /\ calls' \in 0 .. MaxCalls /\ HistoryTyped'
  BY <1>1, CallTyped
<1>4. Len(jobs) \in Nat
  <2>1. PICK S : jobs \in Seq(S)
    BY DEF Typed, JobsTyped
  <2> QED
    BY <2>1
<1> QED
  BY <1>2, <1>3, <1>4 DEF Typed, JobsTyped, RestTyped, DrawnTyped

UiSteps ==
    \/ Returned \/ TempWalletRemoved \/ onLibRestoreCompleted
    \/ SetPassword \/ \E keyStoreWorks \in BOOLEAN : save(keyStoreWorks)
    \/ OwnFile \/ DecryptBackUp \/ SaveSalt \/ EncryptBackUp \/ BackUpGenerated \/ BackUpReturned
    \/ GetPref \/ GotTempWallet \/ WalletUpdated
BridgeSteps == doGenerate \/ onLibWalletCreated \/ onSuccessKeyPair \/ onSuccessSign

\* save of a restore: the values of the backup are to be written.
LEMMA SaveTaken ==
    ASSUME Typed, NEW works \in BOOLEAN, save(works)
    PROVE  LET w == thread["ui"]
               n == thread'["ui"]
           IN  /\ At("ui", "restoring") /\ faults' \in 0 .. MaxFaults
               /\ WorkTyped(n) /\ Does("ui", n) /\ n.op \in Ops("ui")
               /\ UNCHANGED <<prefs, isPswInitMode, jobs, server, drawn, calls, history>>
               /\ \/ n = Idle /\ password' = NoPsw
                  \/ /\ n.op = "restored" /\ password' = password /\ n.todo = Required
                     /\ n.file = NoFile /\ n.values["MAC.Data"] = None
                     /\ n.values["Ciphered.Data"] = w.msg.prk
                     /\ LET puk == Decrypt(w.psw, File["Salt.Value"], w.msg.puk)
                        IN  /\ n.values["Wallet.PublicKey"] = puk
                            /\ n.values["Wallet.Addr"] = generateAddress(puk)
<1> DEFINE w == thread["ui"]
           puk == Decrypt(w.psw, File["Salt.Value"], w.msg.puk)
           values == [WalletValues(w.psw, None, None, puk) EXCEPT !["Ciphered.Data"] = w.msg.prk]
           work == [w EXCEPT !.op = "restored", !.todo = Required, !.values = values]
<1>1. /\ At("ui", "restoring") /\ KeyStore(works) /\ "ui" \in Threads /\ WorkTyped(w)
      /\ {"restored", "idle"} \subseteq Ops("ui")
      /\ UNCHANGED <<prefs, isPswInitMode, jobs, server, drawn, calls, history>>
  BY WorksTyped DEF save, Threads, Ops, UiOps
<1>2. faults' \in 0 .. MaxFaults
  BY <1>1, KeyStoreTyped
<1>3. CASE works
  <2>1. Does("ui", work) /\ password' = password
    BY <1>3 DEF save
  <2>2. /\ DOMAIN values = Items /\ values["MAC.Data"] = None /\ values["Ciphered.Data"] = w.msg.prk
        /\ values["Wallet.PublicKey"] = puk /\ values["Wallet.Addr"] = generateAddress(puk)
    <3>1. {"MAC.Data", "Ciphered.Data", "Wallet.PublicKey", "Wallet.Addr"} \subseteq Items
      BY ItemsNamed DEF ItemNames
    <3> HIDE DEF puk
    <3> QED
      BY <3>1, WalletValuesTyped
  <2> HIDE DEF values
  <2>3. /\ DOMAIN work = WorkFields /\ work.op = "restored" /\ work.psw = w.psw
        /\ work.todo = Required /\ work.file = NoFile /\ work.values = values
    BY <1>1, NothingToDo DEF WorkTyped, WorkFields, At
  <2>4. WorkTyped(work)
    <3> HIDE DEF work
    <3> QED
      BY <1>1, <2>2, <2>3, TodoTyped DEF WorkTyped, Saves, PropertyOps
  <2> HIDE DEF work
  <2>5. thread'["ui"] = work
    BY <1>1, <2>1, ThreadsApart
  <2> QED
    BY <1>1, <1>2, <2>1, <2>2, <2>3, <2>4, <2>5
<1>4. CASE ~works
  <2>1. Does("ui", Idle) /\ password' = NoPsw
    BY <1>4 DEF save
  <2>2. thread'["ui"] = Idle
    BY <1>1, <2>1, ThreadsApart
  <2> QED
    BY <1>1, <1>2, <2>1, <2>2, IdleTyped
<1> QED
  BY <1>3, <1>4

LEMMA BackUpDecrypted ==
    ASSUME Typed, DecryptBackUp
    PROVE  LET w == thread["ui"]
               n == thread'["ui"]
           IN  /\ At("ui", "decrypt") /\ ThreadsTyped' /\ DrawnTyped' /\ drawn'.keys = drawn.keys
               /\ Does("ui", n)
               /\ UNCHANGED <<prefs, isPswInitMode, password, jobs, server, calls, faults>>
               /\ n.op = "decrypted" /\ n.file = NoFile
               /\ n.values["MAC.Data"] = w.values["MAC.Data"]
               /\ n.prk = Decrypt(w.msg.psw, SaltGot, w.msg.prk)
               /\ n.puk = Decrypt(w.msg.psw, SaltGot, w.msg.puk)
               /\ HistoryTyped' /\ history'.foreign = (history.foreign \/ SaltGot # w.msg.salt)
               /\ history'.kept = history.kept /\ history'.interleaved = history.interleaved
               /\ history'.overlapped = history.overlapped /\ history'.threw = history.threw
<1> DEFINE w == thread["ui"]
           prk == Decrypt(w.msg.psw, SaltGot, w.msg.prk)
           puk == Decrypt(w.msg.psw, SaltGot, w.msg.puk)
           work == [w EXCEPT !.op = "decrypted", !.prk = prk, !.puk = puk]
<1>1. /\ At("ui", "decrypt") /\ getSalt("ui", work) /\ "ui" \in Threads /\ WorkTyped(w)
      /\ history' = [history EXCEPT !.foreign = @ \/ SaltGot # w.msg.salt]
      /\ UNCHANGED <<prefs, isPswInitMode, password, jobs, server, calls, faults>>
  BY WorksTyped DEF DecryptBackUp, Threads
<1>2. /\ DOMAIN work = WorkFields /\ work.op = "decrypted" /\ work.psw = w.psw /\ work.prk = prk
      /\ work.puk = puk /\ work.todo = <<>> /\ work.file = NoFile /\ work.values = w.values
  <2> HIDE DEF prk, puk
  <2> QED
    BY <1>1, NothingToDo DEF WorkTyped, WorkFields, At
<1>3. WorkTyped(work) /\ work.op \in SaltOps /\ work.op \in Ops("ui")
  <2> HIDE DEF work
  <2> QED
    BY <1>1, <1>2, TodoTyped DEF WorkTyped, SaltOps, PropertyOps, Ops, UiOps
<1>4. "MAC.Data" \in Items \ {"Salt.Value"}
  BY ItemsNamed DEF ItemNames
<1> HIDE DEF work, prk, puk
<1>5. /\ SameWork(thread'["ui"], work) /\ thread'["ui"].file = NoFile
      /\ \A i \in Items \ {"Salt.Value"} : thread'["ui"].values[i] = work.values[i]
      /\ Does("ui", thread'["ui"]) /\ ThreadsTyped' /\ DrawnTyped' /\ drawn'.keys = drawn.keys
  BY <1>1, <1>2, <1>3, SaltTaken
<1>6. /\ HistoryTyped' /\ history'.foreign = (history.foreign \/ SaltGot # w.msg.salt)
      /\ history'.kept = history.kept /\ history'.interleaved = history.interleaved
      /\ history'.overlapped = history.overlapped /\ history'.threw = history.threw
  BY <1>1 DEF Typed, HistoryTyped, HistoryFields, HistoryFlags
<1> QED
  BY <1>1, <1>2, <1>4, <1>5, <1>6 DEF SameWork, prk, puk

LEMMA SaltSaved ==
    ASSUME Typed, SaveSalt
    PROVE  LET w == thread["ui"]
               n == thread'["ui"]
           IN  /\ At("ui", "decrypted") /\ isPswInitMode' \in BOOLEAN /\ Does("ui", n)
               /\ WorkTyped(n) /\ n.op \in Ops("ui") /\ HistoryTyped'
               /\ UNCHANGED <<prefs, password, jobs, server, drawn, calls, faults>>
               /\ \/ /\ n.op = "encrypt" /\ n.file = NoFile /\ history' = history
                     /\ n.values["MAC.Data"] = w.values["MAC.Data"]
                     /\ n.prk = w.prk /\ n.puk = w.puk
                  \/ Throws("ui") /\ n = Idle /\ UNCHANGED isPswInitMode
<1> DEFINE w == thread["ui"]
           work == [w EXCEPT !.op = "encrypt", !.todo = <<"Salt.Value">>,
                             !.values["Salt.Value"] = w.msg.salt]
<1>1. /\ At("ui", "decrypted") /\ "ui" \in Threads /\ WorkTyped(w)
      /\ {"encrypt", "idle"} \subseteq Ops("ui")
      /\ UNCHANGED <<prefs, password, jobs, server, drawn, calls, faults>>
  BY WorksTyped DEF SaveSalt, Threads, Ops, UiOps
<1>2. CASE HasProperties(File)
  <2>1. Does("ui", work) /\ isPswInitMode' = TRUE /\ history' = history
    BY <1>2 DEF SaveSalt
  <2>2. {"Salt.Value", "MAC.Data"} \subseteq Items
    BY ItemsNamed DEF ItemNames
  <2>3. /\ DOMAIN work = WorkFields /\ work.op = "encrypt" /\ work.psw = w.psw /\ work.prk = w.prk
        /\ work.puk = w.puk /\ work.todo = <<"Salt.Value">> /\ work.file = NoFile
        /\ DOMAIN work.values = Items /\ work.values["MAC.Data"] = w.values["MAC.Data"]
    BY <1>1, <2>2, NothingToDo DEF WorkTyped, WorkFields, At
  <2>4. WorkTyped(work)
    <3> HIDE DEF work
    <3> QED
      BY <1>1, <2>3, TodoTyped DEF WorkTyped, SaltOps, PropertyOps
  <2> HIDE DEF work
  <2>5. thread'["ui"] = work
    BY <1>1, <2>1, ThreadsApart
  <2> QED
    BY <1>1, <2>1, <2>3, <2>4, <2>5 DEF Typed, HistoryTyped
<1>3. CASE ~HasProperties(File)
  <2>1. Throws("ui") /\ isPswInitMode' = isPswInitMode
    BY <1>3 DEF SaveSalt
  <2>2. thread'["ui"] = Idle /\ Does("ui", Idle) /\ HistoryTyped'
    BY <1>1, <2>1, ThrowsTyped DEF Throws
  <2> QED
    BY <1>1, <2>1, <2>2, IdleTyped DEF Typed, RestTyped
<1> QED
  BY <1>2, <1>3

LEMMA PrefGot ==
    ASSUME Typed, GetPref
    PROVE  LET w == thread["ui"]
               n == thread'["ui"]
           IN  /\ w.op = "getTemp" /\ n.op = "getTemp" /\ w.todo # <<>>
               /\ WorkTyped(n) /\ Does("ui", n) /\ n.file = NoFile
               /\ n.todo = Tail(w.todo) /\ ToSet(w.todo) = ToSet(n.todo) \cup {Head(w.todo)}
               /\ \A i \in Items :
                     n.values[i] = IF i = Head(w.todo) THEN File[i] ELSE w.values[i]
               /\ UNCHANGED <<prefs, isPswInitMode, password, jobs, server, drawn, calls, faults,
                              history>>
<1> DEFINE w == thread["ui"]
           item == Head(w.todo)
           work == [w EXCEPT !.todo = Tail(@), !.values[item] = File[item]]
<1>1. /\ w.op = "getTemp" /\ w.todo # <<>> /\ Does("ui", work) /\ "ui" \in Threads /\ WorkTyped(w)
      /\ UNCHANGED <<prefs, isPswInitMode, password, jobs, server, drawn, calls, faults, history>>
  BY WorksTyped DEF GetPref, Reads, Threads
<1>2. ToSet(w.todo) = ToSet(Tail(w.todo)) \cup {item} /\ TodoOK(w.op, Tail(w.todo)) /\ item \in Items
  BY <1>1, HeadOrTail, HeadAndTail, TailTyped DEF WorkTyped, TodoOK
<1>3. /\ DOMAIN work = WorkFields /\ work.op = "getTemp" /\ work.psw = w.psw
      /\ work.todo = Tail(w.todo) /\ work.file = w.file /\ w.file = NoFile
      /\ DOMAIN work.values = Items
      /\ \A i \in Items : work.values[i] = IF i = item THEN File[i] ELSE w.values[i]
  BY <1>1, <1>2 DEF WorkTyped, WorkFields
<1>4. WorkTyped(work)
  <2> HIDE DEF work
  <2> QED
    BY <1>1, <1>2, <1>3 DEF WorkTyped, PropertyOps
<1> HIDE DEF work
<1>5. thread'["ui"] = work
  BY <1>1, ThreadsApart
<1> QED
  BY <1>1, <1>2, <1>3, <1>4, <1>5

LEMMA TempWalletGot ==
    ASSUME Typed, GotTempWallet
    PROVE  LET w == thread["ui"]
               n == thread'["ui"]
           IN  /\ At("ui", "getTemp") /\ isPswInitMode' = FALSE
               /\ n.op = "updateWallet" /\ n.todo = Copied /\ n.file = NoFile
               /\ n.values = w.values /\ WorkTyped(n) /\ Does("ui", n)
               /\ UNCHANGED <<prefs, password, jobs, server, drawn, calls, faults, history>>
<1> DEFINE w == thread["ui"]
           work == [w EXCEPT !.op = "updateWallet", !.todo = Copied]
<1>1. /\ At("ui", "getTemp") /\ Does("ui", work) /\ "ui" \in Threads /\ WorkTyped(w)
      /\ isPswInitMode' = FALSE
      /\ UNCHANGED <<prefs, password, jobs, server, drawn, calls, faults, history>>
  BY WorksTyped DEF GotTempWallet, Threads
<1>2. /\ DOMAIN work = WorkFields /\ work.op = "updateWallet" /\ work.psw = w.psw
      /\ work.todo = Copied /\ work.file = NoFile /\ work.values = w.values
  BY <1>1, NothingToDo DEF WorkTyped, WorkFields, At
<1>3. WorkTyped(work)
  <2> HIDE DEF work
  <2> QED
    BY <1>1, <1>2, TodoTyped DEF WorkTyped, CopyOps, PropertyOps
<1> HIDE DEF work
<1>4. thread'["ui"] = work
  BY <1>1, ThreadsApart
<1> QED
  BY <1>1, <1>2, <1>3, <1>4

\* The steps that only go on: what the thread has stays.
LEMMA GoneOn ==
    ASSUME Typed, NEW t \in Threads, NEW from, NEW op, At(t, from), op \notin PropertyOps,
           Does(t, [thread[t] EXCEPT !.op = op])
    PROVE  LET w == thread[t]
               n == thread'[t]
           IN  /\ WorkTyped(n) /\ n.op = op /\ n.todo = <<>> /\ n.file = NoFile /\ Does(t, n)
               /\ n.psw = w.psw /\ n.prk = w.prk /\ n.puk = w.puk /\ n.msg = w.msg
               /\ n.values = w.values
<1>1. thread'[t] = [thread[t] EXCEPT !.op = op] /\ WorkTyped(thread[t]) /\ thread[t].todo = <<>>
  BY ThreadsApart, WorksTyped DEF At
<1> QED
  BY <1>1, Renamed

\* The steps of the thread of the user interface leave the bridge alone.
LEMMA UiStepTaken ==
    ASSUME Typed, UiSteps
    PROVE  LET n == thread'["ui"]
           IN  /\ Does("ui", n) /\ WorkTyped(n) /\ n.op \in Ops("ui") \ {"setContext"}
               /\ Busy("ui") /\ n.file = NoFile
               /\ PrefsTyped' /\ DrawnTyped' /\ drawn'.keys = drawn.keys /\ HistoryTyped'
               /\ isPswInitMode' \in BOOLEAN /\ password' \in Psws \cup {NoPsw}
               /\ faults' \in 0 .. MaxFaults /\ UNCHANGED <<jobs, calls>>
               /\ history'.kept = history.kept /\ history'.interleaved = history.interleaved
               /\ history'.overlapped = history.overlapped
               /\ history'.threw = history.threw \/ history'.threw
               /\ history.foreign => history'.foreign
               /\ prefs' # prefs => WalletUpdated
<1> USE DEF Threads
<1>0. /\ UiOps = Ops("ui") /\ PrefsTyped /\ DrawnTyped /\ HistoryTyped /\ isPswInitMode \in BOOLEAN
      /\ password \in Psws \cup {NoPsw} /\ faults \in 0 .. MaxFaults
      /\ WorkTyped(thread["ui"]) /\ thread["ui"].psw \in Psws \cup {NoPsw}
  BY WorksTyped DEF Ops, Typed, RestTyped, WorkTyped
<1>1. CASE Returned \/ TempWalletRemoved \/ onLibRestoreCompleted
  <2>1. /\ Does("ui", Idle) /\ Busy("ui") /\ isPswInitMode' \in {isPswInitMode, FALSE}
        /\ password' \in {password, NoPsw}
        /\ UNCHANGED <<prefs, jobs, drawn, calls, faults, history>>
    BY <1>1 DEF Returned, TempWalletRemoved, onLibRestoreCompleted, At, Busy
  <2>2. thread'["ui"] = Idle
    BY <2>1, ThreadsApart
  <2> QED
    BY <1>0, <2>1, <2>2, IdleTyped DEF PrefsTyped, DrawnTyped, HistoryTyped, UiOps
<1>2. CASE SetPassword \/ OwnFile \/ EncryptBackUp \/ BackUpGenerated
  <2>1. /\ Busy("ui") /\ isPswInitMode' \in {isPswInitMode, FALSE}
        /\ password' \in {password, NoPsw, thread["ui"].psw}
        /\ UNCHANGED <<prefs, jobs, drawn, calls, faults, history>>
    BY <1>2 DEF SetPassword, OwnFile, EncryptBackUp, BackUpGenerated, At, Busy
  <2> DEFINE Goes(op) == Does("ui", [thread["ui"] EXCEPT !.op = op])
  <2>2. PICK from, op : /\ op \in {"restoring", "decrypt", "save", "backedUp"}
                        /\ At("ui", from) /\ Goes(op)
    <3>1. CASE SetPassword
      <4>1. At("ui", "restore") /\ Goes("restoring")
        BY <3>1 DEF SetPassword
      <4> QED
        BY <4>1
    <3>2. CASE OwnFile
      <4>1. At("ui", "init") /\ Goes("decrypt")
        BY <3>2 DEF OwnFile
      <4> QED
        BY <4>1
    <3>3. CASE EncryptBackUp
      <4>1. At("ui", "encrypt") /\ Goes("save")
        BY <3>3 DEF EncryptBackUp
      <4> QED
        BY <4>1
    <3>4. CASE BackUpGenerated
      <4>1. At("ui", "formatted") /\ Goes("backedUp")
        BY <3>4 DEF BackUpGenerated
      <4> QED
        BY <4>1
    <3> QED
      BY <1>2, <3>1, <3>2, <3>3, <3>4
  <2>3. /\ WorkTyped(thread'["ui"]) /\ thread'["ui"].op = op /\ Does("ui", thread'["ui"])
        /\ thread'["ui"].file = NoFile
    BY <2>2, GoneOn DEF PropertyOps
  <2>4. op \in UiOps \ {"setContext"}
    BY <2>2 DEF UiOps
  <2> QED
    BY <1>0, <2>1, <2>3, <2>4 DEF PrefsTyped, DrawnTyped, HistoryTyped
<1>3. CASE \E works \in BOOLEAN : save(works)
  <2>1. PICK works \in BOOLEAN : save(works)
    BY <1>3
  <2>2. /\ Busy("ui") /\ Does("ui", thread'["ui"]) /\ WorkTyped(thread'["ui"])
        /\ thread'["ui"].op \in UiOps \ {"setContext"} /\ thread'["ui"].file = NoFile
        /\ password' \in {password, NoPsw}
        /\ faults' \in 0 .. MaxFaults
        /\ UNCHANGED <<prefs, isPswInitMode, jobs, drawn, calls, history>>
    BY <1>0, <2>1, SaveTaken, IdleTyped DEF At, Busy
  <2> QED
    BY <1>0, <2>2 DEF PrefsTyped, DrawnTyped, HistoryTyped
<1>4. CASE DecryptBackUp
  <2>1. WorkTyped(thread'["ui"])
    BY <1>4, BackUpDecrypted DEF ThreadsTyped
  <2> QED
    BY <1>0, <1>4, <2>1, BackUpDecrypted DEF At, Busy, PrefsTyped, UiOps
<1>5. CASE SaveSalt
  <2>1. /\ Busy("ui") /\ Does("ui", thread'["ui"]) /\ WorkTyped(thread'["ui"])
        /\ thread'["ui"].op \in UiOps \ {"setContext"} /\ thread'["ui"].file = NoFile
        /\ isPswInitMode' \in BOOLEAN /\ HistoryTyped'
        /\ UNCHANGED <<prefs, password, jobs, drawn, calls, faults>>
    BY <1>0, <1>5, SaltSaved, IdleTyped DEF At, Busy
  <2>2. /\ history'.kept = history.kept /\ history'.interleaved = history.interleaved
        /\ history'.overlapped = history.overlapped
        /\ history'.threw = history.threw \/ history'.threw
        /\ history.foreign => history'.foreign
    BY <1>5, SaltSaved, ThrowsTyped
  <2> QED
    BY <1>0, <2>1, <2>2 DEF PrefsTyped, DrawnTyped
<1>6. CASE BackUpReturned
  <2>1. /\ Does("ui", Idle) /\ Busy("ui") /\ isPswInitMode' = FALSE
        /\ history' = [history EXCEPT !.failed = FALSE]
        /\ UNCHANGED <<prefs, password, jobs, drawn, calls, faults>>
    BY <1>6 DEF BackUpReturned, At, Busy
  <2>2. thread'["ui"] = Idle
    BY <2>1, ThreadsApart
  <2>3. /\ HistoryTyped' /\ history'.kept = history.kept
        /\ history'.interleaved = history.interleaved
        /\ history'.overlapped = history.overlapped /\ history'.threw = history.threw
        /\ history'.foreign = history.foreign
    BY <1>0, <2>1 DEF HistoryTyped, HistoryFields, HistoryFlags
  <2> QED
    BY <1>0, <2>1, <2>2, <2>3, IdleTyped DEF PrefsTyped, DrawnTyped, UiOps
<1>7. CASE GetPref
  BY <1>0, <1>7, PrefGot DEF Busy, PrefsTyped, DrawnTyped, HistoryTyped, UiOps
<1>8. CASE GotTempWallet
  BY <1>0, <1>8, TempWalletGot DEF At, Busy, PrefsTyped, DrawnTyped, HistoryTyped, UiOps
<1>9. CASE WalletUpdated
  <2> DEFINE n == [Idle EXCEPT !.op = "removeTemp"]
  <2>1. /\ Does("ui", n) /\ Busy("ui") /\ prefs' = [prefs EXCEPT !["tempWallet"] = NoValues]
        /\ UNCHANGED <<isPswInitMode, password, jobs, drawn, calls, faults, history>>
    BY <1>9 DEF WalletUpdated, At, Busy
  <2>2. WorkTyped(n) /\ n.op = "removeTemp" /\ n.file = NoFile
    BY IdleTyped, Renamed DEF PropertyOps
  <2>3. PrefsTyped'
    BY <1>0, <2>1, NoValuesTyped DEF PrefsTyped
  <2> HIDE DEF n
  <2>4. thread'["ui"] = n
    BY <2>1, ThreadsApart
  <2> QED
    BY <1>0, <1>9, <2>1, <2>2, <2>3, <2>4 DEF DrawnTyped, HistoryTyped, UiOps
<1> QED
  BY <1>1, <1>2, <1>3, <1>4, <1>5, <1>6, <1>7, <1>8, <1>9 DEF UiSteps

\* The steps of the bridge leave the files, the mode and the other thread alone.
LEMMA BridgeStepTaken ==
    ASSUME Typed, BridgeSteps
    PROVE  LET n == thread'["bridge"]
               w == thread["bridge"]
           IN  /\ ThreadsTyped' /\ thread'["ui"] = thread["ui"] /\ WorkTyped(n)
               /\ n.file = NoFile
               /\ JobsTyped' /\ DrawnTyped' /\ HistoryTyped'
               /\ drawn'.keys + Len(jobs') <= drawn.keys + Len(jobs)
               /\ drawn.keys <= drawn'.keys
               /\ password' \in {password, NoPsw}
               /\ UNCHANGED <<prefs, isPswInitMode, calls, faults>>
               /\ ~Quiet /\ history'.kept = history.kept /\ history'.foreign = history.foreign
               /\ history'.overlapped = history.overlapped
               /\ history.interleaved => history'.interleaved
               /\ doGenerate \/ onSuccessSign =>
                     ~Busy("bridge") /\ (history'.interleaved \/ ~Busy("ui") \/ n = w)
               /\ doGenerate => \/ n = w /\ drawn' = drawn /\ history'.threw
                                \/ /\ n.op = "save" /\ n.psw = Head(jobs).psw /\ n.todo = <<>>
                                   /\ n.prk = Prk(drawn'.keys) /\ n.puk = Puk(drawn'.keys)
                                   /\ n.values = NoValues /\ drawn'.keys = drawn.keys + 1
<1> USE DEF Threads
<1>0. /\ BridgeOps = Ops("bridge") /\ DrawnTyped /\ HistoryTyped /\ JobsTyped
      /\ drawn.keys \in Nat /\ Len(jobs) \in Nat
      /\ WorkTyped(thread["bridge"]) /\ thread["bridge"].op \in Ops("bridge")
  <2>1. PICK S : jobs \in Seq(S)
    BY DEF Typed, JobsTyped
  <2>2. Len(jobs) \in Nat
    BY <2>1
  <2> QED
    BY <2>2, WorksTyped DEF Ops, Typed, RestTyped, DrawnTyped
<1>1. CASE doGenerate
  <2>1. /\ ~Busy("bridge") /\ jobs # <<>> /\ jobs' = Tail(jobs) /\ Head(jobs).job = "doGenerate"
        /\ UNCHANGED <<prefs, isPswInitMode, password, server, calls, faults>>
    BY <1>1 DEF doGenerate
  <2>2. /\ JobsTyped' /\ Len(jobs') = Len(jobs) - 1 /\ Head(jobs).psw \in Psws /\ ~Quiet
    BY <1>0, <2>1, JobTaken DEF JobOK, Quiet
  <2>3. thread["bridge"].todo = <<>> /\ thread["bridge"].file = NoFile /\ ~onSuccessSign
    BY <1>0, <2>1, NothingToDo DEF Busy, WorkTyped, TodoOK, PropertyOps, Saves, SaltOps, CopyOps,
       onSuccessSign
  <2>4. CASE Head(jobs).curve
    <3> DEFINE n == [Idle EXCEPT !.op = "save", !.psw = Head(jobs).psw,
                                 !.prk = Prk(drawn'.keys), !.puk = Puk(drawn'.keys)]
    <3>1. /\ drawn' = [drawn EXCEPT !.keys = @ + 1] /\ Does("bridge", n)
          /\ history' = [history EXCEPT !.interleaved = @ \/ Busy("ui")]
      BY <1>1, <2>4 DEF doGenerate
    <3>2. /\ DOMAIN n = WorkFields /\ n.op = "save" /\ n.psw = Head(jobs).psw /\ n.todo = <<>>
          /\ n.file = NoFile /\ n.values = NoValues
          /\ n.prk = Prk(drawn'.keys) /\ n.puk = Puk(drawn'.keys)
      BY DEF Idle, WorkFields
    <3> HIDE DEF n
    <3>3. WorkTyped(n) /\ thread'["bridge"] = n /\ n.op \in BridgeOps
      BY <2>2, <3>1, <3>2, TodoTyped, NoValuesTyped, ThreadsApart
      DEF WorkTyped, PropertyOps, BridgeOps
    <3>4. DrawnTyped' /\ drawn'.keys = drawn.keys + 1
      BY <1>0, <3>1 DEF DrawnTyped
    <3>5. /\ HistoryTyped' /\ history'.kept = history.kept /\ history'.foreign = history.foreign
          /\ history'.overlapped = history.overlapped
          /\ history.interleaved => history'.interleaved
          /\ history'.interleaved \/ ~Busy("ui")
      BY <1>0, <3>1 DEF HistoryTyped, HistoryFields, HistoryFlags, Busy
    <3>6. ThreadsTyped' /\ thread'["ui"] = thread["ui"]
      BY <1>0, <3>1, <3>3, ThreadsApart, DoesTyped
    <3> QED
      BY <1>0, <2>1, <2>2, <2>3, <3>2, <3>3, <3>4, <3>5, <3>6
  <2>5. CASE ~Head(jobs).curve
    <3>1. UNCHANGED <<drawn, thread>> /\ history' = [history EXCEPT !.threw = TRUE]
      BY <1>1, <2>5 DEF doGenerate
    <3>2. /\ HistoryTyped' /\ history'.kept = history.kept /\ history'.foreign = history.foreign
          /\ history'.overlapped = history.overlapped /\ history'.threw
          /\ history'.interleaved = history.interleaved
      BY <1>0, <3>1 DEF HistoryTyped, HistoryFields, HistoryFlags
    <3>3. ThreadsTyped' /\ thread' = thread
      BY <3>1 DEF Typed, ThreadsTyped
    <3> QED
      BY <1>0, <2>1, <2>2, <2>3, <3>1, <3>2, <3>3 DEF DrawnTyped
  <2> QED
    BY <2>4, <2>5
<1>2. CASE onLibWalletCreated
  <2>1. /\ At("bridge", "formatted") /\ Busy("bridge")
        /\ UNCHANGED <<prefs, isPswInitMode, password, jobs, drawn, calls, faults>>
    BY <1>2 DEF onLibWalletCreated, At, Busy
  <2>2. JobsTyped' /\ DrawnTyped' /\ ~doGenerate /\ ~onSuccessSign /\ ~Quiet
    BY <1>0, <2>1 DEF JobsTyped, DrawnTyped, doGenerate, onSuccessSign, Quiet
  <2>3. CASE HasProperties(File)
    <3>1. history' = history /\ Does("bridge", [thread["bridge"] EXCEPT !.op = "told"])
      BY <1>2, <2>3 DEF onLibWalletCreated
    <3>2. PICK op : op = "told"
      OBVIOUS
    <3>3. Does("bridge", [thread["bridge"] EXCEPT !.op = op]) /\ op \notin PropertyOps
      BY <3>1, <3>2 DEF PropertyOps
    <3>4. /\ WorkTyped(thread'["bridge"]) /\ thread'["bridge"].op = op
          /\ thread'["bridge"].file = NoFile /\ Does("bridge", thread'["bridge"])
      BY <2>1, <3>3, GoneOn
    <3>5. ThreadsTyped' /\ thread'["ui"] = thread["ui"]
      BY <1>0, <3>2, <3>4, ThreadsApart, DoesTyped DEF BridgeOps
    <3> QED
      BY <1>0, <2>1, <2>2, <3>1, <3>4, <3>5 DEF HistoryTyped
  <2>4. CASE ~HasProperties(File)
    <3>1. Throws("bridge")
      BY <1>2, <2>4 DEF onLibWalletCreated
    <3>2. thread'["bridge"] = Idle /\ ThreadsTyped' /\ thread'["ui"] = thread["ui"]
      BY <3>1, ThrowsTyped, ThreadsApart DEF Throws
    <3> QED
      BY <1>0, <2>1, <2>2, <3>1, <3>2, ThrowsTyped, IdleTyped
  <2> QED
    BY <2>3, <2>4
<1>3. CASE onSuccessKeyPair
  <2>1. /\ Busy("bridge") /\ password' = NoPsw /\ Does("bridge", Idle)
        /\ history' = [history EXCEPT !.failed = FALSE]
        /\ UNCHANGED <<prefs, isPswInitMode, jobs, drawn, calls, faults>>
    BY <1>3 DEF onSuccessKeyPair, At, Busy
  <2>2. JobsTyped' /\ DrawnTyped' /\ ~doGenerate /\ ~onSuccessSign /\ ~Quiet
    BY <1>0, <2>1 DEF JobsTyped, DrawnTyped, doGenerate, onSuccessSign, Quiet
  <2>3. thread'["bridge"] = Idle /\ thread'["ui"] = thread["ui"] /\ ThreadsTyped'
    BY <1>0, <2>1, ThreadsApart, DoesTyped, IdleTyped DEF BridgeOps
  <2>4. /\ HistoryTyped' /\ history'.kept = history.kept /\ history'.foreign = history.foreign
        /\ history'.overlapped = history.overlapped /\ history'.interleaved = history.interleaved
    BY <1>0, <2>1 DEF HistoryTyped, HistoryFields, HistoryFlags
  <2> QED
    BY <1>0, <2>1, <2>2, <2>3, <2>4, IdleTyped
<1>4. CASE onSuccessSign
  <2>1. /\ ~Busy("bridge") /\ jobs # <<>> /\ jobs' = Tail(jobs)
        /\ password' \in {password, NoPsw} /\ Head(jobs).job = "doSign"
        /\ history' = [history EXCEPT !.interleaved = @ \/ Busy("ui"),
                                      !.threw = @ \/ ~HasProperties(File)]
        /\ UNCHANGED <<prefs, isPswInitMode, thread, drawn, calls, faults>>
    BY <1>4 DEF onSuccessSign
  <2>2. JobsTyped' /\ Len(jobs') = Len(jobs) - 1 /\ DrawnTyped' /\ ~doGenerate /\ ~Quiet
    BY <1>0, <2>1, JobTaken DEF DrawnTyped, doGenerate, Quiet
  <2>3. /\ HistoryTyped' /\ history'.kept = history.kept /\ history'.foreign = history.foreign
        /\ history'.overlapped = history.overlapped /\ history.interleaved => history'.interleaved
    BY <1>0, <2>1 DEF HistoryTyped, HistoryFields, HistoryFlags, Busy, HasProperties
  <2>4. thread["bridge"].todo = <<>> /\ thread["bridge"].file = NoFile
    BY <1>0, <2>1, NothingToDo DEF Busy, WorkTyped, TodoOK, PropertyOps, Saves, SaltOps, CopyOps
  <2>5. ThreadsTyped' /\ thread' = thread
    BY <2>1 DEF Typed, ThreadsTyped
  <2> QED
    BY <1>0, <2>1, <2>2, <2>3, <2>4, <2>5
<1> QED
  BY <1>1, <1>2, <1>3, <1>4 DEF BridgeSteps

LEMMA UiTyped ==
    ASSUME Typed, UiSteps
    PROVE  Typed' /\ thread'["bridge"] = thread["bridge"]
<1>1. ThreadsTyped' /\ thread'["bridge"] = thread["bridge"]
  BY UiStepTaken, DoesTyped, ThreadsApart DEF Threads
<1> QED
  BY <1>1, UiStepTaken DEF Typed, JobsTyped, RestTyped, DrawnTyped

LEMMA BridgeTyped ==
    ASSUME Typed, BridgeSteps
    PROVE  Typed'
<1>1. /\ ThreadsTyped' /\ JobsTyped' /\ DrawnTyped' /\ HistoryTyped'
      /\ drawn'.keys + Len(jobs') <= drawn.keys + Len(jobs)
      /\ password' \in {password, NoPsw}
      /\ UNCHANGED <<prefs, isPswInitMode, calls, faults>>
  BY BridgeStepTaken
<1>2. PICK S : jobs \in Seq(S)
  BY DEF Typed, JobsTyped
<1>3. PICK R : jobs' \in Seq(R)
  BY <1>1 DEF JobsTyped
<1>4. drawn'.keys + Len(jobs') <= calls
  BY <1>1, <1>2, <1>3 DEF Typed, RestTyped, DrawnTyped
<1> QED
  BY <1>1, <1>4 DEF Typed, PrefsTyped, RestTyped

LEMMA CrashTyped ==
    ASSUME Typed, Crash
    PROVE  Typed' /\ history'.kept = history.kept /\ history'.interleaved = history.interleaved
                  /\ history'.foreign = history.foreign
<1>1. /\ faults < MaxFaults /\ faults' = faults + 1
      /\ isPswInitMode' \in BOOLEAN /\ password' = NoPsw
      /\ thread' = NewProcess /\ jobs' = <<>>
      /\ history' = [history EXCEPT !.overlapped = FALSE, !.failed = FALSE, !.threw = FALSE]
      /\ UNCHANGED <<prefs, server, drawn, calls>>
  BY DEF Crash
<1>2. PrefsTyped' /\ ThreadsTyped'
  <2>1. \A t \in Threads : NewProcess[t].op \in Ops(t) /\ WorkTyped(NewProcess[t])
    BY NewProcessTyped, IdleTyped DEF Threads, Ops, UiOps, BridgeOps
  <2> QED
    BY <1>1, <2>1, NewProcessTyped DEF Typed, PrefsTyped, ThreadsTyped
<1>3. JobsTyped' /\ Len(jobs') = 0
  <2>1. jobs' \in Seq(Items) /\ DOMAIN jobs' = {} /\ Len(jobs') = 0
    BY <1>1, ListsOfItems
  <2> QED
    BY <2>1 DEF JobsTyped
<1>4. HistoryTyped' /\ history'.kept = history.kept /\ history'.interleaved = history.interleaved
      /\ history'.foreign = history.foreign
  BY <1>1 DEF Typed, HistoryTyped, HistoryFields, HistoryFlags
<1>5. Len(jobs) \in Nat
  <2>1. PICK S : jobs \in Seq(S)
    BY DEF Typed, JobsTyped
  <2> QED
    BY <2>1
<1>6. DrawnTyped' /\ drawn'.keys + Len(jobs') <= calls' /\ faults' \in 0 .. MaxFaults
  BY <1>1, <1>3, <1>5, AndroidWalletAssumption DEF Typed, RestTyped, DrawnTyped,
     AndroidWalletAssumption
<1> QED
  BY <1>1, <1>2, <1>3, <1>4, <1>6 DEF Typed, RestTyped

LEMMA TypedInit ==
    ASSUME Init
    PROVE  Typed
<1>1. \A psw, salt, k : DOMAIN Stored(psw, salt, k) = Items
  BY DEF Stored
<1>2. PrefsTyped
  BY <1>1, NoValuesTyped DEF Init, PrefsTyped
<1>3. ThreadsTyped
  BY ProcessTyped DEF Init
<1>4. JobsTyped /\ Len(jobs) = 0
  <2>1. jobs \in Seq(Items) /\ DOMAIN jobs = {} /\ Len(jobs) = 0
    BY ListsOfItems DEF Init
  <2> QED
    BY <2>1 DEF JobsTyped
<1>5. /\ history = NoHistory /\ isPswInitMode \in BOOLEAN /\ password = NoPsw
      /\ drawn = [salts |-> 0, keys |-> 0] /\ calls = 0 /\ faults = 0
  BY DEF Init
<1>6. HistoryTyped
  <2>1. DOMAIN NoHistory = HistoryFields
    BY DEF NoHistory, HistoryFields, HistoryFlags
  <2>2. /\ NoHistory.overlapped = FALSE /\ NoHistory.interleaved = FALSE
        /\ NoHistory.failed = FALSE /\ NoHistory.threw = FALSE /\ NoHistory.foreign = FALSE
    BY DEF NoHistory
  <2>3. \A field \in HistoryFlags : NoHistory[field] \in BOOLEAN
    BY <2>2 DEF HistoryFlags
  <2> QED
    BY <1>5, <2>1, <2>3 DEF HistoryTyped
<1> QED
  BY <1>2, <1>3, <1>4, <1>5, <1>6, AndroidWalletAssumption
  DEF Typed, RestTyped, DrawnTyped, AndroidWalletAssumption

SmallCalls == \/ \E psw \in Psws : create(psw) \/ generateSignedTransaction(psw)
              \/ removeWallet \/ \E mode \in BOOLEAN : setPswInitMode(mode)
ThreadSteps(t) == \/ generateMACData(t) \/ ChoosePref(t) \/ WritePref(t)
                  \/ savePair(t) \/ setWalletPref(t) \/ generateRestoreDataFormat(t)

\* The steps there are, by what they leave alone.
LEMMA StepsAre ==
    ASSUME [Next]_vars
    PROVE  \/ \E t \in Threads : ThreadSteps(t)
           \/ SmallCalls \/ WorkCalls \/ UiSteps \/ BridgeSteps \/ Crash \/ UNCHANGED vars
BY DEF Next, ThreadSteps, SmallCalls, WorkCalls, UiSteps, BridgeSteps

LEMMA TypedKept ==
    ASSUME Typed, [Next]_vars
    PROVE  Typed'
<1>1. CASE \E t \in Threads : ThreadSteps(t)
  BY <1>1, TypedByThread DEF ThreadSteps
<1>2. CASE UNCHANGED vars
  BY <1>2 DEF vars, Typed, PrefsTyped, ThreadsTyped, JobsTyped, HistoryTyped, RestTyped, DrawnTyped
<1>3. CASE SmallCalls
  BY <1>3, SmallCallsTyped DEF SmallCalls
<1> QED
  BY <1>1, <1>2, <1>3, StepsAre, WorkCallsTyped, UiTyped, BridgeTyped, CrashTyped

LEMMA AlwaysTyped == Spec => []Typed
BY TypedInit, TypedKept, PTL DEF Spec

-----------------------------------------------------------------------------
(* The type invariant of the wallet.                                         *)
THEOREM AndroidTypeSafe == Spec => []TypeOK
<1>1. Typed => TypeOK
  <2> SUFFICES ASSUME Typed PROVE TypeOK
    OBVIOUS
  <2>1. PICK S : jobs \in Seq(S)
    BY DEF Typed, JobsTyped
  <2>2. Len(jobs) \in Nat
    BY <2>1
  <2>3. Len(jobs) <= MaxCalls /\ drawn.keys \in 0 .. MaxCalls /\ drawn.salts \in Nat
    BY <2>2, AndroidWalletAssumption DEF Typed, RestTyped, DrawnTyped, AndroidWalletAssumption
  <2>4. \A t \in Threads : /\ ToSet(thread[t].todo) \subseteq Items
                           /\ thread[t].file \in Files \cup {NoFile}
    <3> SUFFICES ASSUME NEW t \in Threads
                 PROVE  /\ ToSet(thread[t].todo) \subseteq Items
                        /\ thread[t].file \in Files \cup {NoFile}
      OBVIOUS
    <3>1. thread[t].todo \in Seq(Items) /\ thread[t].file \in Files \cup {NoFile}
      BY WorksTyped DEF WorkTyped, TodoOK
    <3>2. \A i \in DOMAIN thread[t].todo : thread[t].todo[i] \in Items
      BY <3>1
    <3> QED
      BY <3>1, <3>2 DEF ToSet
  <2>5. /\ thread["bridge"].op \in {"idle", "save", "keyStore", "saved", "formatted", "told"}
        /\ thread["ui"].op \in {"idle", "setContext", "getSalt", "removeTemp",
                                "restore", "restoring", "restored",
                                "init", "decrypt", "decrypted", "encrypt",
                                "save", "keyStore", "saved", "formatted", "backedUp",
                                "getTemp", "updateWallet"}
    BY WorksTyped DEF Ops, UiOps, BridgeOps, Threads
  <2> QED
    BY <2>3, <2>4, <2>5 DEF TypeOK, Typed, PrefsTyped, ThreadsTyped, RestTyped
<1> QED
  BY <1>1, AlwaysTyped, PTL

-----------------------------------------------------------------------------
(* The password field                                                        *)

\* A step that lets the field and what was posted alone, keeps the bridge busy
\* or idle, and finishes nothing with a password in the field.
LEMMA ClearedFrame ==
    ASSUME Cleared, UNCHANGED <<password, jobs>>, history'.threw = history.threw \/ history'.threw,
           Busy("bridge") => Busy("bridge")',
           thread["ui"].op \in WithPassword => thread'["ui"].op \in WithPassword
    PROVE  Cleared'
BY DEF Cleared, Quiet, Busy

LEMMA ClearedByThread ==
    ASSUME Typed, Cleared, NEW t \in Threads, ThreadSteps(t)
    PROVE  Cleared'
<1> USE DEF Threads
<1>1. \A u \in Threads \ {t} : thread'[u] = thread[u]
  BY ThreadsApart, MACMade, PrefChosen, PrefWritten, PairSaved, WalletPrefSet, DataFormatted
  DEF ThreadSteps
<1>2. CASE generateMACData(t) \/ ChoosePref(t) \/ WritePref(t)
  <2>1. thread'[t].op = thread[t].op /\ UNCHANGED <<password, jobs, history>>
    BY <1>2, MACMade, PrefChosen, PrefWritten DEF SameWork
  <2> QED
    BY <1>1, <2>1, ClearedFrame DEF Busy
<1>3. CASE savePair(t) \/ setWalletPref(t) \/ generateRestoreDataFormat(t)
  <2>1. UNCHANGED <<password, jobs>>
    BY <1>3, PairSaved, WalletPrefSet, DataFormatted
  <2>2. \/ history'.threw
        \/ history'.threw = history.threw /\ thread'[t].op \in {"keyStore", "saved", "formatted"}
    BY <1>3, PairSaved, WalletPrefSet, DataFormatted, ThrowsTyped
  <2>3. CASE history'.threw
    BY <2>3 DEF Cleared
  <2>4. CASE thread'[t].op \in {"keyStore", "saved", "formatted"} /\ history'.threw = history.threw
    BY <1>1, <2>1, <2>4, ClearedFrame DEF Busy, WithPassword
  <2> QED
    BY <2>2, <2>3, <2>4
<1> QED
  BY <1>2, <1>3 DEF ThreadSteps

LEMMA ClearedByCalls ==
    ASSUME Typed, Cleared, SmallCalls \/ WorkCalls
    PROVE  Cleared'
<1> USE DEF Threads
<1>1. CASE WorkCalls
  <2>1. /\ UNCHANGED <<password, jobs>> /\ thread'["bridge"] = thread["bridge"]
        /\ history'.threw = history.threw /\ thread["ui"].op = "idle"
    BY <1>1, WorkStarted, CallTyped, ThreadsApart DEF Busy
  <2> QED
    BY <2>1, ClearedFrame DEF Busy, WithPassword
<1>2. CASE \E psw \in Psws : create(psw)
  <2>1. PICK job : jobs' = Append(jobs, job) /\ JobOK(job)
    BY <1>2 DEF create, JobOK
  <2>2. jobs' # <<>>
    BY <2>1, JobAppended DEF Typed
  <2> QED
    BY <2>2 DEF Cleared, Quiet
<1>3. CASE \E psw \in Psws : generateSignedTransaction(psw)
  <2>1. CASE jobs' = jobs
    <3>1. \A prk : jobs' # Append(jobs, [job |-> "doSign", prk |-> prk])
      BY <2>1, JobAppended DEF Typed, JobOK
    <3>2. password' = NoPsw
      BY <1>3, <3>1 DEF generateSignedTransaction
    <3> QED
      BY <3>2 DEF Cleared
  <2>2. CASE jobs' # jobs
    <3>1. PICK prk : jobs' = Append(jobs, [job |-> "doSign", prk |-> prk])
      BY <1>3, <2>2 DEF generateSignedTransaction
    <3>2. jobs' # <<>>
      BY <3>1, JobAppended DEF Typed, JobOK
    <3> QED
      BY <3>2 DEF Cleared, Quiet
  <2> QED
    BY <2>1, <2>2
<1>4. CASE removeWallet \/ \E mode \in BOOLEAN : setPswInitMode(mode)
  <2>1. UNCHANGED <<password, jobs, thread>> /\ history'.threw = history.threw
    BY <1>4, CallTyped DEF removeWallet, setPswInitMode
  <2> QED
    BY <2>1, ClearedFrame DEF Busy
<1> QED
  BY <1>1, <1>2, <1>3, <1>4 DEF SmallCalls

LEMMA ClearedByUi ==
    ASSUME Typed, Cleared, UiSteps
    PROVE  Cleared'
<1>1. /\ thread'["bridge"] = thread["bridge"] /\ jobs' = jobs
      /\ history'.threw = history.threw \/ history'.threw
  BY UiTyped, UiStepTaken
<1>2. CASE onLibRestoreCompleted \/ BackUpGenerated
  BY <1>2 DEF onLibRestoreCompleted, BackUpGenerated, Cleared
<1>3. CASE \E works \in BOOLEAN : save(works)
  <2>1. password' = NoPsw \/ thread'["ui"].op = "restored"
    BY <1>3, SaveTaken
  <2> QED
    BY <2>1 DEF Cleared, WithPassword
<1>4. CASE SetPassword \/ EncryptBackUp
  <2>1. thread'["ui"].op \in {"restoring", "save"}
    <3>1. \A op : Does("ui", [thread["ui"] EXCEPT !.op = op]) => thread'["ui"].op = op
      BY ThreadsApart, WorksTyped DEF Threads, WorkTyped, WorkFields
    <3> QED
      BY <1>4, <3>1 DEF SetPassword, EncryptBackUp
  <2> QED
    BY <2>1 DEF Cleared, WithPassword
<1>5. CASE \/ Returned \/ TempWalletRemoved \/ OwnFile \/ DecryptBackUp \/ SaveSalt
           \/ BackUpReturned \/ GetPref \/ GotTempWallet \/ WalletUpdated
  <2>1. password' = password /\ thread["ui"].op \notin WithPassword
    BY <1>5 DEF Returned, TempWalletRemoved, OwnFile, DecryptBackUp, SaveSalt, BackUpReturned,
       GetPref, GotTempWallet, WalletUpdated, At, Reads, WithPassword
  <2> QED
    BY <1>1, <2>1, ClearedFrame DEF Busy
<1> QED
  BY <1>2, <1>3, <1>4, <1>5 DEF UiSteps

LEMMA ClearedByBridge ==
    ASSUME Typed, Cleared, BridgeSteps
    PROVE  Cleared'
<1>1. CASE doGenerate
  <2>1. history'.threw \/ thread'["bridge"].op = "save"
    BY <1>1, BridgeStepTaken
  <2> QED
    BY <2>1 DEF Cleared, Quiet, Busy
<1>2. CASE onLibWalletCreated
  <2>1. CASE HasProperties(File)
    <3>1. /\ At("bridge", "formatted") /\ UNCHANGED <<password, jobs, history>>
          /\ Does("bridge", [thread["bridge"] EXCEPT !.op = "told"])
      BY <1>2, <2>1 DEF onLibWalletCreated
    <3>2. thread'["bridge"].op = "told"
      BY <3>1, ThreadsApart, WorksTyped DEF Threads, WorkTyped, WorkFields
    <3> QED
      BY <3>2 DEF Cleared, Quiet, Busy
  <2>2. CASE ~HasProperties(File)
    BY <1>2, <2>2, ThrowsTyped DEF onLibWalletCreated, Cleared, Threads
  <2> QED
    BY <2>1, <2>2
<1>3. CASE onSuccessKeyPair
  BY <1>3 DEF onSuccessKeyPair, Cleared
<1>4. CASE onSuccessSign
  BY <1>4 DEF onSuccessSign, Cleared, Typed, HistoryTyped, HistoryFields, HistoryFlags
<1> QED
  BY <1>1, <1>2, <1>3, <1>4 DEF BridgeSteps

LEMMA ClearedKept ==
    ASSUME Typed, Cleared, [Next]_vars
    PROVE  Cleared'
<1>1. CASE Crash
  BY <1>1 DEF Crash, Cleared
<1>2. CASE UNCHANGED vars
  BY <1>2 DEF vars, Cleared, Quiet, Busy
<1> QED
  BY <1>1, <1>2, StepsAre, ClearedByThread, ClearedByCalls, ClearedByUi, ClearedByBridge

LEMMA ClearedInit == Init => Cleared
BY DEF Init, Cleared

\* Whatever create, a signature, a restore or a reset left in the password
\* field of Wallet is gone once nothing is under way, however the calls and the
\* answers of the WebView interleaved (onSuccessKeyPair, onSuccessSign).
THEOREM AndroidPasswordCleared == Spec => []PasswordCleared
<1>1. Cleared => PasswordCleared
  BY DEF Cleared, PasswordCleared, Busy, WithPassword
<1> QED
  BY <1>1, AlwaysTyped, ClearedInit, ClearedKept, PTL DEF Spec

-----------------------------------------------------------------------------
(* updateWallet and the two files                                            *)

LEMMA VersionListed == /\ {"Version.Info", "OS.Info"} \subseteq Items \ ToSet(Copied)
                       /\ "Version.Info" \notin ToSet(Required) \cup ToSet(Copied)
                       /\ ToSet(<<>>) = {} /\ ToSet(Copied) \subseteq Items
                       /\ Items = ToSet(Copied) \cup {"Version.Info", "OS.Info", "Properties"}
                       /\ {"moaWallet", "tempWallet"} \subseteq Files
<1>1. ToSet(<<>>) = {}
  BY DEF ToSet
<1> QED
  BY <1>1, ItemsNamed DEF ItemNames, Files

\* No write takes the version away, and only the properties have it.
LEMMA VersionWritten ==
    ASSUME Typed, NEW t \in Threads, WritePref(t), NEW f \in Files
    PROVE  \/ prefs'[f]["Version.Info"] = prefs[f]["Version.Info"]
           \/ prefs'[f]["Version.Info"] # None
<1> DEFINE w == thread[t]
<1>1. /\ "Version.Info" \in Items /\ "Version.Info" # "Salt.Value"
      /\ prefs'[f]["Version.Info"] = IF f = w.file /\ "Version.Info" = Head(w.todo)
                                     THEN w.values["Version.Info"] ELSE prefs[f]["Version.Info"]
  BY PrefWritten, VersionListed
<1>2. CASE w.op \in PropertyOps
  BY <1>1, <1>2, WorksTyped, NoValuesTyped DEF WorkTyped
<1>3. CASE w.op \notin PropertyOps
  <2>1. Head(w.todo) \in ToSet(Required) \cup ToSet(Copied) \cup {"Salt.Value"}
    BY <1>3, PrefWritten
  <2> QED
    BY <1>1, <2>1, VersionListed
<1> QED
  BY <1>2, <1>3

LEMMA StartedByWrite ==
    ASSUME Typed, Started, NEW t \in Threads, WritePref(t)
    PROVE  Started'
<1> USE DEF Threads
<1>1. /\ \/ prefs'["moaWallet"]["Version.Info"] = prefs["moaWallet"]["Version.Info"]
         \/ prefs'["moaWallet"]["Version.Info"] # None
      /\ isPswInitMode' = isPswInitMode
  BY VersionWritten, VersionListed, PrefWritten
<1>2. CASE t = "bridge"
  <2>1. thread'["ui"] = thread["ui"]
    BY <1>2, PrefWritten, ThreadsApart
  <2> QED
    BY <1>1, <2>1 DEF Started
<1>3. CASE t = "ui"
  <2> DEFINE w == thread["ui"]
             n == thread'["ui"]
  <2>1. /\ n.op = w.op /\ n.file = NoFile /\ w.file # NoFile
        /\ ToSet(w.todo) = ToSet(n.todo) \cup {Head(w.todo)}
        /\ w.op \in PropertyOps => w.values = Properly
        /\ \A f \in Files, i \in Items :
              prefs'[f][i] = IF f = w.file /\ i = Head(w.todo) THEN w.values[i] ELSE prefs[f][i]
    BY <1>3, PrefWritten, WorksTyped, FileNamed DEF SameWork, WorkTyped
  <2>2. CASE w.op = "setContext" /\ Head(w.todo) = "Version.Info"
    <3>1. w.file = "moaWallet" /\ w.values["Version.Info"] # None
      BY <2>1, <2>2, NoValuesTyped DEF Started, PropertyOps
    <3>2. prefs'["moaWallet"]["Version.Info"] # None
      BY <2>1, <2>2, <3>1, VersionListed
    <3> QED
      BY <1>1, <2>1, <2>2, <3>2 DEF Started
  <2>3. CASE ~(w.op = "setContext" /\ Head(w.todo) = "Version.Info")
    BY <1>1, <2>1, <2>3 DEF Started
  <2> QED
    BY <2>2, <2>3
<1> QED
  BY <1>2, <1>3

LEMMA StartedByThread ==
    ASSUME Typed, Started, NEW t \in Threads, ThreadSteps(t)
    PROVE  Started'
<1> USE DEF Threads
<1>1. CASE WritePref(t)
  BY <1>1, StartedByWrite
<1>2. CASE ChoosePref(t)
  <2>1. /\ UNCHANGED <<prefs, isPswInitMode>> /\ thread'[t].op = thread[t].op
        /\ thread'[t].todo = thread[t].todo /\ thread'[t].file = getPrefName(isPswInitMode)
        /\ \A u \in Threads \ {t} : thread'[u] = thread[u]
    BY <1>2, PrefChosen, ThreadsApart DEF SameWork
  <2> QED
    BY <2>1 DEF Started, getPrefName
<1>3. CASE \/ generateMACData(t) \/ savePair(t) \/ setWalletPref(t)
           \/ generateRestoreDataFormat(t)
  <2>1. /\ UNCHANGED <<prefs, isPswInitMode>>
        /\ thread[t].op # "setContext" /\ thread'[t].op # "setContext"
        /\ \A u \in Threads \ {t} : thread'[u] = thread[u]
    BY <1>3, MACMade, PairSaved, WalletPrefSet, DataFormatted, ThreadsApart, IdleTyped
    DEF SameWork, Saves, At
  <2> QED
    BY <2>1 DEF Started
<1> QED
  BY <1>1, <1>2, <1>3 DEF ThreadSteps

LEMMA StartedByCalls ==
    ASSUME Typed, Started, SmallCalls \/ WorkCalls
    PROVE  Started'
<1>1. /\ thread["ui"].op = "idle" /\ thread'["ui"].op # "setContext"
      /\ prefs'["moaWallet"]["Version.Info"] = prefs["moaWallet"]["Version.Info"]
  <2>1. CASE WorkCalls
    <3>1. /\ thread["ui"].op = "idle" /\ thread'["ui"].op # "setContext"
          /\ prefs' # prefs => removeTempWallet
      BY <2>1, WorkStarted, CallTyped DEF Busy
    <3>2. removeTempWallet => prefs'["moaWallet"] = prefs["moaWallet"]
      BY DEF removeTempWallet
    <3> QED
      BY <3>1, <3>2
  <2>2. CASE SmallCalls
    <3>1. thread' = thread /\ ~Busy("ui") /\ (prefs' = prefs \/ removeWallet)
      BY <2>2 DEF SmallCalls, create, generateSignedTransaction, removeWallet, setPswInitMode, Call
    <3>2. ASSUME removeWallet
          PROVE  prefs'["moaWallet"]["Version.Info"] = prefs["moaWallet"]["Version.Info"]
      <4>1. prefs' = [prefs EXCEPT ![getPrefName(isPswInitMode)] =
                   [i \in Items |-> IF i \in ToSet(Required) \ {"OS.Info"} THEN None ELSE @[i]]]
        BY <3>2 DEF removeWallet
      <4> QED
        BY <4>1, VersionListed DEF Typed, PrefsTyped
    <3> QED
      BY <3>1, <3>2 DEF Busy
  <2> QED
    BY <2>1, <2>2
<1> QED
  BY <1>1 DEF Started

LEMMA StartedByUi ==
    ASSUME Typed, Started, UiSteps
    PROVE  Started'
<1>1. /\ thread'["ui"].op # "setContext"
      /\ prefs' # prefs => WalletUpdated
  BY UiStepTaken
<1>2. WalletUpdated => prefs'["moaWallet"] = prefs["moaWallet"]
  BY DEF WalletUpdated
<1>3. CASE thread["ui"].op = "setContext"
  <2>1. Returned
    BY <1>3 DEF UiSteps, TempWalletRemoved, onLibRestoreCompleted, SetPassword, save, OwnFile,
       DecryptBackUp, SaveSalt, EncryptBackUp, BackUpGenerated, BackUpReturned, GetPref, Reads,
       GotTempWallet, WalletUpdated, At
  <2>2. thread["ui"].todo = <<>>
    BY <2>1 DEF Returned, At
  <2> QED
    BY <1>1, <1>2, <1>3, <2>2, VersionListed DEF Started
<1> QED
  BY <1>1, <1>2, <1>3 DEF Started

LEMMA StartedKept ==
    ASSUME Typed, Started, [Next]_vars
    PROVE  Started'
<1>1. CASE Crash
  <2>1. /\ isPswInitMode' = FALSE /\ prefs' = prefs /\ thread' = NewProcess
    BY <1>1 DEF Crash
  <2>2. "Version.Info" \in ToSet(Properties)
    BY ItemsNamed
  <2> QED
    BY <2>1, <2>2, NewProcessTyped DEF Started, initProperties
<1>2. CASE BridgeSteps
  BY <1>2, BridgeStepTaken DEF Started
<1>3. CASE UNCHANGED vars
  BY <1>3 DEF vars, Started
<1> QED
  BY <1>1, <1>2, <1>3, StepsAre, StartedByThread, StartedByCalls, StartedByUi

LEMMA StartedInit ==
    ASSUME Init
    PROVE  Started
<1>1. isPswInitMode = FALSE /\ thread = NewProcess
  BY DEF Init
<1>2. "Version.Info" \in ToSet(Properties)
  BY ItemsNamed
<1> QED
  BY <1>1, <1>2, NewProcessTyped DEF Started, initProperties

\* What opens a file opens another one with the same of all a MAC is of.
LEMMA OpensAlike ==
    ASSUME NEW f, NEW g, \A i \in Items \ {"Properties"} : f[i] = g[i], NEW psw, NEW key,
           Opens(psw, key, f)
    PROVE  Opens(psw, key, g)
<1>1. {"Wallet.Addr", "MAC.Data", "Salt.Value", "Ciphered.Data", "Wallet.PublicKey"}
        \subseteq Items \ {"Properties"}
  BY ItemsNamed DEF ItemNames
<1>2. MACData(psw, f) = MACData(psw, g)
  BY DEF MACData
<1> QED
  BY <1>1, <1>2 DEF Opens, checkMACData

\* With the bridge quiet it has nothing to write.
LEMMA QuietBridge ==
    ASSUME Typed, Quiet
    PROVE  ~ThreadSteps("bridge")
<1>1. /\ thread["bridge"].op = "idle" /\ thread["bridge"].todo = <<>>
      /\ thread["bridge"].file = NoFile
  BY WorksTyped, NothingToDo
  DEF Quiet, Busy, Threads, WorkTyped, TodoOK, PropertyOps, Saves, SaltOps, CopyOps
<1> QED
  BY <1>1 DEF ThreadSteps, generateMACData, MustMake, ChoosePref, WritePref, savePair,
     setWalletPref, generateRestoreDataFormat, At

LEMMA StaysQuiet ==
    ASSUME Quiet, jobs' = jobs, thread'["bridge"] = thread["bridge"]
    PROVE  Quiet'
BY DEF Quiet, Busy

LEMMA KeepingByThread ==
    ASSUME Typed, Keeping, history.kept # {}, NEW t \in Threads, ThreadSteps(t)
    PROVE  Keeping'
<1> USE DEF Threads
<1> DEFINE w == thread["ui"]
           n == thread'["ui"]
           moa == prefs["moaWallet"]
           temp == prefs["tempWallet"]
<1>1. Quiet /\ w.op \in {"getTemp", "updateWallet", "removeTemp", "idle", "setContext"}
  BY DEF Keeping
<1>2. t = "ui"
  BY <1>1, QuietBridge
<1>3. ~generateMACData("ui") /\ ~savePair("ui") /\ ~setWalletPref("ui")
      /\ ~generateRestoreDataFormat("ui")
  BY <1>1 DEF generateMACData, MustMake, savePair, setWalletPref, generateRestoreDataFormat, At
<1>4. /\ ChoosePref("ui") \/ WritePref("ui")
      /\ w.op # "getTemp" /\ w.todo # <<>>
  BY <1>2, <1>3, PrefChosen, PrefWritten DEF ThreadSteps
<1>5. w.todo # <<>> => w.op \notin {"removeTemp", "idle"}
  BY WorksTyped DEF WorkTyped, TodoOK, PropertyOps, Saves, SaltOps, CopyOps
<1>6. /\ w.op = "updateWallet" /\ ~isPswInitMode /\ Agree /\ OpenAll(temp)
      /\ w.file \in {NoFile, "moaWallet"}
      /\ \A i \in ToSet(Copied) : /\ w.values[i] = temp[i]
                                  /\ i \in ToSet(w.todo) \/ moa[i] = temp[i]
  BY <1>4, <1>5 DEF Keeping
<1>7. /\ n.op = w.op /\ n.values = w.values /\ Does("ui", n)
      /\ UNCHANGED <<isPswInitMode, jobs, history>>
  BY <1>4, PrefChosen, PrefWritten DEF SameWork
<1>8. Quiet'
  BY <1>1, <1>7, ThreadsApart, StaysQuiet
<1>9. CASE ChoosePref("ui")
  <2>1. n.todo = w.todo /\ n.file = "moaWallet" /\ prefs' = prefs
    BY <1>6, <1>9, PrefChosen DEF getPrefName
  <2> QED
    BY <1>6, <1>7, <1>8, <2>1 DEF Keeping, Agree, OpenAll
<1>10. CASE WritePref("ui")
  <2>1. /\ n.file = NoFile /\ w.file = "moaWallet" /\ Head(w.todo) \in ToSet(Copied)
        /\ ToSet(w.todo) = ToSet(n.todo) \cup {Head(w.todo)}
        /\ \A f \in Files, i \in Items :
              prefs'[f][i] = IF f = w.file /\ i = Head(w.todo) THEN w.values[i] ELSE prefs[f][i]
    BY <1>6, <1>10, PrefWritten, FileNamed DEF CopyOps
  <2>2. \A i \in Items : prefs'["tempWallet"][i] = temp[i]
    BY <2>1, VersionListed
  <2>3. \A i \in Items : prefs'["moaWallet"][i] = IF i = Head(w.todo) THEN w.values[i] ELSE moa[i]
    BY <2>1, VersionListed
  <2>4. \A i \in {"Version.Info", "OS.Info"} :
           prefs'["moaWallet"][i] = prefs'["tempWallet"][i]
    BY <1>6, <2>1, <2>2, <2>3, VersionListed DEF Agree
  <2>5. \A v \in history.kept : Opens(v.psw, v.key, prefs'["tempWallet"])
    BY <1>6, <2>2, OpensAlike DEF OpenAll
  <2>6. \A i \in ToSet(Copied) :
           /\ n.values[i] = prefs'["tempWallet"][i]
           /\ i \in ToSet(n.todo) \/ prefs'["moaWallet"][i] = prefs'["tempWallet"][i]
    BY <1>6, <1>7, <2>1, <2>2, <2>3, VersionListed
  <2> QED
    BY <1>6, <1>7, <1>8, <2>1, <2>4, <2>5, <2>6 DEF Keeping, Agree, OpenAll
<1> QED
  BY <1>4, <1>9, <1>10

LEMMA KeepingByCalls ==
    ASSUME Typed, SmallCalls \/ WorkCalls
    PROVE  Keeping'
<1> USE DEF Threads
<1>1. CASE updateWallet
  <2>1. /\ WorkCalls /\ Call /\ Called(TakenInHand) /\ isPswInitMode' = TRUE
        /\ Does("ui", [Idle EXCEPT !.op = "getTemp", !.todo = Copied])
        /\ UNCHANGED <<prefs, jobs>>
    BY <1>1 DEF updateWallet, WorkCalls
  <2>2. history'.kept = TakenInHand
    BY <2>1, CallTyped
  <2>3. thread'["ui"].op = "getTemp" /\ thread'["ui"].todo = Copied
        /\ thread'["bridge"] = thread["bridge"]
    <3> DEFINE n == [Idle EXCEPT !.op = "getTemp", !.todo = Copied]
    <3>1. n.op = "getTemp" /\ n.todo = Copied
      BY DEF Idle
    <3>2. Does("ui", n)
      BY <2>1
    <3> HIDE DEF n
    <3> QED
      BY <3>1, <3>2, ThreadsApart
  <2>4. ASSUME TakenInHand # {}
        PROVE  Quiet /\ Agree
    BY <2>4 DEF TakenInHand, Agree
  <2>5. \A w \in TakenInHand : Opens(w.psw, w.key, prefs["tempWallet"])
    BY DEF TakenInHand
  <2> QED
    BY <2>1, <2>2, <2>3, <2>4, <2>5, StaysQuiet DEF Keeping, Agree, OpenAll
<1>2. CASE ~updateWallet
  <2>1. Call /\ Called({})
    BY <1>2, WorkStarted
    DEF SmallCalls, create, generateSignedTransaction, removeWallet, setPswInitMode
  <2>2. history'.kept = {}
    BY <2>1, CallTyped
  <2> QED
    BY <2>2 DEF Keeping
<1> QED
  BY <1>1, <1>2

LEMMA KeepingByUi ==
    ASSUME Typed, Keeping, history.kept # {}, UiSteps
    PROVE  Keeping'
<1> USE DEF Threads
<1> DEFINE w == thread["ui"]
           n == thread'["ui"]
           moa == prefs["moaWallet"]
           temp == prefs["tempWallet"]
<1>1. Quiet /\ w.op \in {"getTemp", "updateWallet", "removeTemp", "idle", "setContext"}
  BY DEF Keeping
<1>2. history'.kept = history.kept /\ Quiet'
  BY <1>1, UiStepTaken, UiTyped, StaysQuiet
<1>3. GetPref \/ GotTempWallet \/ WalletUpdated \/ TempWalletRemoved \/ Returned
  BY <1>1 DEF UiSteps, onLibRestoreCompleted, SetPassword, save, OwnFile,
     DecryptBackUp, SaveSalt, EncryptBackUp, BackUpGenerated, BackUpReturned, At
<1>4. CASE GetPref
  <2>1. /\ w.op = "getTemp" /\ n.op = "getTemp"
        /\ ToSet(w.todo) = ToSet(n.todo) \cup {Head(w.todo)}
        /\ \A i \in Items : n.values[i] = IF i = Head(w.todo) THEN File[i] ELSE w.values[i]
        /\ UNCHANGED <<prefs, isPswInitMode>>
    BY <1>4, PrefGot
  <2>2. /\ isPswInitMode /\ Agree /\ OpenAll(temp) /\ File = temp
        /\ \A i \in ToSet(Copied) : i \in ToSet(w.todo) \/ w.values[i] = temp[i]
    BY <2>1 DEF Keeping, File, getPrefName
  <2>3. \A i \in ToSet(Copied) : i \in ToSet(n.todo) \/ n.values[i] = temp[i]
    BY <2>1, <2>2, VersionListed
  <2> QED
    BY <1>2, <2>1, <2>2, <2>3 DEF Keeping, Agree, OpenAll
<1>5. CASE GotTempWallet
  <2>1. /\ w.op = "getTemp" /\ w.todo = <<>> /\ isPswInitMode' = FALSE /\ prefs' = prefs
        /\ n.op = "updateWallet" /\ n.todo = Copied /\ n.file = NoFile /\ n.values = w.values
    BY <1>5, TempWalletGot DEF At
  <2>2. Agree /\ OpenAll(temp) /\ \A i \in ToSet(Copied) : w.values[i] = temp[i]
    BY <2>1, VersionListed DEF Keeping
  <2> QED
    BY <1>2, <2>1, <2>2 DEF Keeping, Agree, OpenAll
<1>6. CASE WalletUpdated
  <2>1. /\ w.op = "updateWallet" /\ w.todo = <<>> /\ n.op = "removeTemp"
        /\ prefs'["moaWallet"] = moa
    BY <1>6, ThreadsApart DEF WalletUpdated, At, Idle
  <2>2. Agree /\ OpenAll(temp) /\ \A i \in ToSet(Copied) : moa[i] = temp[i]
    BY <2>1, VersionListed DEF Keeping
  <2>3. \A i \in Items \ {"Properties"} : temp[i] = moa[i]
    BY <2>2, VersionListed DEF Agree
  <2>4. OpenAll(moa)
    BY <2>2, <2>3, OpensAlike DEF OpenAll
  <2> QED
    BY <1>2, <2>1, <2>4 DEF Keeping, OpenAll
<1>7. CASE TempWalletRemoved \/ Returned
  <2>1. n = Idle /\ prefs' = prefs /\ w.op \notin CopyOps
    BY <1>7, ThreadsApart DEF TempWalletRemoved, Returned, At, CopyOps
  <2>2. OpenAll(temp) \/ OpenAll(moa)
    BY <2>1 DEF Keeping, CopyOps
  <2> QED
    BY <1>2, <2>1, <2>2, IdleTyped DEF Keeping, OpenAll
<1> QED
  BY <1>3, <1>4, <1>5, <1>6, <1>7

LEMMA KeepingKept ==
    ASSUME Typed, Started, Keeping, [Next]_vars
    PROVE  Keeping'
<1>1. CASE SmallCalls \/ WorkCalls
  BY <1>1, KeepingByCalls
<1>2. CASE history.kept # {} /\ ((\E t \in Threads : ThreadSteps(t)) \/ UiSteps)
  BY <1>2, KeepingByThread, KeepingByUi
<1>3. CASE BridgeSteps
  <2>1. ~Quiet /\ history'.kept = history.kept
    BY <1>3, BridgeStepTaken
  <2> QED
    BY <2>1 DEF Keeping
<1>4. CASE history.kept = {} /\ ((\E t \in Threads : ThreadSteps(t)) \/ UiSteps)
  <2>1. ASSUME NEW t \in Threads, ThreadSteps(t)
        PROVE  history'.kept = history.kept
    BY <2>1, MACMade, PrefChosen, PrefWritten, PairSaved, WalletPrefSet, DataFormatted,
       ThrowsTyped DEF ThreadSteps
  <2>2. history'.kept = history.kept
    BY <1>4, <2>1, UiStepTaken
  <2> QED
    BY <1>4, <2>2 DEF Keeping
<1>5. CASE Crash
  <2>1. /\ thread' = NewProcess /\ jobs' = <<>> /\ prefs' = prefs /\ history'.kept = history.kept
    BY <1>5, CrashTyped DEF Crash
  <2>2. Quiet'
    BY <2>1, NewProcessTyped, IdleTyped DEF Quiet, Busy
  <2>3. ASSUME history.kept # {}
        PROVE  /\ thread'["ui"].op = "setContext" /\ thread'["ui"].todo = <<>>
               /\ OpenAll(prefs["tempWallet"]) \/ OpenAll(prefs["moaWallet"])
    <3>1. thread["ui"].op = "setContext" => thread["ui"].todo = <<>>
      BY <2>3 DEF Keeping
    <3>2. prefs["moaWallet"]["Version.Info"] # None
      BY <3>1, VersionListed DEF Started
    <3>3. OpenAll(prefs["tempWallet"]) \/ OpenAll(prefs["moaWallet"])
      BY <2>3 DEF Keeping
    <3> QED
      BY <2>1, <3>2, <3>3, NewProcessTyped DEF initProperties
  <2> QED
    BY <2>1, <2>2, <2>3 DEF Keeping, OpenAll
<1>6. CASE UNCHANGED vars
  BY <1>6 DEF vars, Keeping, Quiet, Busy, Agree, OpenAll
<1> QED
  BY <1>1, <1>2, <1>3, <1>4, <1>5, <1>6, StepsAre

LEMMA KeepingInit == Init => Keeping
BY DEF Init, Keeping, NoHistory

LEMMA AlwaysStarted == Spec => [](Typed /\ Started /\ Keeping)
BY TypedInit, TypedKept, StartedInit, StartedKept, KeepingInit, KeepingKept, PTL DEF Spec

\* A temporary wallet that updateWallet takes in hand with the bridge quiet,
\* and with the version and the system of the device's file, opens under its
\* password in one of the two files from then on, until the next call: while
\* its preferences are read one by one, while they are written, when the
\* temporary file is cleared, and after the process ended anywhere in between.
THEOREM AndroidUpdateKeepsWallet == Spec => []UpdateKeepsWallet
<1>1. Keeping => UpdateKeepsWallet
  <2> SUFFICES ASSUME Keeping, NEW w \in history.kept
               PROVE  \E name \in Files : Opens(w.psw, w.key, prefs[name])
    BY DEF UpdateKeepsWallet
  <2>1. OpenAll(prefs["tempWallet"]) \/ OpenAll(prefs["moaWallet"])
    BY DEF Keeping
  <2> QED
    BY <2>1, VersionListed DEF OpenAll
<1> QED
  BY <1>1, AlwaysStarted, PTL

-----------------------------------------------------------------------------
(* Every MAC is of a whole wallet                                            *)

LEMMA GoodLater ==
    ASSUME NEW d \in Nat, NEW e \in Nat, d <= e
    PROVE  /\ \A m : GoodMAC(m, d) => GoodMAC(m, e)
           /\ \A w : GoodPair(w, d) => GoodPair(w, e)
           /\ \A b : GoodBackUp(b, d) => GoodBackUp(b, e)
BY DEF GoodMAC, GoodPair, GoodBackUp

\* A thread with nothing at stake but the MAC it may have.
LEMMA NothingAtStake ==
    ASSUME NEW w, w.file = NoFile, w.op \notin WithPair \cup WithBackUp \cup Saves,
           NEW d, NEW mode, NEW psw, NEW salt, GoodMAC(w.values["MAC.Data"], d)
    PROVE  WorkGood(w, d, mode, psw, salt)
BY DEF WorkGood, WithPair, WithBackUp, Saves

LEMMA IdleGood == \A d, mode, psw, salt : WorkGood(Idle, d, mode, psw, salt)
<1>1. \A d : GoodMAC(Idle.values["MAC.Data"], d)
  BY IdleTyped, NoValuesTyped, ItemsNamed DEF GoodMAC, ItemNames
<1> QED
  BY <1>1, IdleTyped, NothingAtStake DEF WithPair, WithBackUp, Saves

LEMMA KeysAre == Typed => drawn.keys \in Nat
BY DEF Typed, RestTyped, DrawnTyped

\* The state after a step of thread t when the other one is idle.
LEMMA OneWorks ==
    ASSUME Typed, WorksGood, drawn'.keys \in Nat, drawn.keys <= drawn'.keys,
           NEW t \in Threads, Does(t, thread'[t]),
           \A u \in Threads \ {t} : ~Busy(u),
           WorkGood(thread'[t], drawn'.keys, isPswInitMode', password', File'["Salt.Value"])
    PROVE  WorksGood'
<1>1. \A u \in Threads \ {t} : thread'[u] = thread[u]
  BY ThreadsApart
<1>2. ~Busy("ui")' \/ ~Busy("bridge")'
  BY <1>1 DEF Busy, Threads
<1>3. ASSUME NEW u \in Threads \ {t}
      PROVE  WorkGood(thread'[u], drawn'.keys, isPswInitMode', password', File'["Salt.Value"])
  <2>1. GoodMAC(thread[u].values["MAC.Data"], drawn.keys)
    BY DEF WorksGood, WorkGood
  <2>2. GoodMAC(thread[u].values["MAC.Data"], drawn'.keys)
    BY <2>1, KeysAre, GoodLater
  <2>3. thread[u].op = "idle" /\ thread[u].file = NoFile
    BY WorksTyped, NothingToDo
    DEF Busy, WorkTyped, TodoOK, PropertyOps, Saves, SaltOps, CopyOps
  <2> QED
    BY <1>1, <2>2, <2>3, NothingAtStake DEF WithPair, WithBackUp, Saves
<1> QED
  BY <1>2, <1>3 DEF WorksGood

LEMMA BusyAlone ==
    ASSUME WorksGood, NEW t \in Threads, Busy(t)
    PROVE  /\ \A u \in Threads \ {t} : ~Busy(u)
           /\ WorkGood(thread[t], drawn.keys, isPswInitMode, password, File["Salt.Value"])
BY DEF WorksGood, Threads

\* With both threads idle and left alone.
LEMMA AllIdle ==
    ASSUME Typed, WorksGood, ~Busy("ui"), ~Busy("bridge"), thread' = thread,
           drawn'.keys = drawn.keys
    PROVE  WorksGood'
<1> SUFFICES ASSUME NEW u \in Threads
             PROVE  WorkGood(thread[u], drawn.keys, isPswInitMode', password', File'["Salt.Value"])
  BY DEF WorksGood, Busy
<1>1. GoodMAC(thread[u].values["MAC.Data"], drawn.keys)
  BY DEF WorksGood, WorkGood
<1>2. thread[u].op = "idle" /\ thread[u].file = NoFile
  BY WorksTyped, NothingToDo
  DEF Busy, Threads, WorkTyped, TodoOK, PropertyOps, Saves, SaltOps, CopyOps
<1> QED
  BY <1>1, <1>2, NothingAtStake DEF WithPair, WithBackUp, Saves

LEMMA ItemsOfMAC ==
    /\ {"Ciphered.Data", "Wallet.PublicKey", "Wallet.Addr", "Salt.Value", "MAC.Data"} \subseteq Items
    /\ \A psw, f : LET m == MACData(psw, f) IN
          /\ m # None /\ m.psw = psw
          /\ m.of["Ciphered.Data"] = f["Ciphered.Data"]
          /\ m.of["Wallet.PublicKey"] = f["Wallet.PublicKey"]
          /\ m.of["Wallet.Addr"] = f["Wallet.Addr"]
          /\ m.of["Salt.Value"] = f["Salt.Value"]
<1>1. {"Ciphered.Data", "Wallet.PublicKey", "Wallet.Addr", "Salt.Value", "MAC.Data"} \subseteq Items
  BY ItemsNamed DEF ItemNames
<1> QED
  BY <1>1 DEF MACData, None

\* The MACs are as they were when no item of that name is written.
LEMMA FilesFrame ==
    ASSUME Typed, FilesGood, drawn'.keys \in Nat, drawn.keys <= drawn'.keys,
           \A n \in Files : prefs'[n]["MAC.Data"] \in {prefs[n]["MAC.Data"], None}
    PROVE  FilesGood'
<1> SUFFICES ASSUME NEW n \in Files
             PROVE  GoodMAC(prefs'[n]["MAC.Data"], drawn'.keys)
  BY DEF FilesGood
<1>1. GoodMAC(prefs[n]["MAC.Data"], drawn.keys)
  BY DEF FilesGood
<1>2. GoodMAC(prefs[n]["MAC.Data"], drawn'.keys)
  BY <1>1, KeysAre, GoodLater
<1>3. GoodMAC(None, drawn'.keys)
  BY DEF GoodMAC
<1> QED
  BY <1>2, <1>3

LEMMA ServerFrame ==
    ASSUME Typed, ServerGood, server' = server, drawn'.keys \in Nat, drawn.keys <= drawn'.keys
    PROVE  ServerGood'
BY GoodLater, KeysAre DEF ServerGood

\* With the temporary file cleared, or the items of a file removed.
LEMMA FilesCleared ==
    ASSUME Typed
    PROVE  /\ prefs' = [prefs EXCEPT !["tempWallet"] = NoValues] =>
                \A n \in Files : prefs'[n]["MAC.Data"] \in {prefs[n]["MAC.Data"], None}
           /\ removeWallet =>
                \A n \in Files : prefs'[n]["MAC.Data"] \in {prefs[n]["MAC.Data"], None}
<1>1. "MAC.Data" \in Items /\ NoValues["MAC.Data"] = None
  BY ItemsOfMAC, NoValuesTyped
<1>2. "MAC.Data" \in ToSet(Required) \ {"OS.Info"}
  BY ItemsNamed DEF ItemNames
<1> QED
  BY <1>1, <1>2, FileIs DEF removeWallet, Typed, PrefsTyped

LEMMA BackUpGood ==
    ASSUME NEW d, NEW psw, NEW salt, NEW k \in 0 .. d
    PROVE  GoodBackUp(RestoreData(psw, salt, Prk(k), Puk(k)), d)
<1>1. LET b == RestoreData(psw, salt, Prk(k), Puk(k)) IN b.psw = psw /\ b.salt = salt
  BY DEF RestoreData
<1> QED
  BY <1>1 DEF GoodBackUp

LEMMA BackUpHas ==
    ASSUME NEW msg, NEW d, GoodBackUp(msg, d)
    PROVE  \E k \in 0 .. d : /\ msg.prk = Encrypt(msg.psw, msg.salt, Prk(k))
                             /\ msg.puk = Encrypt(msg.psw, msg.salt, Puk(k))
<1>1. PICK k \in 0 .. d : msg = RestoreData(msg.psw, msg.salt, Prk(k), Puk(k))
  BY DEF GoodBackUp
<1>2. \A psw, s, prk, pk : /\ RestoreData(psw, s, prk, pk).prk = Encrypt(psw, s, prk)
                           /\ RestoreData(psw, s, prk, pk).puk = Encrypt(psw, s, pk)
  BY DEF RestoreData
<1> QED
  BY <1>1, <1>2

LEMMA DecryptGives == \A psw, salt, data : Decrypt(psw, salt, Encrypt(psw, salt, data)) = data
BY DEF Decrypt, Encrypt

LEMMA GoodByCalls ==
    ASSUME Typed, FilesGood, ServerGood, WorksGood, ~Busy("bridge"), SmallCalls \/ WorkCalls
    PROVE  FilesGood' /\ ServerGood' /\ WorksGood'
<1> USE DEF Threads
<1>1. CASE SmallCalls
  <2>1. /\ ~Busy("ui") /\ UNCHANGED <<thread, server, drawn>>
        /\ prefs' = prefs \/ removeWallet
    BY <1>1 DEF SmallCalls, create, generateSignedTransaction, removeWallet, setPswInitMode, Call
  <2> QED
    BY <2>1, KeysAre, AllIdle, FilesFrame, FilesCleared, ServerFrame
<1>2. CASE WorkCalls
  <2> DEFINE n == thread'["ui"]
  <2>1. /\ Call /\ n.file = NoFile /\ n.values["MAC.Data"] = None /\ server' = server
        /\ drawn'.keys = drawn.keys /\ Does("ui", n)
        /\ prefs' # prefs => removeTempWallet
        /\ \/ /\ n.op = "restore" /\ server # None /\ n.msg = server /\ n.msg.psw = n.psw
              /\ n.todo # <<>> /\ n.values["Salt.Value"] = n.msg.salt
           \/ n.op = "init" /\ server # None /\ n.msg = server
           \/ n.op \in {"removeTemp", "getSalt", "getTemp"}
    BY <1>2, WorkStarted
  <2>2. FilesGood' /\ ServerGood'
    <3>1. removeTempWallet => prefs' = [prefs EXCEPT !["tempWallet"] = NoValues]
      BY DEF removeTempWallet
    <3> QED
      BY <2>1, <3>1, KeysAre, FilesFrame, FilesCleared, ServerFrame
  <2>3. GoodMAC(n.values["MAC.Data"], drawn'.keys)
    BY <2>1 DEF GoodMAC
  <2>4. WorkGood(n, drawn'.keys, isPswInitMode', password', File'["Salt.Value"])
    <3>1. CASE n.op \in {"restore", "init"}
      <4>1. GoodBackUp(n.msg, drawn'.keys)
        BY <2>1, <3>1 DEF ServerGood
      <4> HIDE DEF n
      <4> QED
        BY <2>1, <2>3, <3>1, <4>1 DEF WorkGood, WithPair, Saves, SaltToBe, SaltOps
    <3>2. CASE n.op \in {"removeTemp", "getSalt", "getTemp"}
      BY <2>1, <2>3, <3>2, NothingAtStake DEF WithPair, WithBackUp, Saves
    <3> QED
      BY <2>1, <3>1, <3>2
  <2>5. \A u \in Threads \ {"ui"} : ~Busy(u)
    OBVIOUS
  <2> QED
    BY <2>1, <2>2, <2>4, <2>5, KeysAre, OneWorks
<1> QED
  BY <1>1, <1>2

LEMMA GoodByMAC ==
    ASSUME Typed, FilesGood, ServerGood, WorksGood, NEW t \in Threads, generateMACData(t)
    PROVE  FilesGood' /\ ServerGood' /\ WorksGood'
<1> DEFINE w == thread[t]
           n == thread'[t]
           salt == File["Salt.Value"]
<1>1. /\ SameWork(n, w) /\ n.todo = w.todo /\ n.file = w.file /\ Does(t, n)
      /\ w.op \in Saves /\ w.todo # <<>>
      /\ n.values["MAC.Data"] = MACData(password, Target(w.values))
      /\ \A i \in Items \ {"MAC.Data"} : n.values[i] = w.values[i]
      /\ UNCHANGED <<prefs, isPswInitMode, password, server, drawn>>
  BY MACMade
<1>2. Busy(t)
  BY <1>1 DEF Busy, Saves
<1>3. /\ \A u \in Threads \ {t} : ~Busy(u)
      /\ WorkGood(w, drawn.keys, isPswInitMode, password, salt)
  BY <1>2, BusyAlone
<1>4. PICK k \in 0 .. drawn.keys :
         /\ w.values["Ciphered.Data"] = Encrypt(password, salt, Prk(k))
         /\ w.values["Wallet.PublicKey"] = Puk(k)
         /\ w.values["Wallet.Addr"] = generateAddress(Puk(k))
  BY <1>1, <1>3 DEF WorkGood, GoodValues, SaltToBe, SaltOps, Saves
<1>5. LET target == Target(w.values)
      IN  /\ target["Ciphered.Data"] = Encrypt(password, salt, Prk(k))
          /\ target["Wallet.PublicKey"] = Puk(k)
          /\ target["Wallet.Addr"] = generateAddress(Puk(k))
          /\ target["Salt.Value"] = salt
  BY <1>4, FileIs, ItemsOfMAC DEF Target
<1>6. GoodMAC(n.values["MAC.Data"], drawn.keys)
  <2> DEFINE m == MACData(password, Target(w.values))
  <2>1. /\ m.psw = password /\ m.of["Salt.Value"] = salt
        /\ m.of["Ciphered.Data"] = Encrypt(password, salt, Prk(k))
        /\ m.of["Wallet.PublicKey"] = Puk(k)
        /\ m.of["Wallet.Addr"] = generateAddress(Puk(k))
    BY <1>5, ItemsOfMAC
  <2> HIDE DEF m
  <2>2. GoodMAC(m, drawn.keys)
    BY <2>1 DEF GoodMAC
  <2> QED
    BY <1>1, <2>2 DEF m
<1>7. GoodValues(n.values, password, salt, drawn.keys)
  BY <1>1, <1>4, ItemsOfMAC DEF GoodValues
<1>8. WorkGood(n, drawn.keys, isPswInitMode, password, salt)
  <2>1. SaltToBe(n, salt) = salt
    BY <1>1 DEF SaltToBe, SameWork, SaltOps, Saves
  <2> HIDE DEF n
  <2> QED
    BY <1>1, <1>3, <1>6, <1>7, <2>1
    DEF WorkGood, SameWork, Saves, WithPair, WithBackUp, GoodPair
<1>9. File' = File
  BY <1>1 DEF File
<1>10. WorksGood'
  BY <1>1, <1>3, <1>8, <1>9, KeysAre, OneWorks
<1> QED
  BY <1>1, <1>10, KeysAre, FilesFrame, ServerFrame

LEMMA GoodByChoice ==
    ASSUME Typed, FilesGood, ServerGood, WorksGood, NEW t \in Threads, ChoosePref(t)
    PROVE  FilesGood' /\ ServerGood' /\ WorksGood'
<1> DEFINE w == thread[t]
           n == thread'[t]
           salt == File["Salt.Value"]
<1>1. /\ SameWork(n, w) /\ n.todo = w.todo /\ n.values = w.values
      /\ n.file = getPrefName(isPswInitMode) /\ w.todo # <<>> /\ Does(t, n)
      /\ UNCHANGED <<prefs, isPswInitMode, password, server, drawn>>
  BY PrefChosen
<1>2. Busy(t)
  BY <1>1, WorksTyped DEF Busy, WorkTyped, TodoOK, PropertyOps, Saves, SaltOps, CopyOps
<1>3. /\ \A u \in Threads \ {t} : ~Busy(u)
      /\ WorkGood(w, drawn.keys, isPswInitMode, password, salt)
  BY <1>2, BusyAlone
<1>4. WorkGood(n, drawn.keys, isPswInitMode, password, salt)
  <2>1. SaltToBe(n, salt) = SaltToBe(w, salt)
    BY <1>1 DEF SaltToBe, SameWork
  <2> HIDE DEF n, w
  <2> QED
    BY <1>1, <1>3, <2>1 DEF WorkGood, SameWork, GoodPair
<1>5. File' = File
  BY <1>1 DEF File
<1>6. WorksGood'
  BY <1>1, <1>3, <1>4, <1>5, KeysAre, OneWorks
<1> QED
  BY <1>1, <1>6, KeysAre, FilesFrame, ServerFrame

LEMMA GoodByWrite ==
    ASSUME Typed, FilesGood, ServerGood, WorksGood, NEW t \in Threads, WritePref(t)
    PROVE  FilesGood' /\ ServerGood' /\ WorksGood'
<1> DEFINE w == thread[t]
           n == thread'[t]
           item == Head(w.todo)
           salt == File["Salt.Value"]
           saltNow == File'["Salt.Value"]
<1>1. /\ SameWork(n, w) /\ n.values = w.values /\ n.file = NoFile /\ w.file \in Files
      /\ w.todo # <<>> /\ Does(t, n)
      /\ w.op \in PropertyOps => item \in ToSet(Properties)
      /\ w.op \in Saves => item \in ToSet(Required)
      /\ w.op \in SaltOps => item = "Salt.Value"
      /\ w.op \in PropertyOps \cup Saves \cup SaltOps \cup CopyOps
      /\ \A f \in Files, i \in Items :
            prefs'[f][i] = IF f = w.file /\ i = item THEN w.values[i] ELSE prefs[f][i]
      /\ UNCHANGED <<isPswInitMode, password, server, drawn>>
  BY PrefWritten
<1>2. Busy(t)
  BY <1>1 DEF Busy, PropertyOps, Saves, SaltOps, CopyOps
<1>3. /\ \A u \in Threads \ {t} : ~Busy(u)
      /\ WorkGood(w, drawn.keys, isPswInitMode, password, salt)
  BY <1>2, BusyAlone
<1>4. w.file = getPrefName(isPswInitMode) /\ GoodMAC(w.values["MAC.Data"], drawn.keys)
  BY <1>1, <1>3, FileNamed DEF WorkGood
<1>5. FilesGood'
  BY <1>1, <1>4, ItemsOfMAC DEF FilesGood
<1>6. ServerGood'
  BY <1>1, KeysAre, ServerFrame
<1>7. saltNow = IF item = "Salt.Value" THEN w.values["Salt.Value"] ELSE salt
  BY <1>1, <1>4, ItemsOfMAC DEF File
<1>8. w.op \notin CopyOps => SaltToBe(n, saltNow) = SaltToBe(w, salt)
  <2>1. CASE w.op \in SaltOps
    BY <1>1, <1>7, <2>1 DEF SaltToBe, SameWork
  <2>2. CASE w.op \notin SaltOps \cup CopyOps
    <3>1. item # "Salt.Value"
      BY <1>1, <2>2, ItemsNamed
    <3> QED
      BY <1>1, <1>7, <2>2, <3>1 DEF SaltToBe, SameWork
  <2> QED
    BY <2>1, <2>2
<1>9. WorkGood(n, drawn.keys, isPswInitMode, password, saltNow)
  <2> HIDE DEF n, w, saltNow
  <2>1. CASE w.op \in CopyOps
    BY <1>1, <1>4, <2>1, NothingAtStake DEF SameWork, CopyOps, WithPair, WithBackUp, Saves
  <2>2. CASE w.op \notin CopyOps
    BY <1>1, <1>3, <1>4, <1>8, <2>2 DEF WorkGood, SameWork, GoodPair
  <2> QED
    BY <2>1, <2>2
<1>10. WorksGood'
  BY <1>1, <1>3, <1>9, KeysAre, OneWorks
<1> QED
  BY <1>5, <1>6, <1>10

LEMMA GoodBySave ==
    ASSUME Typed, FilesGood, ServerGood, WorksGood, NEW t \in Threads,
           savePair(t) \/ setWalletPref(t) \/ generateRestoreDataFormat(t)
    PROVE  FilesGood' /\ ServerGood' /\ WorksGood'
<1> DEFINE w == thread[t]
           n == thread'[t]
           salt == File["Salt.Value"]
<1>1. /\ UNCHANGED <<prefs, isPswInitMode, password, server>> /\ drawn'.keys = drawn.keys
      /\ Does(t, n) /\ w.todo = <<>> /\ w.op \in {"save", "keyStore", "saved"}
  BY PairSaved, WalletPrefSet, DataFormatted DEF At
<1>2. Busy(t) /\ File' = File
  BY <1>1 DEF Busy, File
<1>3. /\ \A u \in Threads \ {t} : ~Busy(u)
      /\ WorkGood(w, drawn.keys, isPswInitMode, password, salt)
  BY <1>2, BusyAlone
<1>4. GoodPair(w, drawn.keys) /\ GoodMAC(w.values["MAC.Data"], drawn.keys)
  BY <1>1, <1>3 DEF WorkGood, WithPair
<1>5. PICK k \in 0 .. drawn.keys : w.prk = Prk(k) /\ w.puk = Puk(k)
  BY <1>4 DEF GoodPair
<1>6. ASSUME n # Idle
      PROVE  WorkGood(n, drawn.keys, isPswInitMode, password, salt)
  <2>1. CASE savePair(t)
    <3> DEFINE v == WalletValues(password, SaltGot, w.prk, w.puk)
    <3>1. /\ n.op = "keyStore" /\ n.file = NoFile /\ n.prk = w.prk /\ n.puk = w.puk
          /\ \A i \in Items \ {"Salt.Value"} : n.values[i] = v[i]
          /\ SaltToBe(n, salt) = SaltGot
      BY <1>6, <2>1, PairSaved
    <3>2. /\ v["MAC.Data"] = None /\ v["Ciphered.Data"] = Encrypt(password, SaltGot, Prk(k))
          /\ v["Wallet.PublicKey"] = Puk(k) /\ v["Wallet.Addr"] = generateAddress(Puk(k))
      BY <1>5, WalletValuesTyped
    <3> HIDE DEF v
    <3>3. GoodValues(n.values, password, SaltToBe(n, salt), drawn.keys)
      BY <3>1, <3>2, ItemsOfMAC DEF GoodValues
    <3>4. GoodMAC(n.values["MAC.Data"], drawn.keys) /\ GoodPair(n, drawn.keys)
      BY <1>4, <3>1, <3>2, ItemsOfMAC DEF GoodMAC, GoodPair
    <3> HIDE DEF n
    <3> QED
      BY <3>1, <3>3, <3>4 DEF WorkGood, WithBackUp, Saves
  <2>2. CASE setWalletPref(t)
    <3>1. /\ n.op = "saved" /\ n.file = NoFile /\ n.values = w.values
          /\ n.prk = w.prk /\ n.puk = w.puk /\ w.op = "keyStore"
      BY <1>6, <2>2, WalletPrefSet DEF At
    <3>2. GoodValues(w.values, password, SaltToBe(w, salt), drawn.keys)
      BY <1>3, <3>1 DEF WorkGood
    <3>3. SaltToBe(w, salt) = salt /\ SaltToBe(n, salt) = salt
      BY <1>1, <3>1 DEF SaltToBe, SaltOps
    <3>4. GoodPair(n, drawn.keys)
      BY <1>4, <3>1 DEF GoodPair
    <3> HIDE DEF n, w
    <3> QED
      BY <1>4, <3>1, <3>2, <3>3, <3>4 DEF WorkGood, WithBackUp
  <2>3. CASE generateRestoreDataFormat(t)
    <3>1. /\ n.op = "formatted" /\ n.file = NoFile
          /\ n.values["MAC.Data"] = w.values["MAC.Data"]
          /\ n.msg = RestoreData(password, SaltGot, w.prk, w.puk)
      BY <2>3, DataFormatted
    <3>2. GoodBackUp(n.msg, drawn.keys)
      BY <1>5, <3>1, BackUpGood
    <3> HIDE DEF n, w
    <3> QED
      BY <1>4, <3>1, <3>2 DEF WorkGood, WithPair, Saves
  <2> QED
    BY <2>1, <2>2, <2>3
<1>7. WorksGood'
  BY <1>1, <1>2, <1>3, <1>6, IdleGood, KeysAre, OneWorks
<1> QED
  BY <1>1, <1>7, KeysAre, FilesFrame, ServerFrame

LEMMA GoodByUi ==
    ASSUME Typed, FilesGood, ServerGood, WorksGood, UiSteps, ~history'.foreign
    PROVE  FilesGood' /\ ServerGood' /\ WorksGood'
<1> DEFINE w == thread["ui"]
           n == thread'["ui"]
           d == drawn.keys
           salt == File["Salt.Value"]
<1>0. "ui" \in Threads /\ WorkTyped(w)
  BY WorksTyped DEF Threads
<1>1. /\ Does("ui", n) /\ Busy("ui") /\ n.file = NoFile /\ drawn'.keys = d
      /\ prefs' # prefs => WalletUpdated
  BY UiStepTaken
<1>2. /\ \A u \in Threads \ {"ui"} : ~Busy(u)
      /\ WorkGood(w, d, isPswInitMode, password, salt)
  BY <1>0, <1>1, BusyAlone
<1>3. GoodMAC(w.values["MAC.Data"], d)
  BY <1>2 DEF WorkGood
<1>4. FilesGood'
  <2>1. WalletUpdated => prefs' = [prefs EXCEPT !["tempWallet"] = NoValues]
    BY DEF WalletUpdated
  <2> QED
    BY <1>1, <2>1, KeysAre, FilesFrame, FilesCleared
<1>5. ServerGood'
  <2>1. CASE BackUpReturned
    <3>1. w.op = "backedUp" /\ server' \in {server, w.msg}
      BY <2>1 DEF BackUpReturned, At, Tells
    <3>2. GoodBackUp(w.msg, d)
      BY <1>2, <3>1 DEF WorkGood, WithBackUp
    <3> QED
      BY <1>1, <3>1, <3>2 DEF ServerGood
  <2>2. CASE ~BackUpReturned
    <3>1. server' = server
      BY <2>2 DEF UiSteps, Returned, TempWalletRemoved, onLibRestoreCompleted, SetPassword, save,
         OwnFile, DecryptBackUp, SaveSalt, EncryptBackUp, BackUpGenerated, GetPref,
         GotTempWallet, WalletUpdated
    <3> QED
      BY <1>1, <3>1, KeysAre, ServerFrame
  <2> QED
    BY <2>1, <2>2
<1>6. WorkGood(n, d, isPswInitMode', password', File'["Salt.Value"])
  <2>1. CASE Returned \/ TempWalletRemoved \/ onLibRestoreCompleted \/ BackUpReturned
    <3>1. n = Idle
      BY <1>0, <2>1, ThreadsApart
      DEF Returned, TempWalletRemoved, onLibRestoreCompleted, BackUpReturned
    <3> QED
      BY <3>1, IdleGood
  <2>2. CASE SetPassword
    <3>1. /\ At("ui", "restore") /\ password' = w.psw /\ UNCHANGED <<prefs, isPswInitMode>>
          /\ Does("ui", [w EXCEPT !.op = "restoring"])
      BY <2>2 DEF SetPassword
    <3>2. PICK op : op = "restoring"
      OBVIOUS
    <3>3. n.op = "restoring" /\ n.msg = w.msg /\ n.psw = w.psw /\ n.values = w.values
      <4>1. Does("ui", [w EXCEPT !.op = op]) /\ op \notin PropertyOps
        BY <3>1, <3>2 DEF PropertyOps
      <4> QED
        BY <1>0, <3>1, <3>2, <4>1, GoneOn
    <3>4. SaltToBe(w, salt) = salt /\ SaltToBe(n, salt) = salt /\ File' = File
      BY <3>1, <3>3 DEF SaltToBe, SaltOps, At, File
    <3>5. GoodBackUp(w.msg, d) /\ w.msg.psw = w.psw /\ salt = w.msg.salt
      BY <1>2, <3>1, <3>4 DEF WorkGood, WithBackUp, At
    <3> HIDE DEF n, w
    <3> QED
      BY <1>1, <1>3, <3>1, <3>3, <3>4, <3>5 DEF WorkGood, WithPair, Saves
  <2>3. CASE \E works \in BOOLEAN : save(works)
    <3>1. PICK works \in BOOLEAN : save(works)
      BY <2>3
    <3> DEFINE puk == Decrypt(w.psw, salt, w.msg.puk)
    <3>2. /\ w.op = "restoring" /\ UNCHANGED <<prefs, isPswInitMode>>
          /\ \/ n = Idle
             \/ /\ n.op = "restored" /\ password' = password
                /\ n.values["MAC.Data"] = None /\ n.values["Ciphered.Data"] = w.msg.prk
                /\ n.values["Wallet.PublicKey"] = puk
                /\ n.values["Wallet.Addr"] = generateAddress(puk)
      BY <3>1, SaveTaken DEF At
    <3>3. /\ GoodBackUp(w.msg, d) /\ w.msg.psw = w.psw /\ password = w.psw
          /\ salt = w.msg.salt /\ File' = File
      BY <1>2, <3>2 DEF WorkGood, WithBackUp, SaltToBe, SaltOps, File
    <3>4. PICK k \in 0 .. d : /\ w.msg.prk = Encrypt(w.psw, salt, Prk(k))
                              /\ w.msg.puk = Encrypt(w.psw, salt, Puk(k))
      BY <3>3, BackUpHas
    <3>5. puk = Puk(k)
      BY <3>4, DecryptGives
    <3>6. CASE n # Idle
      <4>1. GoodValues(n.values, password', salt, d) /\ GoodMAC(n.values["MAC.Data"], d)
        BY <3>2, <3>3, <3>4, <3>5, <3>6 DEF GoodValues, GoodMAC
      <4>2. n.op = "restored" /\ SaltToBe(n, salt) = salt
        BY <3>2, <3>6, IdleTyped DEF SaltToBe, SaltOps
      <4> HIDE DEF n
      <4> QED
        BY <1>1, <3>3, <4>1, <4>2 DEF WorkGood, WithPair, WithBackUp
    <3> QED
      BY <3>6, IdleGood
  <2>4. CASE OwnFile \/ BackUpGenerated
    <3>1. /\ n.op \in {"decrypt", "backedUp"} /\ w.op \in {"init", "formatted"}
          /\ n.msg = w.msg /\ n.values = w.values
      <4>1. CASE OwnFile
        <5>1. At("ui", "init") /\ Does("ui", [w EXCEPT !.op = "decrypt"])
          BY <4>1 DEF OwnFile
        <5>2. PICK op : op = "decrypt"
          OBVIOUS
        <5>3. Does("ui", [w EXCEPT !.op = op]) /\ op \notin PropertyOps
          BY <5>1, <5>2 DEF PropertyOps
        <5>4. n.op = op /\ n.msg = w.msg /\ n.values = w.values
          BY <1>0, <5>1, <5>3, GoneOn
        <5> QED
          BY <5>1, <5>2, <5>4 DEF At
      <4>2. CASE BackUpGenerated
        <5>1. At("ui", "formatted") /\ Does("ui", [w EXCEPT !.op = "backedUp"])
          BY <4>2 DEF BackUpGenerated
        <5>2. PICK op : op = "backedUp"
          OBVIOUS
        <5>3. Does("ui", [w EXCEPT !.op = op]) /\ op \notin PropertyOps
          BY <5>1, <5>2 DEF PropertyOps
        <5>4. n.op = op /\ n.msg = w.msg /\ n.values = w.values
          BY <1>0, <5>1, <5>3, GoneOn
        <5> QED
          BY <5>1, <5>2, <5>4 DEF At
      <4> QED
        BY <2>4, <4>1, <4>2
    <3>2. GoodBackUp(w.msg, d)
      BY <1>2, <3>1 DEF WorkGood, WithBackUp
    <3> HIDE DEF n, w
    <3> QED
      BY <1>1, <1>3, <3>1, <3>2 DEF WorkGood, WithPair, Saves
  <2>5. CASE DecryptBackUp
    <3> DEFINE prk == Decrypt(w.msg.psw, SaltGot, w.msg.prk)
               puk == Decrypt(w.msg.psw, SaltGot, w.msg.puk)
    <3>1. /\ w.op = "decrypt" /\ n.op = "decrypted" /\ n.prk = prk /\ n.puk = puk
          /\ n.values["MAC.Data"] = w.values["MAC.Data"]
          /\ history'.foreign = (history.foreign \/ SaltGot # w.msg.salt)
      BY <2>5, BackUpDecrypted DEF At
    <3>2. SaltGot = w.msg.salt /\ GoodBackUp(w.msg, d)
      BY <1>2, <3>1 DEF WorkGood, WithBackUp
    <3>3. PICK k \in 0 .. d : /\ w.msg.prk = Encrypt(w.msg.psw, w.msg.salt, Prk(k))
                              /\ w.msg.puk = Encrypt(w.msg.psw, w.msg.salt, Puk(k))
      BY <3>2, BackUpHas
    <3>4. prk = Prk(k) /\ puk = Puk(k)
      BY <3>2, <3>3, DecryptGives
    <3>5. GoodPair(n, d)
      BY <3>1, <3>4 DEF GoodPair
    <3> HIDE DEF n, w
    <3> QED
      BY <1>1, <1>3, <3>1, <3>5 DEF WorkGood, WithBackUp, Saves
  <2>6. CASE SaveSalt
    <3>1. /\ w.op = "decrypted"
          /\ \/ n = Idle
             \/ /\ n.op = "encrypt" /\ n.prk = w.prk /\ n.puk = w.puk
                /\ n.values["MAC.Data"] = w.values["MAC.Data"]
      BY <2>6, SaltSaved DEF At
    <3>2. GoodPair(w, d)
      BY <1>2, <3>1 DEF WorkGood, WithPair
    <3>3. CASE n # Idle
      <4>1. n.op = "encrypt" /\ GoodPair(n, d) /\ GoodMAC(n.values["MAC.Data"], d)
        BY <1>3, <3>1, <3>2, <3>3 DEF GoodPair
      <4> HIDE DEF n, w
      <4> QED
        BY <1>1, <4>1 DEF WorkGood, WithBackUp, Saves
    <3> QED
      BY <3>3, IdleGood
  <2>7. CASE EncryptBackUp
    <3>1. At("ui", "encrypt") /\ Does("ui", [w EXCEPT !.op = "save"])
      BY <2>7 DEF EncryptBackUp
    <3>2. PICK op : op = "save"
      OBVIOUS
    <3>3. n.op = "save" /\ n.prk = w.prk /\ n.puk = w.puk /\ n.values = w.values
      <4>1. Does("ui", [w EXCEPT !.op = op]) /\ op \notin PropertyOps
        BY <3>1, <3>2 DEF PropertyOps
      <4> QED
        BY <1>0, <3>1, <3>2, <4>1, GoneOn
    <3>4. GoodPair(n, d)
      BY <1>2, <3>1, <3>3 DEF WorkGood, WithPair, At, GoodPair
    <3> HIDE DEF n, w
    <3> QED
      BY <1>1, <1>3, <3>3, <3>4 DEF WorkGood, WithBackUp, Saves
  <2>8. CASE GetPref
    <3>1. /\ n.op = "getTemp"
          /\ \A i \in Items : n.values[i] = IF i = Head(w.todo) THEN File[i] ELSE w.values[i]
      BY <2>8, PrefGot
    <3>2. GoodMAC(File["MAC.Data"], d)
      BY FileIs DEF FilesGood, File
    <3>3. GoodMAC(n.values["MAC.Data"], d)
      BY <1>3, <3>1, <3>2, ItemsOfMAC
    <3> QED
      BY <1>1, <3>1, <3>3, NothingAtStake DEF WithPair, WithBackUp, Saves
  <2>9. CASE GotTempWallet
    <3>1. n.op = "updateWallet" /\ n.values = w.values
      BY <2>9, TempWalletGot
    <3> QED
      BY <1>1, <1>3, <3>1, NothingAtStake DEF WithPair, WithBackUp, Saves
  <2>10. CASE WalletUpdated
    <3> DEFINE work == [Idle EXCEPT !.op = "removeTemp"]
    <3>1. Does("ui", work)
      BY <2>10 DEF WalletUpdated
    <3>2. work.op = "removeTemp" /\ work.values = NoValues
      BY DEF Idle
    <3> HIDE DEF work
    <3>3. n = work
      BY <1>0, <3>1, ThreadsApart
    <3>4. GoodMAC(n.values["MAC.Data"], d)
      BY <3>2, <3>3, NoValuesTyped, ItemsOfMAC DEF GoodMAC
    <3> QED
      BY <1>1, <3>2, <3>3, <3>4, NothingAtStake DEF WithPair, WithBackUp, Saves
  <2> QED
    BY <2>1, <2>2, <2>3, <2>4, <2>5, <2>6, <2>7, <2>8, <2>9, <2>10 DEF UiSteps
<1>7. WorksGood'
  BY <1>0, <1>1, <1>2, <1>6, KeysAre, OneWorks
<1> QED
  BY <1>4, <1>5, <1>7

LEMMA GoodByBridge ==
    ASSUME Typed, FilesGood, ServerGood, WorksGood, BridgeSteps, ~history'.interleaved
    PROVE  FilesGood' /\ ServerGood' /\ WorksGood'
<1> DEFINE w == thread["bridge"]
           n == thread'["bridge"]
<1>0. "bridge" \in Threads /\ WorkTyped(w) /\ DrawnTyped' /\ drawn.keys \in Nat
      /\ prefs' = prefs /\ n.file = NoFile /\ drawn.keys <= drawn'.keys
  BY WorksTyped, BridgeStepTaken, KeysAre DEF Threads
<1>1. drawn'.keys \in Nat
  BY <1>0 DEF DrawnTyped
<1>2. FilesGood'
  BY <1>0, <1>1, FilesFrame
<1>3. CASE doGenerate
  <2>1. ~Busy("bridge") /\ server' = server
        /\ UNCHANGED <<prefs, isPswInitMode, password>>
    BY <1>3 DEF doGenerate
  <2>2. CASE Head(jobs).curve
    <3>1. /\ Does("bridge", n) /\ history' = [history EXCEPT !.interleaved = @ \/ Busy("ui")]
      <4> DEFINE work == [Idle EXCEPT !.op = "save", !.psw = Head(jobs).psw,
                                      !.prk = Prk(drawn'.keys), !.puk = Puk(drawn'.keys)]
      <4>1. Does("bridge", work) /\ history' = [history EXCEPT !.interleaved = @ \/ Busy("ui")]
        BY <1>3, <2>2 DEF doGenerate
      <4> HIDE DEF work
      <4> QED
        BY <1>0, <4>1, ThreadsApart
    <3>2. ~Busy("ui")
      BY <3>1 DEF Typed, HistoryTyped, HistoryFields, HistoryFlags
    <3>3. /\ n.op = "save" /\ n.prk = Prk(drawn'.keys) /\ n.puk = Puk(drawn'.keys)
          /\ n.values = NoValues
      <4> DEFINE work == [Idle EXCEPT !.op = "save", !.psw = Head(jobs).psw,
                                      !.prk = Prk(drawn'.keys), !.puk = Puk(drawn'.keys)]
      <4>1. Does("bridge", work)
        BY <1>3, <2>2 DEF doGenerate
      <4>2. /\ work.op = "save" /\ work.prk = Prk(drawn'.keys) /\ work.puk = Puk(drawn'.keys)
            /\ work.values = NoValues
        BY DEF Idle
      <4> HIDE DEF work
      <4> QED
        BY <1>0, <4>1, <4>2, ThreadsApart
    <3>4. GoodPair(n, drawn'.keys) /\ GoodMAC(n.values["MAC.Data"], drawn'.keys)
      BY <1>1, <3>3, NoValuesTyped, ItemsOfMAC DEF GoodPair, GoodMAC
    <3>5. WorkGood(n, drawn'.keys, isPswInitMode', password', File'["Salt.Value"])
      <4> HIDE DEF n
      <4> QED
        BY <1>0, <3>3, <3>4 DEF WorkGood, WithBackUp, Saves
    <3>6. \A u \in Threads \ {"bridge"} : ~Busy(u)
      BY <3>2 DEF Threads
    <3>7. WorksGood'
      BY <1>0, <1>1, <3>1, <3>5, <3>6, OneWorks
    <3> QED
      BY <1>0, <1>1, <1>2, <2>1, <3>7, ServerFrame
  <2>3. CASE ~Head(jobs).curve
    <3>1. UNCHANGED <<drawn, thread>>
      BY <1>3, <2>3 DEF doGenerate
    <3> QED
      BY <1>2, <2>1, <3>1 DEF ServerGood, WorksGood, Busy, File
  <2> QED
    BY <2>2, <2>3
<1>4. CASE onLibWalletCreated
  <2>1. /\ w.op = "formatted" /\ Busy("bridge") /\ server' \in {server, w.msg} /\ drawn' = drawn
    BY <1>4 DEF onLibWalletCreated, At, Busy, Tells
  <2>2. /\ WorkGood(w, drawn.keys, isPswInitMode, password, File["Salt.Value"])
        /\ \A u \in Threads \ {"bridge"} : ~Busy(u)
    BY <1>0, <2>1, BusyAlone
  <2>3. GoodBackUp(w.msg, drawn.keys) /\ GoodMAC(w.values["MAC.Data"], drawn.keys)
    BY <2>1, <2>2 DEF WorkGood, WithBackUp
  <2>4. ServerGood'
    BY <2>1, <2>3 DEF ServerGood
  <2>5. /\ Does("bridge", n)
        /\ WorkGood(n, drawn'.keys, isPswInitMode', password', File'["Salt.Value"])
    <3>1. CASE HasProperties(File)
      <4>1. At("bridge", "formatted") /\ Does("bridge", [w EXCEPT !.op = "told"])
        BY <1>4, <3>1 DEF onLibWalletCreated
      <4>2. PICK op : op = "told"
        OBVIOUS
      <4>3. Does("bridge", n) /\ n.op = "told" /\ n.values = w.values
        <5>1. Does("bridge", [w EXCEPT !.op = op]) /\ op \notin PropertyOps
          BY <4>1, <4>2 DEF PropertyOps
        <5> QED
          BY <1>0, <4>1, <4>2, <5>1, GoneOn
      <4> QED
        BY <1>0, <2>1, <2>3, <4>3, NothingAtStake DEF WithPair, WithBackUp, Saves
    <3>2. CASE ~HasProperties(File)
      <4>1. Does("bridge", Idle)
        BY <1>4, <3>2 DEF onLibWalletCreated, Throws
      <4> QED
        BY <1>0, <4>1, ThreadsApart, IdleGood
    <3> QED
      BY <3>1, <3>2
  <2>6. WorksGood'
    BY <1>0, <1>1, <2>2, <2>5, OneWorks
  <2> QED
    BY <1>2, <2>4, <2>6
<1>5. CASE onSuccessKeyPair
  <2>1. Busy("bridge") /\ Does("bridge", Idle) /\ server' = server
    BY <1>5 DEF onSuccessKeyPair, At, Busy
  <2>2. \A u \in Threads \ {"bridge"} : ~Busy(u)
    BY <1>0, <2>1, BusyAlone
  <2>3. WorksGood'
    BY <1>0, <1>1, <2>1, <2>2, ThreadsApart, IdleGood, OneWorks
  <2> QED
    BY <1>0, <1>1, <1>2, <2>1, <2>3, ServerFrame
<1>6. CASE onSuccessSign
  <2>1. /\ ~Busy("bridge") /\ UNCHANGED <<thread, server, drawn>>
        /\ history' = [history EXCEPT !.interleaved = @ \/ Busy("ui"),
                                      !.threw = @ \/ ~HasProperties(File)]
    BY <1>6 DEF onSuccessSign
  <2>2. ~Busy("ui")
    BY <2>1 DEF Typed, HistoryTyped, HistoryFields, HistoryFlags
  <2> QED
    BY <1>0, <1>1, <1>2, <2>1, <2>2, AllIdle, ServerFrame
<1> QED
  BY <1>3, <1>4, <1>5, <1>6 DEF BridgeSteps

LEMMA GoodByCrash ==
    ASSUME Typed, FilesGood, ServerGood, Crash
    PROVE  FilesGood' /\ ServerGood' /\ WorksGood'
<1>1. UNCHANGED <<prefs, server, drawn>> /\ thread' = NewProcess
  BY DEF Crash
<1>2. /\ thread'["ui"].op = "setContext" /\ thread'["ui"].file = NoFile
      /\ thread'["ui"].values["MAC.Data"] = None /\ thread'["bridge"] = Idle
  BY <1>1, NewProcessTyped, NoValuesTyped
<1>3. WorkGood(thread'["ui"], drawn'.keys, isPswInitMode', password', File'["Salt.Value"])
  <2>1. GoodMAC(thread'["ui"].values["MAC.Data"], drawn'.keys)
    BY <1>2 DEF GoodMAC
  <2> QED
    BY <1>2, <2>1, NothingAtStake DEF WithPair, WithBackUp, Saves
<1>4. WorksGood'
  BY <1>2, <1>3, IdleGood, IdleTyped DEF WorksGood, Threads, Busy
<1> QED
  BY <1>1, <1>4, KeysAre, FilesFrame, ServerFrame

\* What was out of order stays so.
LEMMA OrderlyBefore ==
    ASSUME Typed, [Next]_vars, Orderly'
    PROVE  Orderly /\ (SmallCalls \/ WorkCalls => ~Busy("bridge"))
<1>1. ASSUME NEW t \in Threads, ThreadSteps(t)
      PROVE  history'.interleaved = history.interleaved /\ history'.foreign = history.foreign
  BY <1>1, MACMade, PrefChosen, PrefWritten, PairSaved, WalletPrefSet, DataFormatted, ThrowsTyped
  DEF ThreadSteps
<1>2. ASSUME SmallCalls \/ WorkCalls
      PROVE  /\ history'.interleaved = (history.interleaved \/ Busy("bridge"))
             /\ history'.foreign = history.foreign
  <2>1. PICK kept : Call /\ Called(kept)
    BY <1>2, WorkStarted
    DEF SmallCalls, create, generateSignedTransaction, removeWallet, setPswInitMode
  <2> QED
    BY <2>1, CallTyped
<1>3. UNCHANGED vars => history' = history
  BY DEF vars
<1>4. HistoryTyped /\ HistoryTyped'
  BY TypedKept DEF Typed
<1>5. history.interleaved \in BOOLEAN /\ history.foreign \in BOOLEAN
  BY <1>4 DEF HistoryTyped, HistoryFlags
<1>6. (history.interleaved => history'.interleaved) /\ (history.foreign => history'.foreign)
  BY <1>1, <1>2, <1>3, StepsAre, UiStepTaken, BridgeStepTaken, CrashTyped
<1> QED
  BY <1>2, <1>5, <1>6 DEF Orderly

LEMMA AllGoodKept ==
    ASSUME Typed, AllGood, [Next]_vars
    PROVE  AllGood'
<1> SUFFICES ASSUME Orderly'
             PROVE  FilesGood' /\ ServerGood' /\ WorksGood'
  BY DEF AllGood
<1>1. FilesGood /\ ServerGood /\ WorksGood /\ (SmallCalls \/ WorkCalls => ~Busy("bridge"))
  BY OrderlyBefore DEF AllGood
<1>2. CASE \E t \in Threads : ThreadSteps(t)
  BY <1>1, <1>2, GoodByMAC, GoodByChoice, GoodByWrite, GoodBySave DEF ThreadSteps
<1>3. CASE SmallCalls \/ WorkCalls
  BY <1>1, <1>3, GoodByCalls
<1>4. CASE UiSteps
  BY <1>1, <1>4, GoodByUi DEF Orderly
<1>5. CASE BridgeSteps
  BY <1>1, <1>5, GoodByBridge DEF Orderly
<1>6. CASE Crash
  BY <1>1, <1>6, GoodByCrash
<1>7. CASE UNCHANGED vars
  BY <1>1, <1>7 DEF vars, FilesGood, ServerGood, WorksGood, Busy, File
<1> QED
  BY <1>2, <1>3, <1>4, <1>5, <1>6, <1>7, StepsAre

LEMMA StoredGood ==
    ASSUME NEW psw, NEW salt
    PROVE  GoodMAC(Stored(psw, salt, 0)["MAC.Data"], 0)
<1> DEFINE values == WalletValues(psw, salt, Prk(0), Puk(0))
           f == [i \in Items |-> CASE i = "Salt.Value" -> salt
                                   [] i \in ToSet(Properties) -> Constant
                                   [] OTHER -> values[i]]
<1>1. /\ values["Ciphered.Data"] = Encrypt(psw, salt, Prk(0))
      /\ values["Wallet.PublicKey"] = Puk(0)
      /\ values["Wallet.Addr"] = generateAddress(Puk(0))
  BY WalletValuesTyped
<1>2. /\ f["Ciphered.Data"] = values["Ciphered.Data"]
      /\ f["Wallet.PublicKey"] = values["Wallet.PublicKey"]
      /\ f["Wallet.Addr"] = values["Wallet.Addr"]
      /\ f["Salt.Value"] = salt
  <2> HIDE DEF values
  <2> QED
    BY ItemsOfMAC, ItemsNamed
<1>3. Stored(psw, salt, 0)["MAC.Data"] = MACData(psw, f)
  BY ItemsOfMAC DEF Stored
<1>4. GoodMAC(MACData(psw, f), 0)
  <2> HIDE DEF f, values
  <2> QED
    BY <1>1, <1>2, ItemsOfMAC DEF GoodMAC
<1> QED
  BY <1>3, <1>4

LEMMA AllGoodInit ==
    ASSUME Init
    PROVE  AllGood
<1>1. drawn.keys = 0 /\ thread = NewProcess
  BY DEF Init
<1>2. FilesGood
  <2>1. \A name \in Files : \/ prefs[name] = NoValues
                            \/ \E psw, salt : prefs[name] = Stored(psw, salt, 0)
    BY DEF Init
  <2>2. GoodMAC(NoValues["MAC.Data"], 0)
    BY NoValuesTyped, ItemsOfMAC DEF GoodMAC
  <2> QED
    BY <1>1, <2>1, <2>2, StoredGood DEF FilesGood
<1>3. ServerGood
  <2>1. PICK psw : server \in {None, RestoreData(psw, NewSalt(0), Prk(0), Puk(0))}
    BY DEF Init
  <2>2. GoodBackUp(RestoreData(psw, NewSalt(0), Prk(0), Puk(0)), 0)
    BY BackUpGood
  <2> QED
    BY <1>1, <2>1, <2>2 DEF ServerGood
<1>4. WorksGood
  <2>1. /\ thread["ui"].op = "setContext" /\ thread["ui"].file = NoFile
        /\ thread["ui"].values["MAC.Data"] = None /\ thread["bridge"] = Idle
    BY <1>1, NewProcessTyped, NoValuesTyped
  <2>2. GoodMAC(thread["ui"].values["MAC.Data"], drawn.keys)
    BY <2>1 DEF GoodMAC
  <2>3. WorkGood(thread["ui"], drawn.keys, isPswInitMode, password, File["Salt.Value"])
    BY <2>1, <2>2, NothingAtStake DEF WithPair, WithBackUp, Saves
  <2> QED
    BY <2>1, <2>3, IdleGood, IdleTyped DEF WorksGood, Busy, Threads
<1> QED
  BY <1>2, <1>3, <1>4 DEF AllGood

\* A file whose MAC a password verifies holds a key pair whose private key the
\* same password decrypts (setWalletPref, checkMACData), for any passwords and
\* any number of calls and ends of the process: unless the threads ran at once
\* or a reset was made with the backup of another wallet.
THEOREM AndroidWalletOpens == Spec => []WalletOpens
<1>1. AllGood => WalletOpens
  <2> SUFFICES ASSUME AllGood, Orderly, NEW name \in Files, NEW psw \in Psws \cup {NoPsw},
                      checkMACData(psw, prefs[name])
               PROVE  \E key \in 0 .. drawn.keys : Opens(psw, key, prefs[name])
    BY DEF WalletOpens, Orderly
  <2> DEFINE f == prefs[name]
             m == MACData(psw, f)
  <2>1. f["MAC.Data"] = m
    BY DEF checkMACData
  <2>2. /\ m # None /\ m.psw = psw /\ m.of["Ciphered.Data"] = f["Ciphered.Data"]
        /\ m.of["Wallet.PublicKey"] = f["Wallet.PublicKey"]
        /\ m.of["Wallet.Addr"] = f["Wallet.Addr"] /\ m.of["Salt.Value"] = f["Salt.Value"]
    BY ItemsOfMAC
  <2>3. GoodMAC(f["MAC.Data"], drawn.keys)
    BY DEF AllGood, FilesGood
  <2>4. PICK k \in 0 .. drawn.keys :
           /\ m.of["Ciphered.Data"] = Encrypt(m.psw, m.of["Salt.Value"], Prk(k))
           /\ m.of["Wallet.PublicKey"] = Puk(k)
           /\ m.of["Wallet.Addr"] = generateAddress(Puk(k))
    <3> HIDE DEF m, f
    <3> QED
      BY <2>1, <2>2, <2>3 DEF GoodMAC
  <2>5. f["Ciphered.Data"] = Encrypt(psw, f["Salt.Value"], Prk(k))
    BY <2>2, <2>4
  <2>6. Decrypt(psw, f["Salt.Value"], f["Ciphered.Data"]) = Prk(k)
    BY <2>5, DecryptGives
  <2>7. f["Wallet.PublicKey"] = Puk(k) /\ f["Wallet.Addr"] = generateAddress(Puk(k))
    BY <2>2, <2>4
  <2> QED
    BY <2>6, <2>7 DEF Opens
<1> QED
  BY <1>1, AlwaysTyped, AllGoodInit, AllGoodKept, PTL DEF Spec

-----------------------------------------------------------------------------
(* The wallet that create asked for                                          *)

LEMMA AskedWhenQuiet == Quiet => Asked
BY DEF Asked

\* A step that leaves the bridge and what was posted alone, when the other
\* thread is busy.
LEMMA AskedFrame ==
    ASSUME Asked, Busy("ui"), jobs' = jobs, thread'["bridge"] = thread["bridge"],
           history'.overlapped = history.overlapped
    PROVE  Asked'
BY DEF Asked, Quiet, Busy

LEMMA AskedByCalls ==
    ASSUME Typed, Asked, SmallCalls \/ WorkCalls
    PROVE  Asked'
<1> USE DEF Threads
<1>1. PICK kept : Call /\ Called(kept)
  BY WorkStarted
  DEF SmallCalls, create, generateSignedTransaction, removeWallet, setPswInitMode
<1>2. ~Busy("ui") /\ history'.overlapped = ~Quiet
  BY <1>1, CallTyped
<1>3. CASE ~Quiet
  BY <1>2, <1>3 DEF Asked
<1>4. CASE Quiet
  <2>1. jobs = <<>> /\ ~Busy("bridge")
    BY <1>4 DEF Quiet
  <2>2. ASSUME UNCHANGED thread, NEW job, jobs' = Append(jobs, job),
               job.job = "doGenerate" => password' = job.psw
        PROVE  Asked'
    <3>1. jobs' = <<job>>
      BY <2>1, <2>2
    <3>2. Len(jobs') = 1 /\ Head(jobs') = job
      BY <3>1
    <3> QED
      BY <1>2, <2>1, <2>2, <3>2 DEF Asked, Busy
  <2>3. ASSUME jobs' = jobs, thread'["bridge"] = thread["bridge"]
        PROVE  Asked'
    BY <1>4, <2>3 DEF Asked, Quiet, Busy
  <2>4. CASE \E psw \in Psws : create(psw)
    <3>1. PICK psw \in Psws : /\ jobs' = Append(jobs, [job |-> "doGenerate",
                                                      curve |-> HasProperties(File), psw |-> psw])
                             /\ password' = psw /\ UNCHANGED thread
      BY <2>4 DEF create
    <3> QED
      BY <2>2, <3>1
  <2>5. CASE \E psw \in Psws : generateSignedTransaction(psw)
    <3>1. UNCHANGED thread
      BY <2>5 DEF generateSignedTransaction
    <3>2. CASE jobs' # jobs
      <4>1. PICK prk : jobs' = Append(jobs, [job |-> "doSign", prk |-> prk])
        BY <2>5, <3>2 DEF generateSignedTransaction
      <4> QED
        BY <2>2, <3>1, <4>1
    <3> QED
      BY <2>3, <3>1, <3>2
  <2>6. CASE removeWallet \/ \E mode \in BOOLEAN : setPswInitMode(mode)
    BY <2>3, <2>6 DEF removeWallet, setPswInitMode
  <2>7. CASE WorkCalls
    BY <2>3, <2>7, WorkStarted, ThreadsApart
  <2> QED
    BY <2>4, <2>5, <2>6, <2>7 DEF SmallCalls
<1> QED
  BY <1>3, <1>4

LEMMA SavedItems ==
    /\ ToSet(Required) \ {"MAC.Data"}
         = {"Ciphered.Data", "Wallet.PublicKey", "Wallet.Addr", "OS.Info"}
    /\ ToSet(Required) \subseteq Items \ {"Salt.Value"} /\ "Salt.Value" \in Items
BY ItemsNamed DEF ItemNames

\* The MAC comes last, and alone.
LEMMA LastIsMAC ==
    ASSUME NEW todo, TodoOK("saved", todo), todo # <<>>
    PROVE  /\ Head(todo) = "MAC.Data" => ToSet(todo) = {"MAC.Data"} /\ Tail(todo) = <<>>
           /\ Head(todo) # "MAC.Data" => Tail(todo) # <<>>
<1>1. /\ todo \in Seq(Items) /\ "saved" \in Saves
      /\ \A i \in DOMAIN todo : (todo[i] = "MAC.Data" <=> i = Len(todo))
  BY DEF TodoOK, Saves
<1>2. /\ Head(todo) = todo[1] /\ Len(todo) \in Nat \ {0} /\ Tail(todo) \in Seq(Items)
      /\ Len(Tail(todo)) = Len(todo) - 1 /\ 1 \in DOMAIN todo
  BY <1>1, HeadAndTail
<1>3. Head(todo) = "MAC.Data" <=> Len(todo) = 1
  BY <1>1, <1>2
<1>4. Len(todo) = 1 <=> Tail(todo) = <<>>
  <2>1. Tail(todo) = <<>> <=> Len(Tail(todo)) = 0
    BY <1>2, EmptySeq
  <2> QED
    BY <1>2, <2>1
<1>5. Tail(todo) = <<>> => ToSet(todo) = {Head(todo)}
  <2>1. ToSet(todo) = ToSet(Tail(todo)) \cup {Head(todo)} /\ ToSet(<<>>) = {}
    BY <1>1, HeadOrTail, VersionListed
  <2> QED
    BY <2>1
<1> QED
  BY <1>3, <1>4, <1>5

\* How far a save is, phase by phase.
LEMMA SavedPhases ==
    ASSUME NEW w, NEW psw, NEW f
    PROVE  /\ w.op = "keyStore" =>
                 (SavedSoFar(w, psw, f) <=>
                    /\ SaltToBe(w, f["Salt.Value"]) # None /\ w.values["MAC.Data"] = None
                    /\ ValuesOf(w, psw, SaltToBe(w, f["Salt.Value"])))
           /\ w.op = "saved" /\ w.todo # <<>> => (SavedSoFar(w, psw, f) <=> Saving(w, psw, f))
           /\ w.op = "saved" /\ w.todo = <<>> => (SavedSoFar(w, psw, f) <=> HasSaved(w, psw, f))
           /\ w.op = "formatted" =>
                 (SavedSoFar(w, psw, f) <=>
                    /\ HasSaved(w, psw, f) /\ w.todo = <<>>
                    /\ w.msg = RestoreData(psw, f["Salt.Value"], w.prk, w.puk))
           /\ w.op \notin {"keyStore", "saved", "formatted"} => SavedSoFar(w, psw, f)
BY DEF SavedSoFar

LEMMA SavedByMAC ==
    ASSUME Typed, generateMACData("bridge"), SavedSoFar(thread["bridge"], password, File)
    PROVE  SavedSoFar(thread'["bridge"], password, File)
<1> DEFINE w == thread["bridge"]
           n == thread'["bridge"]
           m == MACData(password, Target(w.values))
<1>1. /\ SameWork(n, w) /\ n.todo = w.todo /\ n.file = w.file /\ n.values["MAC.Data"] = m
      /\ w.op \in Saves /\ w.todo # <<>> /\ Head(w.todo) = "MAC.Data"
      /\ \A i \in Items \ {"MAC.Data"} : n.values[i] = w.values[i]
      /\ "bridge" \in Threads
  BY MACMade DEF Threads
<1>2. w.op = "saved" /\ TodoOK("saved", w.todo)
  BY <1>1, WorksTyped DEF Saves, Ops, BridgeOps, WorkTyped
<1>3. ToSet(w.todo) = {"MAC.Data"}
  BY <1>1, <1>2, LastIsMAC
<1>4. /\ File["Salt.Value"] # None /\ ValuesOf(w, password, File["Salt.Value"])
      /\ \A i \in ToSet(Required) \ {"MAC.Data"} : File[i] = w.values[i]
  BY <1>1, <1>2, <1>3, SavedPhases DEF Saving
<1>5. \A i \in Items \ {"MAC.Data", "Properties"} : Target(w.values)[i] = File[i]
  BY <1>4, SavedItems, FileIs DEF Target
<1>6. m = MACData(password, File) /\ m # None
  <2>1. m = MACData(password, File)
    BY <1>5 DEF MACData
  <2> QED
    BY <2>1, ItemsOfMAC
<1>7. ValuesOf(n, password, File["Salt.Value"])
  BY <1>1, <1>4, SavedItems DEF ValuesOf, SameWork
<1>8. \A i \in ToSet(Required) \ {"MAC.Data"} : File[i] = n.values[i]
  BY <1>1, <1>4, SavedItems
<1>9. n.op = "saved" /\ n.todo # <<>> /\ Head(n.todo) = "MAC.Data" /\ n.values["MAC.Data"] = m
  BY <1>1, <1>2 DEF SameWork
<1>10. Saving(n, password, File)
  BY <1>4, <1>6, <1>7, <1>8, <1>9 DEF Saving
<1> QED
  BY <1>9, <1>10, SavedPhases

LEMMA SavedByChoice ==
    ASSUME Typed, ChoosePref("bridge"), SavedSoFar(thread["bridge"], password, File)
    PROVE  SavedSoFar(thread'["bridge"], password, File)
<1> DEFINE w == thread["bridge"]
           n == thread'["bridge"]
<1>1. /\ SameWork(n, w) /\ n.todo = w.todo /\ n.values = w.values /\ w.todo # <<>>
      /\ w.op \in Saves /\ Head(w.todo) = "MAC.Data" => w.values["MAC.Data"] # None
  BY PrefChosen DEF Threads
<1>2. \A salt : SaltToBe(n, salt) = SaltToBe(w, salt)
  BY <1>1 DEF SaltToBe, SameWork
<1>3. \A salt : ValuesOf(w, password, salt) => ValuesOf(n, password, salt)
  BY <1>1 DEF ValuesOf, SameWork
<1>4. HasSaved(w, password, File) => HasSaved(n, password, File)
  BY <1>1 DEF HasSaved, SameWork
<1>5. n.op = w.op /\ n.msg = w.msg /\ n.prk = w.prk /\ n.puk = w.puk
  BY <1>1 DEF SameWork
<1>6. CASE w.op = "keyStore"
  BY <1>1, <1>2, <1>3, <1>5, <1>6, SavedPhases
<1>7. CASE w.op = "saved"
  <2>1. Saving(w, password, File)
    BY <1>1, <1>7, SavedPhases
  <2>2. Saving(n, password, File)
    BY <1>1, <1>3, <1>7, <2>1 DEF Saving, Saves
  <2> QED
    BY <1>1, <1>5, <1>7, <2>2, SavedPhases
<1>8. CASE w.op = "formatted"
  BY <1>1, <1>4, <1>5, <1>8, SavedPhases
<1>9. CASE w.op \notin {"keyStore", "saved", "formatted"}
  BY <1>5, <1>9, SavedPhases
<1> QED
  BY <1>6, <1>7, <1>8, <1>9

\* The last write of a save is the MAC of what the others have written.
LEMMA SavedByWrite ==
    ASSUME Typed, WritePref("bridge"), SavedSoFar(thread["bridge"], password, File),
           thread["bridge"].file = getPrefName(isPswInitMode)
    PROVE  SavedSoFar(thread'["bridge"], password, File')
<1> DEFINE w == thread["bridge"]
           n == thread'["bridge"]
           item == Head(w.todo)
           saved == ToSet(Required) \ {"MAC.Data"}
<1>1. /\ SameWork(n, w) /\ n.todo = Tail(w.todo) /\ n.values = w.values /\ n.file = NoFile
      /\ w.file \in Files /\ w.file # NoFile /\ w.todo # <<>> /\ item \in Items
      /\ w.op \in Saves => item \in ToSet(Required)
      /\ w.op \in SaltOps => item = "Salt.Value"
      /\ w.op \in PropertyOps \cup Saves \cup SaltOps \cup CopyOps
      /\ ToSet(w.todo) = ToSet(n.todo) \cup {item}
      /\ \A f \in Files, i \in Items :
            prefs'[f][i] = IF f = w.file /\ i = item THEN w.values[i] ELSE prefs[f][i]
      /\ isPswInitMode' = isPswInitMode /\ "bridge" \in Threads
  BY PrefWritten, FileNamed DEF Threads
<1>2. \A i \in Items : File'[i] = IF i = item THEN w.values[i] ELSE File[i]
  BY <1>1 DEF File
<1>3. \A salt : ValuesOf(w, password, salt) => ValuesOf(n, password, salt)
  BY <1>1 DEF ValuesOf, SameWork
<1>4. w.op \in {"keyStore", "saved", "formatted"}
  BY <1>1, WorksTyped DEF Ops, BridgeOps, PropertyOps, Saves, SaltOps, CopyOps
<1>5. CASE w.op = "keyStore"
  <2>1. item = "Salt.Value"
    BY <1>1, <1>5 DEF SaltOps
  <2>2. File'["Salt.Value"] = w.values["Salt.Value"]
    BY <1>1, <1>2, <2>1
  <2>3. SaltToBe(n, File'["Salt.Value"]) = SaltToBe(w, File["Salt.Value"])
    BY <1>1, <1>5, <2>2 DEF SaltToBe, SaltOps, SameWork
  <2>4. SaltToBe(w, File["Salt.Value"]) # None /\ w.values["MAC.Data"] = None
        /\ ValuesOf(w, password, SaltToBe(w, File["Salt.Value"]))
    BY <1>5, SavedPhases
  <2>5. n.op = "keyStore"
    BY <1>1, <1>5 DEF SameWork
  <2>6. \A g : g["Salt.Value"] = File'["Salt.Value"] => SavedSoFar(n, password, g)
    BY <1>1, <1>3, <2>3, <2>4, <2>5, SavedPhases
  <2> QED
    BY <2>6
<1>6. CASE w.op = "saved"
  <2>1. item \in ToSet(Required) /\ TodoOK("saved", w.todo)
    BY <1>1, <1>6, WorksTyped DEF Saves, WorkTyped
  <2>2. File'["Salt.Value"] = File["Salt.Value"]
    BY <1>2, <2>1, SavedItems
  <2>3. /\ File["Salt.Value"] # None /\ ValuesOf(w, password, File["Salt.Value"])
        /\ \A i \in saved : i \in ToSet(w.todo) \/ File[i] = w.values[i]
        /\ w.values["MAC.Data"] # None =>
              item = "MAC.Data" /\ w.values["MAC.Data"] = MACData(password, File)
        /\ item = "MAC.Data" => w.values["MAC.Data"] # None
    <3>1. Saving(w, password, File)
      BY <1>1, <1>6, SavedPhases
    <3> QED
      BY <1>1, <3>1 DEF Saving
  <2>7. n.op = "saved" /\ n.values = w.values
    BY <1>1, <1>6 DEF SameWork
  <2>4. \A i \in saved : i \in ToSet(n.todo) \/ File'[i] = w.values[i]
    BY <1>1, <1>2, <2>3, SavedItems
  <2>5. CASE item # "MAC.Data"
    <3>1. n.todo # <<>> /\ w.values["MAC.Data"] = None
      BY <1>1, <2>1, <2>3, <2>5, LastIsMAC
    <3>2. ASSUME NEW g, g["Salt.Value"] = File'["Salt.Value"],
                 \A i \in saved : g[i] = File'[i]
          PROVE  Saving(n, password, g)
      BY <1>1, <1>3, <2>2, <2>3, <2>4, <2>7, <3>1, <3>2 DEF Saving
    <3>3. Saving(n, password, File')
      BY <3>2
    <3> QED
      BY <2>7, <3>1, <3>3, SavedPhases
  <2>6. CASE item = "MAC.Data"
    <3>1. n.todo = <<>> /\ ToSet(n.todo) = {}
      BY <1>1, <2>1, <2>6, LastIsMAC, VersionListed
    <3>2. MACData(password, File') = MACData(password, File)
      BY <1>2, <2>6 DEF MACData
    <3>3. File'["MAC.Data"] = MACData(password, File')
      BY <1>1, <1>2, <2>3, <2>6, <3>2
    <3>4. /\ File'["Wallet.Addr"] = generateAddress(w.puk)
          /\ File'["Wallet.PublicKey"] = w.puk
      BY <2>3, <2>4, <3>1, SavedItems, WalletValuesTyped DEF ValuesOf
    <3>5. HasSaved(n, password, File')
      BY <1>1, <2>2, <2>3, <3>3, <3>4 DEF HasSaved, SameWork
    <3> QED
      BY <2>7, <3>1, <3>5, SavedPhases
  <2> QED
    BY <2>5, <2>6
<1>7. CASE w.op = "formatted"
  BY <1>1, <1>7, SavedPhases
<1> QED
  BY <1>4, <1>5, <1>6, <1>7

LEMMA SavedBySave ==
    ASSUME Typed, savePair("bridge") \/ setWalletPref("bridge")
                  \/ generateRestoreDataFormat("bridge"),
           SavedSoFar(thread["bridge"], password, File), ~history'.failed
    PROVE  thread'["bridge"] = Idle \/ SavedSoFar(thread'["bridge"], password, File)
<1> DEFINE w == thread["bridge"]
           n == thread'["bridge"]
           salt == File["Salt.Value"]
<1>0. "bridge" \in Threads
  BY DEF Threads
<1>1. CASE savePair("bridge")
  <2> DEFINE v == WalletValues(password, SaltGot, w.prk, w.puk)
  <2> SUFFICES ASSUME n # Idle
               PROVE  SavedSoFar(n, password, File)
    OBVIOUS
  <2>1. /\ n.op = "keyStore" /\ n.prk = w.prk /\ n.puk = w.puk
        /\ \A i \in Items \ {"Salt.Value"} : n.values[i] = v[i]
        /\ SaltToBe(n, salt) = SaltGot /\ SaltGot # None
    BY <1>0, <1>1, PairSaved
  <2>2. ValuesOf(n, password, SaltToBe(n, salt))
    BY <2>1, SavedItems DEF ValuesOf
  <2>3. n.values["MAC.Data"] = None
    BY <2>1, WalletValuesTyped, ItemsOfMAC
  <2> QED
    BY <2>1, <2>2, <2>3, SavedPhases
<1>2. CASE setWalletPref("bridge")
  <2> SUFFICES ASSUME n # Idle
               PROVE  SavedSoFar(n, password, File)
    OBVIOUS
  <2>1. /\ n.op = "saved" /\ n.file = NoFile /\ n.values = w.values /\ n.prk = w.prk
        /\ n.puk = w.puk /\ n.todo = Required /\ At("bridge", "keyStore")
    BY <1>0, <1>2, WalletPrefSet
  <2>2. /\ SaltToBe(w, salt) = salt /\ salt # None /\ w.values["MAC.Data"] = None
        /\ ValuesOf(w, password, salt)
    BY <2>1, SavedPhases DEF SaltToBe, At
  <2>3. ValuesOf(n, password, salt) /\ Required # <<>> /\ Head(Required) # "MAC.Data"
    BY <2>1, <2>2 DEF ValuesOf, Required
  <2>4. Saving(n, password, File)
    BY <2>1, <2>2, <2>3 DEF Saving
  <2> QED
    BY <2>1, <2>3, <2>4, SavedPhases
<1>3. CASE generateRestoreDataFormat("bridge")
  <2>1. /\ At("bridge", "saved") /\ n.op = "formatted" /\ n.prk = w.prk /\ n.puk = w.puk
        /\ n.msg = RestoreData(password, SaltGot, w.prk, w.puk)
        /\ salt # None => n.todo = <<>> /\ SaltGot = salt
    BY <1>0, <1>3, DataFormatted
  <2>2. HasSaved(w, password, File) /\ salt # None
    BY <2>1, SavedPhases DEF HasSaved, At
  <2>3. HasSaved(n, password, File)
    BY <2>1, <2>2 DEF HasSaved
  <2> QED
    BY <2>1, <2>2, <2>3, SavedPhases
<1> QED
  BY <1>1, <1>2, <1>3

\* The bridge is on its way: what Asked says of it.
LEMMA AskedByWork ==
    ASSUME Typed, ~Busy("ui"), thread'["ui"] = thread["ui"], jobs' = <<>>,
           thread'["bridge"].file \in {NoFile, getPrefName(isPswInitMode)},
           UNCHANGED <<isPswInitMode, password>>,
           \/ ~Busy("bridge")'
           \/ /\ password = thread'["bridge"].psw
              /\ ~history'.failed => SavedSoFar(thread'["bridge"], password, File')
    PROVE  Asked'
BY DEF Asked, Quiet, Busy

LEMMA BridgeAsked ==
    ASSUME Asked, ~history.overlapped, Busy("bridge")
    PROVE  /\ ~Busy("ui") /\ jobs = <<>> /\ password = thread["bridge"].psw
           /\ thread["bridge"].file \in {NoFile, getPrefName(isPswInitMode)}
           /\ ~history.failed => SavedSoFar(thread["bridge"], password, File)
BY DEF Asked, Quiet

LEMMA AskedByBridgeThread ==
    ASSUME Typed, Asked, ~history.overlapped, ThreadSteps("bridge")
    PROVE  Asked'
<1> DEFINE w == thread["bridge"]
           n == thread'["bridge"]
<1>0. "bridge" \in Threads /\ "ui" \in Threads \ {"bridge"} /\ WorkTyped(w)
  BY WorksTyped DEF Threads
<1>1. Busy("bridge")
  <2>1. \A op \in Saves \cup PropertyOps \cup SaltOps \cup CopyOps : op # "idle"
    BY DEF Saves, PropertyOps, SaltOps, CopyOps
  <2>2. CASE ChoosePref("bridge")
    <3>1. w.todo # <<>>
      BY <1>0, <2>2, PrefChosen
    <3>2. TodoOK(w.op, w.todo)
      BY <1>0 DEF WorkTyped
    <3> QED
      BY <3>1, <3>2 DEF TodoOK, Busy, Saves, PropertyOps, SaltOps, CopyOps
  <2>3. CASE generateMACData("bridge") \/ WritePref("bridge")
    BY <1>0, <2>1, <2>3, MACMade, PrefWritten DEF Busy
  <2>4. CASE savePair("bridge") \/ setWalletPref("bridge") \/ generateRestoreDataFormat("bridge")
    BY <2>4 DEF savePair, setWalletPref, generateRestoreDataFormat, At, Busy
  <2> QED
    BY <2>2, <2>3, <2>4 DEF ThreadSteps
<1>2. /\ ~Busy("ui") /\ jobs = <<>> /\ password = w.psw
      /\ w.file \in {NoFile, getPrefName(isPswInitMode)}
      /\ ~history.failed => SavedSoFar(w, password, File)
  BY <1>1, BridgeAsked
<1>3. CASE generateMACData("bridge")
  <2>1. /\ n.psw = w.psw /\ n.file = w.file /\ Does("bridge", n)
        /\ UNCHANGED <<prefs, isPswInitMode, password, jobs, history>>
    BY <1>0, <1>3, MACMade DEF SameWork
  <2>2. ~history'.failed => SavedSoFar(n, password, File')
    BY <1>2, <1>3, <2>1, SavedByMAC DEF File
  <2> QED
    BY <1>0, <1>2, <2>1, <2>2, ThreadsApart, AskedByWork
<1>4. CASE ChoosePref("bridge")
  <2>1. /\ n.psw = w.psw /\ n.file = getPrefName(isPswInitMode) /\ Does("bridge", n)
        /\ UNCHANGED <<prefs, isPswInitMode, password, jobs, history>>
    BY <1>0, <1>4, PrefChosen DEF SameWork
  <2>2. ~history'.failed => SavedSoFar(n, password, File')
    BY <1>2, <1>4, <2>1, SavedByChoice DEF File
  <2> QED
    BY <1>0, <1>2, <2>1, <2>2, ThreadsApart, AskedByWork
<1>5. CASE WritePref("bridge")
  <2>1. /\ n.psw = w.psw /\ n.file = NoFile /\ Does("bridge", n)
        /\ UNCHANGED <<isPswInitMode, password, jobs, history>>
        /\ w.file \in Files
    BY <1>0, <1>5, PrefWritten DEF SameWork
  <2>2. ~history'.failed => SavedSoFar(n, password, File')
    BY <1>2, <1>5, <2>1, FileNamed, SavedByWrite
  <2> QED
    BY <1>0, <1>2, <2>1, <2>2, ThreadsApart, AskedByWork
<1>6. CASE savePair("bridge") \/ setWalletPref("bridge") \/ generateRestoreDataFormat("bridge")
  <2>1. /\ Does("bridge", n) /\ UNCHANGED <<prefs, isPswInitMode, password, jobs>>
        /\ n = Idle \/ (n.psw = w.psw /\ n.file = NoFile)
    BY <1>0, <1>6, PairSaved, WalletPrefSet, DataFormatted
  <2>2. history.failed => history'.failed
    <3>1. CASE savePair("bridge")
      BY <1>0, <3>1, PairSaved, ThrowsTyped
    <3>2. CASE setWalletPref("bridge")
      <4>1. history' = [history EXCEPT !.threw = TRUE]
            \/ \E works \in BOOLEAN : history' = [history EXCEPT !.failed = @ \/ ~works]
        BY <3>2 DEF setWalletPref, Throws
      <4> QED
        BY <4>1 DEF Typed, HistoryTyped, HistoryFields, HistoryFlags
    <3>3. CASE generateRestoreDataFormat("bridge")
      BY <1>0, <3>3, DataFormatted
    <3> QED
      BY <1>6, <3>1, <3>2, <3>3
  <2>3. ~history'.failed => n = Idle \/ SavedSoFar(n, password, File)
    BY <1>2, <1>6, <2>2, SavedBySave
  <2>4. File' = File
    BY <2>1 DEF File
  <2>5. CASE n = Idle
    BY <1>0, <1>2, <2>1, <2>5, ThreadsApart, IdleTyped, AskedByWork DEF Busy
  <2>6. CASE n # Idle
    BY <1>0, <1>2, <2>1, <2>3, <2>4, <2>6, ThreadsApart, AskedByWork
  <2> QED
    BY <2>5, <2>6
<1> QED
  BY <1>3, <1>4, <1>5, <1>6 DEF ThreadSteps

LEMMA AskedByBridge ==
    ASSUME Typed, Asked, ~history.overlapped, BridgeSteps
    PROVE  Asked'
<1> DEFINE w == thread["bridge"]
           n == thread'["bridge"]
<1>0. /\ "bridge" \in Threads /\ "ui" \in Threads \ {"bridge"} /\ WorkTyped(w)
      /\ ~Quiet /\ thread'["ui"] = thread["ui"] /\ n.file = NoFile
      /\ UNCHANGED <<prefs, isPswInitMode>>
  BY WorksTyped, BridgeStepTaken DEF Threads
<1>1. /\ ~Busy("ui")
      /\ jobs # <<>> => /\ Len(jobs) = 1 /\ ~Busy("bridge")
                        /\ Head(jobs).job = "doGenerate" => password = Head(jobs).psw
  BY <1>0 DEF Asked
<1>2. ASSUME jobs # <<>>, jobs' = Tail(jobs)
      PROVE  jobs' = <<>>
  <2>1. PICK S : jobs \in Seq(S)
    BY DEF Typed, JobsTyped
  <2>2. Tail(jobs) \in Seq(S) /\ Len(Tail(jobs)) = 0
    BY <1>1, <1>2, <2>1, HeadAndTail
  <2> QED
    BY <1>2, <2>2, EmptySeq
<1>3. CASE doGenerate
  <2>1. jobs' = <<>> /\ password' = password /\ password = Head(jobs).psw /\ ~Busy("bridge")
    BY <1>1, <1>2, <1>3 DEF doGenerate
  <2>2. n = w \/ (n.op = "save" /\ n.psw = Head(jobs).psw)
    BY <1>3, BridgeStepTaken
  <2>3. n.op = "save" => SavedSoFar(n, password, File')
    BY SavedPhases
  <2> QED
    BY <1>0, <1>1, <2>1, <2>2, <2>3, AskedByWork DEF Busy
<1>4. CASE onLibWalletCreated
  <2>1. Busy("bridge") /\ UNCHANGED <<password, jobs>>
    BY <1>4 DEF onLibWalletCreated, At, Busy
  <2>2. jobs' = <<>> /\ password = w.psw
    BY <2>1, BridgeAsked
  <2>3. n = Idle \/ (n.op = "told" /\ n.psw = w.psw)
    <3>1. CASE HasProperties(File)
      <4>1. Does("bridge", [w EXCEPT !.op = "told"])
        BY <1>4, <3>1 DEF onLibWalletCreated
      <4> DEFINE work == [w EXCEPT !.op = "told"]
      <4>2. work.op = "told" /\ work.psw = w.psw
        BY <1>0 DEF WorkTyped, WorkFields
      <4> HIDE DEF work
      <4> QED
        BY <1>0, <4>1, <4>2, ThreadsApart DEF work
    <3>2. CASE ~HasProperties(File)
      BY <1>0, <1>4, <3>2, ThrowsTyped DEF onLibWalletCreated
    <3> QED
      BY <3>1, <3>2
  <2>4. n.op = "told" => SavedSoFar(n, password, File')
    BY SavedPhases
  <2> QED
    BY <1>0, <1>1, <2>1, <2>2, <2>3, <2>4, IdleTyped, AskedByWork DEF Busy
<1>5. CASE onSuccessKeyPair
  <2>1. Busy("bridge") /\ Does("bridge", Idle) /\ jobs' = jobs
    BY <1>5 DEF onSuccessKeyPair, At, Busy
  <2>2. jobs' = <<>> /\ n.op = "idle"
    BY <1>0, <2>1, BridgeAsked, ThreadsApart, IdleTyped
  <2> QED
    BY <2>2 DEF Asked, Quiet, Busy
<1>6. CASE onSuccessSign
  <2>1. jobs' = <<>> /\ thread' = thread /\ ~Busy("bridge")
    BY <1>2, <1>6 DEF onSuccessSign
  <2> QED
    BY <2>1 DEF Asked, Quiet, Busy
<1> QED
  BY <1>3, <1>4, <1>5, <1>6 DEF BridgeSteps

LEMMA AskedKept ==
    ASSUME Typed, Asked, [Next]_vars
    PROVE  Asked'
<1>0. "bridge" \in Threads /\ "ui" \in Threads
  BY DEF Threads
<1>1. CASE SmallCalls \/ WorkCalls
  BY <1>1, AskedByCalls
<1>2. CASE ThreadSteps("bridge") \/ BridgeSteps
  <2>1. history'.overlapped = history.overlapped
    BY <1>0, <1>2, MACMade, PrefChosen, PrefWritten, PairSaved, WalletPrefSet, DataFormatted,
       ThrowsTyped, BridgeStepTaken
    DEF ThreadSteps
  <2>2. CASE history.overlapped
    BY <2>1, <2>2 DEF Asked
  <2> QED
    BY <1>2, <2>2, AskedByBridgeThread, AskedByBridge
<1>3. CASE ThreadSteps("ui") \/ UiSteps
  <2>1. UNCHANGED jobs /\ Does("ui", thread'["ui"]) /\ history'.overlapped = history.overlapped
    BY <1>0, <1>3, MACMade, PrefChosen, PrefWritten, PairSaved, WalletPrefSet, DataFormatted,
       ThrowsTyped, UiStepTaken
    DEF ThreadSteps
  <2>2. Busy("ui")
    <3>1. CASE ThreadSteps("ui") /\ thread["ui"].todo # <<>>
      BY <1>0, <3>1, WorksTyped
      DEF WorkTyped, TodoOK, Busy, Saves, PropertyOps, SaltOps, CopyOps
    <3>2. CASE ThreadSteps("ui") /\ thread["ui"].todo = <<>>
      BY <1>0, <3>2, MACMade, PrefChosen, PrefWritten
      DEF ThreadSteps, savePair, setWalletPref, generateRestoreDataFormat, At, Busy
    <3> QED
      BY <1>3, <3>1, <3>2, UiStepTaken
  <2>3. thread'["bridge"] = thread["bridge"]
    BY <1>0, <2>1, ThreadsApart
  <2> QED
    BY <2>1, <2>2, <2>3, AskedFrame
<1>4. CASE Crash
  <2>1. jobs' = <<>> /\ thread'["bridge"].op = "idle"
    BY <1>4, NewProcessTyped, IdleTyped DEF Crash
  <2> QED
    BY <2>1 DEF Asked, Quiet, Busy
<1>5. CASE UNCHANGED vars
  BY <1>5 DEF vars, Asked, Quiet, Busy, File
<1> QED
  BY <1>1, <1>2, <1>3, <1>4, <1>5, StepsAre DEF Threads

LEMMA AskedInit == Init => Asked
<1>1. Init => jobs = <<>> /\ thread["bridge"].op = "idle"
  BY NewProcessTyped, IdleTyped DEF Init
<1> QED
  BY <1>1 DEF Asked, Quiet, Busy

AsAsked ==
    At("bridge", "formatted") /\ At("bridge", "told")'
    /\ ~history.overlapped /\ ~history.failed =>
        LET work == thread["bridge"]
        IN  /\ checkMACData(work.psw, File) /\ File["Wallet.PublicKey"] = work.puk
            /\ server' \in {server, RestoreData(work.psw, File["Salt.Value"], work.prk, work.puk)}

\* The wallet that the library tells the application of is the one it was asked
\* to create, under the password it was asked with, and so is the backup
\* (create, save, onLibWalletCreated): unless another call came in between or
\* the key store failed.
THEOREM AndroidCreatedAsAsked == Spec => CreatedAsAsked
<1>1. ASSUME Typed, Asked, [Next]_vars
      PROVE  AsAsked
  <2> SUFFICES ASSUME At("bridge", "formatted"), At("bridge", "told")',
                      ~history.overlapped, ~history.failed
               PROVE  LET work == thread["bridge"]
                      IN  /\ checkMACData(work.psw, File) /\ File["Wallet.PublicKey"] = work.puk
                          /\ server' \in {server, RestoreData(work.psw, File["Salt.Value"],
                                                              work.prk, work.puk)}
    BY DEF AsAsked
  <2> DEFINE w == thread["bridge"]
  <2>1. w.op = "formatted" /\ Busy("bridge")
    BY DEF At, Busy
  <2>2. ~Busy("ui") /\ password = w.psw /\ SavedSoFar(w, password, File)
    BY <1>1, <2>1, BridgeAsked
  <2>3. HasSaved(w, w.psw, File) /\ w.msg = RestoreData(w.psw, File["Salt.Value"], w.prk, w.puk)
    BY <2>1, <2>2, SavedPhases
  <2>4. generateAddress(w.puk) # None
    BY DEF generateAddress, None
  <2>5. checkMACData(w.psw, File) /\ File["Wallet.PublicKey"] = w.puk
    BY <2>3, <2>4 DEF checkMACData, HasSaved
  <2>6. server' \in {server, w.msg}
    <3>1. CASE onLibWalletCreated
      BY <3>1 DEF onLibWalletCreated, Tells
    <3>2. CASE BackUpReturned
      BY <2>2, <3>2 DEF BackUpReturned, At, Busy
    <3>3. CASE ~onLibWalletCreated /\ ~BackUpReturned
      <4>1. \A t \in Threads : ThreadSteps(t) => server' = server
        BY <1>1, MACMade, PrefChosen, PrefWritten, PairSaved, WalletPrefSet, DataFormatted
        DEF ThreadSteps
      <4>2. SmallCalls => server' = server
        BY DEF SmallCalls, create, generateSignedTransaction, removeWallet, setPswInitMode
      <4>3. WorkCalls => server' = server
        BY <1>1, WorkStarted
      <4>4. UiSteps => server' = server
        BY <3>3 DEF UiSteps, Returned, TempWalletRemoved, onLibRestoreCompleted, SetPassword, save,
           OwnFile, DecryptBackUp, SaveSalt, EncryptBackUp, BackUpGenerated, GetPref,
           GotTempWallet, WalletUpdated
      <4>5. BridgeSteps => server' = server
        BY <3>3 DEF BridgeSteps, doGenerate, onSuccessKeyPair, onSuccessSign
      <4>6. Crash \/ UNCHANGED vars => server' = server
        BY DEF Crash, vars
      <4> QED
        BY <1>1, <4>1, <4>2, <4>3, <4>4, <4>5, <4>6, StepsAre
    <3> QED
      BY <3>1, <3>2, <3>3
  <2> QED
    BY <2>3, <2>5, <2>6
<1>2. ASSUME Typed, Asked, [Next]_vars
      PROVE  [AsAsked]_vars
  BY <1>1, <1>2
<1>3. Spec => []Asked
  BY AlwaysTyped, AskedInit, AskedKept, PTL DEF Spec
<1>4. CreatedAsAsked <=> [][AsAsked]_vars
  BY DEF CreatedAsAsked, AsAsked
<1> QED
  BY <1>2, <1>3, <1>4, AlwaysTyped, PTL DEF Spec
=============================================================================
