-------------------------- MODULE BrowserWalletProofs --------------------------
(***************************************************************************)
(* The browser's wallets, for any number of keys, passwords, pages, devices   *)
(* and accounts, and any sizes of the parts of a backup.                      *)
(***************************************************************************)
EXTENDS BrowserWallet, SequenceTheorems, TLAPS

-----------------------------------------------------------------------------
(* The data: what Wallet stores, and what a backup opens with.               *)

LEMMA FieldFacts ==
    /\ FieldNames = {"version", "salt", "cipheredData", "walletPuk", "walletAddr", "macData"}
    /\ DOMAIN Fields = 1 .. 6 /\ Len(Fields) = 6 /\ Fields[6] = "macData"
    /\ \A i \in 1 .. 6 : Fields[i] \in FieldNames
    /\ \A i \in 1 .. 5 : Fields[i] # "macData"
    /\ \A i, j \in 1 .. 6 : Fields[i] = Fields[j] => i = j
    /\ \A f \in FieldNames : \E i \in 1 .. 6 : f = Fields[i]
<1>1. /\ Fields[1] = "version" /\ Fields[2] = "salt" /\ Fields[3] = "cipheredData"
      /\ Fields[4] = "walletPuk" /\ Fields[5] = "walletAddr" /\ Fields[6] = "macData"
      /\ DOMAIN Fields = 1 .. 6 /\ Len(Fields) = 6
  BY DEF Fields
<1>2. FieldNames = {Fields[i] : i \in 1 .. 6}
  BY <1>1 DEF FieldNames
<1>3. \A i \in 1 .. 6 : i \in {1, 2, 3, 4, 5, 6}
  OBVIOUS
<1> QED
  BY <1>1, <1>2, <1>3

\* The wallet of a key and a password.
WalletOf(type, key, psw) ==
    Wallet(type, psw, Salt(key), EncryptPrk(psw, Salt(key), Prk(key)), Puk(key))

MacOf(type, key, psw) ==
    [t |-> "mac", psw |-> psw, type |-> type, version |-> Version, salt |-> Salt(key),
     target |-> EncryptPrk(psw, Salt(key), Prk(key)), puk |-> Puk(key),
     address |-> generateAddr(type, Puk(key))]

LEMMA WalletFields ==
    ASSUME NEW type, NEW key, NEW psw
    PROVE  LET w == WalletOf(type, key, psw)
           IN  /\ w.version = Version /\ w.salt = Salt(key)
               /\ w.cipheredData = EncryptPrk(psw, Salt(key), Prk(key))
               /\ w.walletPuk = Puk(key) /\ w.walletAddr = generateAddr(type, Puk(key))
               /\ w.macData = MacOf(type, key, psw)
               /\ w = [f \in FieldNames |-> w[f]]
<1> DEFINE c == EncryptPrk(psw, Salt(key), Prk(key))
           u == [f \in FieldNames |->
                    CASE f = "salt" -> Salt(key)
                      [] f = "cipheredData" -> c
                      [] f = "walletPuk" -> Puk(key)
                      [] f = "walletAddr" -> generateAddr(type, Puk(key))
                      [] f = "macData" -> Null
                      [] OTHER -> Version]
           w == [u EXCEPT !.macData = generateMAC(type, psw, u)]
<1>1. WalletOf(type, key, psw) = w
  BY DEF WalletOf, Wallet
<1>2. /\ u.version = Version /\ u.salt = Salt(key) /\ u.cipheredData = c
      /\ u.walletPuk = Puk(key) /\ u.walletAddr = generateAddr(type, Puk(key))
      /\ DOMAIN u = FieldNames
  BY FieldFacts
<1>3. generateMAC(type, psw, u) = MacOf(type, key, psw)
  BY <1>2 DEF generateMAC, MacOf
<1> HIDE DEF u
<1>4. /\ w.version = u.version /\ w.salt = u.salt /\ w.cipheredData = u.cipheredData
      /\ w.walletPuk = u.walletPuk /\ w.walletAddr = u.walletAddr
      /\ w.macData = MacOf(type, key, psw)
      /\ w = [f \in FieldNames |-> w[f]]
  BY <1>2, <1>3, FieldFacts
<1> HIDE DEF w
<1> QED
  BY <1>1, <1>2, <1>4

LEMMA WholeIs ==
    ASSUME NEW type \in Types, NEW key \in Keys, NEW psw \in Psws
    PROVE  Whole[type][<<key, psw>>] = WalletOf(type, key, psw)
BY DEF Whole, WalletOf

\* A created wallet is whole, and so is one made of a backup.
LEMMA CreatedWhole ==
    ASSUME NEW key, NEW psw
    PROVE  createNonRestoreWallet(psw, key) = WalletOf("N", key, psw)
BY DEF createNonRestoreWallet, WalletOf

LEMMA BackupWhole ==
    ASSUME NEW key, NEW psw, NEW data,
           data.salt = Salt(key), data.prk = Encrypt(psw, Salt(key), Prk(key)),
           data.puk = Encrypt(psw, Salt(key), Puk(key))
    PROVE  createRestoreWallet(psw, data) = WalletOf("R", key, psw)
<1>1. Decrypt(psw, data.salt, data.puk) = Puk(key)
  BY DEF Decrypt, Encrypt
<1>2. Seal(psw, data.prk) = EncryptPrk(psw, Salt(key), Prk(key))
  BY DEF EncryptPrk
<1> QED
  BY <1>1, <1>2 DEF createRestoreWallet, WalletOf

LEMMA SealOpens ==
    ASSUME NEW key, NEW psw
    PROVE  DecryptPrk(psw, Salt(key), EncryptPrk(psw, Salt(key), Prk(key))) = Prk(key)
BY DEF DecryptPrk, EncryptPrk, Open, Seal, Decrypt, Encrypt

\* Terms that differ.
LEMMA TermsDiffer ==
    /\ \A type, key, psw : MacOf(type, key, psw) # Null
    /\ \A psw, data : Hmac(psw, data) # Garbage
    /\ \A p, q, data : Hmac(p, data) = Hmac(q, data) => p = q
    /\ \A k, l : Puk(k) = Puk(l) => k = l
<1>1. \A type, key, psw : MacOf(type, key, psw).t = "mac" /\ Null.t = "null"
  BY DEF MacOf, Null
<1>2. \A psw, data : Hmac(psw, data).t = "hmac" /\ Garbage.t = "garbage"
  BY DEF Hmac, Garbage
<1>3. \A p, data : Hmac(p, data).key = p
  BY DEF Hmac
<1>4. \A k : Puk(k).key = k
  BY DEF Puk
<1> QED
  BY <1>1, <1>2, <1>3, <1>4

-----------------------------------------------------------------------------
(* A backup as bytes                                                         *)

AllBytes(a, h, s) == Bytes(a, PukSize) \o Bytes(h, HmacSize) \o Bytes(s, SaltSize)

LEMMA Sizes == /\ PukSize \in Nat \ {0} /\ HmacSize \in Nat \ {0} /\ SaltSize \in Nat \ {0}
BY WalletDataAssumption DEF WalletDataAssumption

LEMMA BytesSeq ==
    ASSUME NEW x, NEW n \in Nat \ {0}
    PROVE  /\ Bytes(x, n) \in Seq({Bytes(x, n)[i] : i \in 1 .. n})
           /\ Len(Bytes(x, n)) = n /\ DOMAIN Bytes(x, n) = 1 .. n
           /\ Value(Bytes(x, n)) = x
<1>1. DOMAIN Bytes(x, n) = 1 .. n
  BY DEF Bytes
<1>2. Bytes(x, n)[1].of = x /\ Bytes(x, n)[1].size = n
  BY DEF Bytes
<1>3. Bytes(x, n) # <<>>
  BY <1>1
<1>4. Bytes(x, n) \in Seq({Bytes(x, n)[i] : i \in 1 .. n}) /\ Len(Bytes(x, n)) = n
  <2> DEFINE S == {Bytes(x, n)[i] : i \in 1 .. n}
  <2>1. Bytes(x, n) \in [1 .. n -> S]
    BY <1>1 DEF Bytes
  <2> QED
    BY <2>1
<1> QED
  BY <1>1, <1>2, <1>3, <1>4 DEF Value

LEMMA AllBytesSeq ==
    ASSUME NEW a, NEW h, NEW s
    PROVE  /\ Len(AllBytes(a, h, s)) = PukSize + HmacSize + SaltSize
           /\ \A i \in 1 .. PukSize : AllBytes(a, h, s)[i] = Bytes(a, PukSize)[i]
           /\ \A i \in 1 .. HmacSize : AllBytes(a, h, s)[PukSize + i] = Bytes(h, HmacSize)[i]
           /\ \A i \in 1 .. SaltSize :
                 AllBytes(a, h, s)[PukSize + HmacSize + i] = Bytes(s, SaltSize)[i]
<1> DEFINE A == Bytes(a, PukSize)
           H == Bytes(h, HmacSize)
           S == Bytes(s, SaltSize)
           All == {A[i] : i \in 1 .. PukSize} \cup {H[i] : i \in 1 .. HmacSize}
                    \cup {S[i] : i \in 1 .. SaltSize}
<1>0. /\ A = [i \in 1 .. PukSize |-> A[i]] /\ \A i \in 1 .. PukSize : A[i] \in All
      /\ H = [i \in 1 .. HmacSize |-> H[i]] /\ \A i \in 1 .. HmacSize : H[i] \in All
      /\ S = [i \in 1 .. SaltSize |-> S[i]] /\ \A i \in 1 .. SaltSize : S[i] \in All
  BY DEF Bytes
<1>1. /\ A \in Seq(All) /\ H \in Seq(All) /\ S \in Seq(All)
      /\ Len(A) = PukSize /\ Len(H) = HmacSize /\ Len(S) = SaltSize
  <2> HIDE DEF A, H, S, All
  <2>1. A \in [1 .. PukSize -> All] /\ H \in [1 .. HmacSize -> All] /\ S \in [1 .. SaltSize -> All]
    BY <1>0
  <2> QED
    BY <2>1, Sizes
<1> HIDE DEF A, H, S, All
<1>2. /\ A \o H \in Seq(All) /\ Len(A \o H) = PukSize + HmacSize
      /\ \A i \in 1 .. PukSize + HmacSize :
            (A \o H)[i] = IF i <= PukSize THEN A[i] ELSE H[i - PukSize]
  BY <1>1, ConcatProperties
<1>3. /\ Len((A \o H) \o S) = PukSize + HmacSize + SaltSize
      /\ \A i \in 1 .. PukSize + HmacSize + SaltSize :
            ((A \o H) \o S)[i] = IF i <= PukSize + HmacSize THEN (A \o H)[i]
                                 ELSE S[i - (PukSize + HmacSize)]
  <2>1. Len((A \o H) \o S) = Len(A \o H) + Len(S)
    BY <1>1, <1>2, ConcatProperties
  <2>2. \A i \in 1 .. Len(A \o H) + Len(S) :
           ((A \o H) \o S)[i] = IF i <= Len(A \o H) THEN (A \o H)[i] ELSE S[i - Len(A \o H)]
    BY <1>1, <1>2, ConcatProperties
  <2> QED
    BY <1>1, <1>2, <2>1, <2>2
<1>4. AllBytes(a, h, s) = (A \o H) \o S
  BY DEF AllBytes, A, H, S
<1>5. \A i \in 1 .. PukSize : ((A \o H) \o S)[i] = A[i]
  BY <1>2, <1>3, Sizes
<1>6. \A i \in 1 .. HmacSize : ((A \o H) \o S)[PukSize + i] = H[i]
  <2> SUFFICES ASSUME NEW i \in 1 .. HmacSize PROVE ((A \o H) \o S)[PukSize + i] = H[i]
    OBVIOUS
  <2>1. PukSize + i \in 1 .. PukSize + HmacSize /\ ~(PukSize + i <= PukSize)
        /\ (PukSize + i) - PukSize = i /\ PukSize + i \in 1 .. PukSize + HmacSize + SaltSize
        /\ PukSize + i <= PukSize + HmacSize
    BY Sizes
  <2> QED
    BY <1>2, <1>3, <2>1
<1>7. \A i \in 1 .. SaltSize : ((A \o H) \o S)[PukSize + HmacSize + i] = S[i]
  <2> SUFFICES ASSUME NEW i \in 1 .. SaltSize
               PROVE ((A \o H) \o S)[PukSize + HmacSize + i] = S[i]
    OBVIOUS
  <2>1. PukSize + HmacSize + i \in 1 .. PukSize + HmacSize + SaltSize
        /\ ~(PukSize + HmacSize + i <= PukSize + HmacSize)
        /\ (PukSize + HmacSize + i) - (PukSize + HmacSize) = i
    BY Sizes
  <2> QED
    BY <1>3, <2>1
<1> QED
  BY <1>3, <1>4, <1>5, <1>6, <1>7 DEF A, H, S

\* A slice of bytes that are those of one value gives the value.
LEMMA SliceIs ==
    ASSUME NEW b, NEW first \in Nat, NEW n \in Nat \ {0}, NEW x,
           Len(b) \in Nat, 1 <= first, first + n - 1 <= Len(b),
           \A i \in 1 .. n : b[first + i - 1] = Bytes(x, n)[i]
    PROVE  Value(Slice(b, first, first + n - 1)) = x
<1> DEFINE last == first + n - 1
           S == {b[i] : i \in first .. last}
<1>1. Slice(b, first, last) = SubSeq(b, first, last)
  BY DEF Slice
<1>2. /\ SubSeq(b, first, last) \in Seq(S) /\ Len(SubSeq(b, first, last)) = n
      /\ \A i \in 1 .. n : SubSeq(b, first, last)[i] = b[first + i - 1]
  <2>1. last - first + 1 = n /\ first <= last /\ last \in Int /\ first \in Int
    OBVIOUS
  <2>2. \A i \in first .. last : b[i] \in S
    OBVIOUS
  <2> HIDE DEF last, S
  <2> QED
    BY <2>1, <2>2, SubSeqProperties
<1>3. SubSeq(b, first, last) = Bytes(x, n)
  <2>1. DOMAIN SubSeq(b, first, last) = 1 .. n
    BY <1>2
  <2>2. DOMAIN Bytes(x, n) = 1 .. n /\ Bytes(x, n) = [i \in 1 .. n |-> Bytes(x, n)[i]]
    BY DEF Bytes
  <2>3. SubSeq(b, first, last) = [i \in 1 .. n |-> SubSeq(b, first, last)[i]]
    BY <1>2, <2>1
  <2> QED
    BY <1>2, <2>2, <2>3
<1> QED
  BY <1>1, <1>3, BytesSeq

LEMMA BackupParts ==
    ASSUME NEW a, NEW h, NEW s
    PROVE  LET b == AllBytes(a, h, s)
               size == Len(b)
           IN  /\ Value(Slice(b, 1, PukSize)) = a
               /\ Value(Slice(b, PukSize + 1, PukSize + HmacSize)) = h
               /\ Value(Slice(b, 1, size - (HmacSize + SaltSize))) = a
               /\ Value(Slice(b, size - SaltSize + 1, size)) = s
<1> DEFINE b == AllBytes(a, h, s)
<1>1. /\ Len(b) = PukSize + HmacSize + SaltSize
      /\ \A i \in 1 .. PukSize : b[i] = Bytes(a, PukSize)[i]
      /\ \A i \in 1 .. HmacSize : b[PukSize + i] = Bytes(h, HmacSize)[i]
      /\ \A i \in 1 .. SaltSize : b[PukSize + HmacSize + i] = Bytes(s, SaltSize)[i]
  BY AllBytesSeq
<1> HIDE DEF b
<1>2. Value(Slice(b, 1, 1 + PukSize - 1)) = a
  <2>1. \A i \in 1 .. PukSize : b[1 + i - 1] = Bytes(a, PukSize)[i]
    BY <1>1, Sizes
  <2>2. Len(b) \in Nat /\ 1 + PukSize - 1 <= Len(b)
    BY <1>1, Sizes
  <2> QED
    BY <2>1, <2>2, Sizes, SliceIs
<1>3. Value(Slice(b, PukSize + 1, (PukSize + 1) + HmacSize - 1)) = h
  <2>1. \A i \in 1 .. HmacSize : b[(PukSize + 1) + i - 1] = Bytes(h, HmacSize)[i]
    BY <1>1, Sizes
  <2>2. /\ Len(b) \in Nat /\ (PukSize + 1) + HmacSize - 1 <= Len(b)
        /\ PukSize + 1 \in Nat /\ 1 <= PukSize + 1
    BY <1>1, Sizes
  <2> QED
    BY <2>1, <2>2, Sizes, SliceIs
<1>4. Value(Slice(b, PukSize + HmacSize + 1, (PukSize + HmacSize + 1) + SaltSize - 1)) = s
  <2>1. \A i \in 1 .. SaltSize : b[(PukSize + HmacSize + 1) + i - 1] = Bytes(s, SaltSize)[i]
    BY <1>1, Sizes
  <2>2. /\ Len(b) \in Nat /\ (PukSize + HmacSize + 1) + SaltSize - 1 <= Len(b)
        /\ PukSize + HmacSize + 1 \in Nat /\ 1 <= PukSize + HmacSize + 1
    BY <1>1, Sizes
  <2> QED
    BY <2>1, <2>2, Sizes, SliceIs
<1>5. /\ 1 + PukSize - 1 = PukSize /\ (PukSize + 1) + HmacSize - 1 = PukSize + HmacSize
      /\ Len(b) - (HmacSize + SaltSize) = PukSize
      /\ Len(b) - SaltSize + 1 = PukSize + HmacSize + 1
      /\ (PukSize + HmacSize + 1) + SaltSize - 1 = Len(b)
  BY <1>1, Sizes
<1> QED
  BY <1>2, <1>3, <1>4, <1>5 DEF b

-----------------------------------------------------------------------------
(* The inductive invariant.  Saved data, backups under way and backups kept   *)
(* belong to one key and one password; a MAC, once written, is that of one    *)
(* wallet; and where no two pages saved at once, what a page has written so   *)
(* far is the beginning of what it saves.                                     *)

\* The private key and the bytes that a backup of a key under a password has.
Backup(prk, puk, key, psw) ==
    /\ prk = Encrypt(psw, Salt(key), Prk(key))
    /\ puk = AllBytes(Encrypt(psw, Salt(key), Puk(key)),
                      Hmac(psw, Encrypt(psw, Salt(key), Puk(key))), Salt(key))

\* What the server has for an account: nothing, or the backup of a stored key.
Held(prk, puk, keys) ==
    \/ puk = <<>>
    \/ \E key \in keys, psw \in Psws : Backup(prk, puk, key, psw)

Terms == {Null} \cup {WalletOf(type, key, psw)[f] :
                         type \in Types, key \in Keys, psw \in Psws, f \in FieldNames}

Sets ==
    /\ storage \in [Devices -> [Types -> [FieldNames -> Terms]]]
    /\ fresh \subseteq Keys /\ stored \subseteq Keys \ fresh
    /\ raced \subseteq Devices

\* What an open page must be, when keys are stored and some not yet drawn.
PageOK(x, undrawn, keys) ==
    /\ x.key \notin undrawn
    /\ x.pc = "save" <=> x.work # Null
    /\ x.pc = "save" =>
          \E key \in Keys : /\ x.work.data = WalletOf(x.work.type, key, x.psw)
                            /\ x.work.type = "R" => key \in keys

PagesOK ==
    /\ page \in [Pages -> OpenPages \cup {Closed}]
    /\ \A p \in Pages : page[p] # Closed => PageOK(page[p], fresh, stored)

RequestOK(r, pages, undrawn) ==
    /\ r.page \in Pages \cup {Closed}
    /\ r.key \in (Keys \ undrawn) \cup {Closed}
    /\ r.page # Closed => pages[r.page] # Closed
    /\ r.msg.header = "BCWalletRegistReq" =>
          /\ r.key \in Keys
          /\ r.page # Closed => pages[r.page].key = r.key
          /\ \E psw \in Psws : Backup(r.msg.prk, r.msg.puk, r.key, psw)

AnswerOK(a, pages, keys) ==
    /\ a.page \in Pages /\ pages[a.page] # Closed
    /\ verifyRegisterWalletMsg(a.msg) => pages[a.page].key \in keys
    /\ verifyRestoreWalletMsg(a.msg) => Held(a.msg.prk, a.msg.puk, keys)

AccountsOK ==
    /\ DOMAIN wallet \subseteq Ids /\ wallet = [id \in DOMAIN wallet |-> wallet[id]]
    /\ \A id \in DOMAIN wallet : Held(wallet[id].prk, wallet[id].puk, stored)

NetworkOK ==
    /\ \A r \in requests : RequestOK(r, page, fresh)
    /\ \A a \in answers : AnswerOK(a, page, stored)
    /\ AccountsOK

MacsOK ==
    \A d \in Devices, type \in Types :
        \/ storage[d][type].macData = Null
        \/ \E key \in Keys, psw \in Psws : storage[d][type].macData = MacOf(type, key, psw)

\* Page x, if it is saving a wallet of the type on the device.
SavesTo(x, d, type) ==
    x # Closed /\ x.pc = "save" /\ x.device = d /\ x.work.type = type

Begun(s, work) ==
    /\ s.macData = Null
    /\ \A i \in 1 .. 6 : i < work.next => s[Fields[i]] = work.data[Fields[i]]

TidyAt(d, type) ==
    /\ storage[d][type].macData # Null =>
          \E key \in Keys, psw \in Psws : storage[d][type] = WalletOf(type, key, psw)
    /\ \A p \in Pages : SavesTo(page[p], d, type) =>
          /\ Begun(storage[d][type], page[p].work)
          /\ page[p].work.next > 1 => \A q \in Pages \ {p} : ~SavesTo(page[q], d, type)

Tidy == \A d \in Devices \ raced, type \in Types : TidyAt(d, type)

WalletInv == Sets /\ PagesOK /\ NetworkOK /\ MacsOK /\ Tidy

-----------------------------------------------------------------------------
(* Small facts about the parts                                               *)

LEMMA ClosedApart == Closed \notin Keys /\ Closed \notin Pages /\ Closed \notin OpenPages
BY BrowserWalletAssumption DEF BrowserWalletAssumption

LEMMA WorkFacts ==
    /\ Null \notin Works
    /\ \A type \in Types, key \in Keys, psw \in Psws, n \in 1 .. 6 :
          [type |-> type, data |-> WalletOf(type, key, psw), next |-> n] \in Works
<1>1. ASSUME NEW w \in Works
      PROVE  w # Null
  <2>1. DOMAIN w = {"type", "data", "next"}
    BY DEF Works
  <2>2. DOMAIN Null = {"t"}
    BY DEF Null
  <2> QED
    BY <2>1, <2>2
<1>2. ASSUME NEW type \in Types, NEW key \in Keys, NEW psw \in Psws, NEW n \in 1 .. 6
      PROVE  [type |-> type, data |-> WalletOf(type, key, psw), next |-> n] \in Works
  <2>1. WalletOf(type, key, psw) \in {Whole[x][w] : x \in Types, w \in Keys \X Psws}
    <3>1. <<key, psw>> \in Keys \X Psws
      OBVIOUS
    <3>2. WalletOf(type, key, psw) = Whole[type][<<key, psw>>]
      BY WholeIs
    <3> QED
      BY <3>1, <3>2
  <2> QED
    BY <2>1, FieldFacts DEF Works
<1> QED
  BY <1>1, <1>2

LEMMA VersionStored ==
    /\ Version # Null
    /\ \A type, key, psw : WalletOf(type, key, psw).version = Version
    /\ Fields[1] = "version" /\ "version" \in FieldNames /\ "macData" \in FieldNames
<1>1. Version.t = "version" /\ Null.t = "null"
  BY DEF Version, Null
<1> QED
  BY <1>1, WalletFields, FieldFacts DEF Fields

LEMMA RegistMsg ==
    ASSUME NEW id, NEW psw, NEW key
    PROVE  LET msg == generateWalletRegistMsg(id, generateRestoreDataFormat(psw, key))
           IN  msg.header = "BCWalletRegistReq" /\ Backup(msg.prk, msg.puk, key, psw)
BY DEF generateWalletRegistMsg, generateRestoreDataFormat, Backup, AllBytes

\* Who passes the password check of a backup gets the whole wallet.
LEMMA BackupRestores ==
    ASSUME NEW msg, NEW key, NEW q, NEW psw, Backup(msg.prk, msg.puk, key, q),
           verifyPsw(psw, msg)
    PROVE  /\ psw = q
           /\ createRestoreWallet(psw, convertRestoreDataFormat(msg)) = WalletOf("R", key, psw)
<1> DEFINE e == Encrypt(q, Salt(key), Puk(key))
<1>1. /\ Value(Slice(msg.puk, 1, PukSize)) = e
      /\ Value(Slice(msg.puk, PukSize + 1, PukSize + HmacSize)) = Hmac(q, e)
      /\ Value(Slice(msg.puk, 1, Len(msg.puk) - (HmacSize + SaltSize))) = e
      /\ Value(Slice(msg.puk, Len(msg.puk) - SaltSize + 1, Len(msg.puk))) = Salt(key)
  BY BackupParts DEF Backup
<1>2. psw = q
  BY <1>1, TermsDiffer DEF verifyPsw
<1> DEFINE data == convertRestoreDataFormat(msg)
<1>3. data.prk = msg.prk /\ data.puk = e /\ data.salt = Salt(key)
  BY <1>1 DEF convertRestoreDataFormat
<1> HIDE DEF data
<1>4. createRestoreWallet(psw, data) = WalletOf("R", key, psw)
  BY <1>2, <1>3, BackupWhole DEF Backup
<1> QED
  BY <1>2, <1>4 DEF data

\* An account without a wallet gives no page a wallet.
LEMMA NothingRestores ==
    ASSUME NEW msg, NEW psw, msg.puk = <<>>
    PROVE  ~verifyPsw(psw, msg)
<1>1. Slice(msg.puk, PukSize + 1, PukSize + HmacSize) = <<>>
  BY Sizes DEF Slice
<1>2. Value(<<>>) = Garbage
  BY DEF Value
<1> QED
  BY <1>1, <1>2, TermsDiffer DEF verifyPsw

-----------------------------------------------------------------------------
(* The properties follow.                                                    *)

LEMMA InvTypeOK == WalletInv => TypeOK
<1> SUFFICES ASSUME WalletInv PROVE TypeOK
  OBVIOUS
<1>1. /\ DOMAIN storage = Devices
      /\ \A d \in Devices : /\ DOMAIN storage[d] = Types
                            /\ \A type \in Types : DOMAIN storage[d][type] = FieldNames
  BY DEF WalletInv, Sets
<1>2. ASSUME NEW p \in Pages, page[p] # Closed
      PROVE  /\ page[p].pc \in {"idle", "save"}
             /\ page[p].device \in Devices /\ page[p].psw \in Psws
             /\ page[p].key \in (Keys \ fresh) \cup {Closed}
             /\ page[p].pc = "save" <=> page[p].work # Null
             /\ page[p].work # Null => /\ page[p].work.type \in Types
                                       /\ page[p].work.next \in 1 .. Len(Fields)
  <2>1. page[p] \in OpenPages /\ PageOK(page[p], fresh, stored)
    BY <1>2 DEF WalletInv, PagesOK
  <2>2. page[p].work # Null => page[p].work \in Works
    BY <2>1 DEF OpenPages
  <2>3. page[p].work # Null => /\ page[p].work.type \in Types
                               /\ page[p].work.next \in 1 .. Len(Fields)
    BY <2>2, FieldFacts DEF Works
  <2> QED
    BY <2>1, <2>3 DEF OpenPages, PageOK
<1>3. /\ \A r \in requests : r.page \in Pages \cup {Closed} /\ r.key \in (Keys \ fresh) \cup {Closed}
      /\ \A a \in answers : page[a.page] # Closed
      /\ DOMAIN wallet \subseteq Ids
  BY DEF WalletInv, NetworkOK, RequestOK, AnswerOK, AccountsOK
<1> QED
  BY <1>1, <1>2, <1>3 DEF WalletInv, Sets, TypeOK

LEMMA InvSigns == WalletInv => SignatureVerifies
<1> SUFFICES ASSUME WalletInv, NEW d \in Devices, NEW type \in Types, NEW psw \in Psws,
                    NEW prk \in generateTransactionSign(storage[d], type, psw)
             PROVE  \E key \in Keys : /\ prk = Prk(key)
                                      /\ getPublicKey(storage[d], type) = Puk(key)
  BY DEF SignatureVerifies
<1> DEFINE s == storage[d][type]
<1>1. /\ s.macData # Null /\ s.macData = generateMAC(type, psw, s)
      /\ prk = DecryptPrk(psw, s.salt, s.cipheredData)
  BY DEF generateTransactionSign, verifyMAC
<1>2. PICK key \in Keys, q \in Psws : s.macData = MacOf(type, key, q)
  BY <1>1 DEF WalletInv, MacsOK
<1> HIDE DEF s
<1>3. generateMAC(type, psw, s) = MacOf(type, key, q)
  BY <1>1, <1>2
<1>4. /\ generateMAC(type, psw, s).psw = psw /\ generateMAC(type, psw, s).salt = s.salt
      /\ generateMAC(type, psw, s).target = s.cipheredData
      /\ generateMAC(type, psw, s).puk = s.walletPuk
  BY DEF generateMAC
<1>5. /\ psw = q /\ s.salt = Salt(key) /\ s.walletPuk = Puk(key)
      /\ s.cipheredData = EncryptPrk(q, Salt(key), Prk(key))
  BY <1>3, <1>4 DEF MacOf
<1>6. prk = Prk(key)
  BY <1>1, <1>5, SealOpens
<1> QED
  BY <1>5, <1>6 DEF getPublicKey, s

LEMMA InvConsistent == WalletInv => WalletConsistent
<1> SUFFICES ASSUME WalletInv, NEW d \in Devices \ raced, NEW type \in Types,
                    storage[d][type].macData # Null
             PROVE  Installed(d, type) # {}
  BY DEF WalletConsistent
<1>1. PICK key \in Keys, psw \in Psws : storage[d][type] = WalletOf(type, key, psw)
  BY DEF WalletInv, Tidy, TidyAt
<1>2. <<key, psw>> \in Keys \X Psws /\ storage[d][type] = Whole[type][<<key, psw>>]
  BY <1>1, WholeIs
<1> QED
  BY <1>2 DEF Installed

LEMMA InvInit == Init => WalletInv
<1> SUFFICES ASSUME Init PROVE WalletInv
  OBVIOUS
<1>1. Empty \in [FieldNames -> Terms] /\ Empty.macData = Null
  BY FieldFacts DEF Empty, Terms
<1>2. Sets
  BY <1>1 DEF Init, Sets
<1>3. PagesOK
  BY DEF Init, PagesOK
<1>4. NetworkOK
  <2>1. PICK accounts \in SUBSET Ids : wallet = [id \in accounts |-> NoWallet]
    BY DEF Init
  <2>2. NoWallet.puk = <<>>
    BY DEF NoWallet
  <2>3. AccountsOK
    BY <2>1, <2>2 DEF AccountsOK, Held
  <2> QED
    BY <2>3 DEF Init, NetworkOK
<1>5. MacsOK
  BY <1>1 DEF Init, MacsOK
<1>6. Tidy
  BY <1>1 DEF Init, Tidy, TidyAt, SavesTo
<1> QED
  BY <1>2, <1>3, <1>4, <1>5, <1>6 DEF WalletInv

-----------------------------------------------------------------------------
(* What a step that changes one page leaves alone                            *)

LEMMA OnePage ==
    ASSUME WalletInv, NEW p \in Pages, NEW x \in OpenPages \cup {Closed},
           page' = [page EXCEPT ![p] = x], fresh' \subseteq fresh, UNCHANGED stored,
           x # Closed => PageOK(x, fresh', stored)
    PROVE  PagesOK' /\ \A q \in Pages : page'[q] = IF q = p THEN x ELSE page[q]
<1>1. page \in [Pages -> OpenPages \cup {Closed}]
  BY DEF WalletInv, PagesOK
<1>2. \A q \in Pages : page'[q] = IF q = p THEN x ELSE page[q]
  BY <1>1
<1>3. page' \in [Pages -> OpenPages \cup {Closed}]
  BY <1>1
<1>4. ASSUME NEW q \in Pages, page'[q] # Closed
      PROVE  PageOK(page'[q], fresh', stored')
  <2>1. CASE q = p
    BY <1>2, <1>4, <2>1
  <2>2. CASE q # p
    <3>1. page'[q] = page[q] /\ PageOK(page[q], fresh, stored)
      BY <1>2, <1>4, <2>2 DEF WalletInv, PagesOK
    <3> QED
      BY <3>1 DEF PageOK
  <2> QED
    BY <2>1, <2>2
<1> QED
  BY <1>2, <1>3, <1>4 DEF PagesOK

\* Messages under way stay right while pages stay open and keep their keys.
LEMMA NetworkKept ==
    ASSUME WalletInv, UNCHANGED network, fresh' \subseteq fresh,
           \A q \in Pages : page[q] # Closed =>
               /\ page'[q] # Closed
               /\ page[q].key # Closed => page'[q].key = page[q].key
    PROVE  NetworkOK'
<1>1. ASSUME NEW r \in requests
      PROVE  RequestOK(r, page', fresh')
  BY <1>1, ClosedApart DEF WalletInv, NetworkOK, RequestOK
<1>2. ASSUME NEW a \in answers
      PROVE  AnswerOK(a, page', stored)
  BY <1>2, ClosedApart DEF WalletInv, Sets, NetworkOK, AnswerOK
<1>3. AccountsOK'
  BY DEF network, WalletInv, NetworkOK, AccountsOK
<1> QED
  BY <1>1, <1>2, <1>3 DEF network, NetworkOK

LEMMA StorageKept ==
    ASSUME WalletInv, UNCHANGED <<storage, raced>>,
           \A q \in Pages, d \in Devices, type \in Types :
               SavesTo(page'[q], d, type) =>
                   SavesTo(page[q], d, type) /\ page'[q].work = page[q].work
    PROVE  MacsOK' /\ Tidy'
<1>1. MacsOK'
  BY DEF WalletInv, MacsOK
<1>2. Tidy'
  BY DEF WalletInv, Tidy, TidyAt
<1> QED
  BY <1>1, <1>2

-----------------------------------------------------------------------------
(* Pages that come, go and ask                                               *)

LEMMA LoadPageStep ==
    ASSUME WalletInv, NEW p \in Pages, LoadPage(p)
    PROVE  WalletInv'
<1>1. PICK d \in Devices, psw \in Psws :
        page' = [page EXCEPT ![p] = [pc |-> "idle", device |-> d, psw |-> psw,
                                     key |-> Closed, work |-> Null]]
  BY DEF LoadPage
<1> DEFINE x == [pc |-> "idle", device |-> d, psw |-> psw, key |-> Closed, work |-> Null]
<1>2. x \in OpenPages /\ x.pc = "idle" /\ x.key = Closed /\ x.work = Null
  BY DEF OpenPages
<1>3. page' = [page EXCEPT ![p] = x]
  BY <1>1
<1> HIDE DEF x
<1>4. UNCHANGED <<storage, fresh, network, raced>> /\ page[p] = Closed /\ UNCHANGED stored
  BY DEF LoadPage, network
<1>5. PageOK(x, fresh', stored)
  BY <1>2, <1>4, ClosedApart DEF PageOK, WalletInv, Sets
<1>6. PagesOK' /\ \A q \in Pages : page'[q] = IF q = p THEN x ELSE page[q]
  BY <1>2, <1>3, <1>4, <1>5, OnePage
<1>7. NetworkOK'
  BY <1>4, <1>6, NetworkKept
<1>8. MacsOK' /\ Tidy'
  BY <1>2, <1>4, <1>6, StorageKept DEF SavesTo
<1>9. Sets'
  BY <1>4 DEF network, WalletInv, Sets
<1> QED
  BY <1>6, <1>7, <1>8, <1>9 DEF WalletInv

LEMMA ClosePageStep ==
    ASSUME WalletInv, NEW p \in Pages, ClosePage(p)
    PROVE  WalletInv'
<1>1. /\ page' = [page EXCEPT ![p] = Closed]
      /\ requests' = {IF r.page = p THEN [r EXCEPT !.page = Closed] ELSE r : r \in requests}
      /\ answers' = {a \in answers : a.page # p}
      /\ UNCHANGED <<storage, fresh, wallet, stored, raced>>
  BY DEF ClosePage
<1>2. PagesOK' /\ \A q \in Pages : page'[q] = IF q = p THEN Closed ELSE page[q]
  BY <1>1, OnePage
<1>3. ASSUME NEW s \in requests'
      PROVE  RequestOK(s, page', fresh')
  <2>1. PICK r \in requests : s = IF r.page = p THEN [r EXCEPT !.page = Closed] ELSE r
    BY <1>1
  <2>2. RequestOK(r, page, fresh)
    BY DEF WalletInv, NetworkOK
  <2>3. CASE r.page = p
    <3>0. s = [r EXCEPT !.page = Closed]
      BY <2>1, <2>3
    <3>1. s.key = r.key /\ s.msg = r.msg /\ (s.page = Closed \/ s.page = r.page)
      BY <3>0
    <3>2. s.page = Closed
      BY <3>0, <2>2, <2>3
    <3> QED
      BY <1>1, <2>2, <3>1, <3>2 DEF RequestOK
  <2>4. CASE r.page # p
    BY <1>1, <1>2, <2>1, <2>2, <2>4 DEF RequestOK
  <2> QED
    BY <2>3, <2>4
<1>4. ASSUME NEW a \in answers'
      PROVE  AnswerOK(a, page', stored')
  BY <1>1, <1>2, <1>4 DEF WalletInv, NetworkOK, AnswerOK
<1>5. AccountsOK'
  BY <1>1 DEF WalletInv, NetworkOK, AccountsOK
<1>6. NetworkOK'
  BY <1>3, <1>4, <1>5 DEF NetworkOK
<1>7. MacsOK' /\ Tidy'
  BY <1>1, <1>2, StorageKept DEF SavesTo
<1>8. Sets'
  BY <1>1 DEF WalletInv, Sets
<1> QED
  BY <1>2, <1>6, <1>7, <1>8 DEF WalletInv

\* A page sends something, having drawn its key or not.
LEMMA ClickStep ==
    ASSUME WalletInv, NEW p \in Pages, ClickRegist(p) \/ ClickRestore(p)
    PROVE  WalletInv'
<1>1. /\ UNCHANGED <<storage, answers, wallet, stored, raced>> /\ Idle(p)
      /\ page[p] # Closed /\ page[p].pc = "idle"
  BY DEF ClickRegist, ClickRestore, Idle
<1>2. page[p] \in OpenPages /\ PageOK(page[p], fresh, stored)
  BY <1>1 DEF WalletInv, PagesOK
<1> DEFINE Sends(key, msg) ==
             /\ Send(p, key, msg)
             /\ \/ /\ ClickRestore(p) /\ msg.header # "BCWalletRegistReq"
                   /\ key = Closed /\ UNCHANGED <<page, fresh>>
                \/ /\ key \in Keys /\ DrawKey(p, key)
                   /\ \E id \in Ids : msg = generateWalletRegistMsg(id, restoreMsg(p, key))
<1>k. PICK key \in Keys \cup {Closed} : \E msg : Sends(key, msg)
  <2>1. CASE ClickRegist(p)
    BY <2>1 DEF ClickRegist
  <2>2. CASE ClickRestore(p)
    <3>1. PICK id \in Ids : Send(p, Closed, generateRestoreWalletMsg(id))
      BY <2>2 DEF ClickRestore
    <3>2. generateRestoreWalletMsg(id).header # "BCWalletRegistReq"
      BY DEF generateRestoreWalletMsg
    <3> QED
      BY <2>2, <3>1, <3>2 DEF ClickRestore
  <2> QED
    BY <2>1, <2>2
<1>3. PICK msg : Sends(key, msg)
  BY <1>k
<1> DEFINE x == IF key = Closed THEN page[p] ELSE [page[p] EXCEPT !.key = key]
<1>4. /\ x \in OpenPages /\ x.pc = "idle" /\ x.device = page[p].device /\ x.psw = page[p].psw
      /\ x.work = page[p].work /\ x.key = IF key = Closed THEN page[p].key ELSE key
  BY <1>1, <1>2 DEF OpenPages
<1>5. /\ page' = [page EXCEPT ![p] = x] /\ fresh' \subseteq fresh /\ key \notin fresh'
      /\ page[p].key # Closed /\ key # Closed => key = page[p].key
  <2>1. CASE ClickRestore(p) /\ UNCHANGED <<page, fresh>> /\ key = Closed
    BY <2>1, ClosedApart DEF WalletInv, PagesOK, Sets
  <2>2. CASE key \in Keys /\ DrawKey(p, key)
    <3>1. key # Closed /\ x = [page[p] EXCEPT !.key = key]
      BY <2>2, ClosedApart
    <3>2. CASE page[p].key = Closed
      BY <2>2, <3>1, <3>2 DEF DrawKey
    <3>3. CASE page[p].key # Closed
      <4>1. key = page[p].key /\ UNCHANGED <<fresh, page>>
        BY <2>2, <3>3 DEF DrawKey
      <4>2. x = page[p]
        BY <1>2, <3>1, <4>1 DEF OpenPages
      <4> QED
        BY <1>2, <4>1, <4>2 DEF WalletInv, PagesOK, PageOK
    <3> QED
      BY <3>2, <3>3
  <2> QED
    BY <1>3, <2>1, <2>2
<1> HIDE DEF x
<1>6. PageOK(x, fresh', stored)
  BY <1>1, <1>2, <1>4, <1>5 DEF PageOK
<1>7. PagesOK' /\ \A q \in Pages : page'[q] = IF q = p THEN x ELSE page[q]
  BY <1>1, <1>4, <1>5, <1>6, OnePage
<1>8. /\ x # Closed
      /\ \A q \in Pages : page[q] # Closed =>
            page'[q] # Closed /\ (page[q].key # Closed => page'[q].key = page[q].key)
  BY <1>4, <1>5, <1>7, ClosedApart
<1>9. ASSUME NEW r \in requests'
      PROVE  RequestOK(r, page', fresh')
  <2>1. CASE r \in requests
    <3>1. RequestOK(r, page, fresh)
      BY <2>1 DEF WalletInv, NetworkOK
    <3> QED
      BY <1>5, <1>8, <3>1, ClosedApart DEF RequestOK
  <2>2. CASE r = [page |-> p, key |-> key, msg |-> msg]
    <3>1. r.page = p /\ r.key = key /\ r.msg = msg
      BY <2>2
    <3>2. CASE msg.header # "BCWalletRegistReq"
      BY <1>5, <1>7, <1>8, <3>1, <3>2 DEF RequestOK
    <3>3. CASE key \in Keys /\ \E id \in Ids : msg = generateWalletRegistMsg(id, restoreMsg(p, key))
      <4>1. Backup(msg.prk, msg.puk, key, page[p].psw) /\ page[p].psw \in Psws
        BY <1>2, <3>3, RegistMsg DEF restoreMsg, OpenPages
      <4>2. page'[p] # Closed /\ page'[p].key = key
        BY <1>4, <1>7, <1>8, <3>3, ClosedApart
      <4> QED
        BY <1>5, <3>1, <3>3, <4>1, <4>2 DEF RequestOK
    <3> QED
      BY <1>3, <3>2, <3>3
  <2> QED
    BY <1>3, <2>1, <2>2 DEF Send
<1>10. ASSUME NEW a \in answers'
       PROVE  AnswerOK(a, page', stored')
  BY <1>1, <1>8, <1>10, ClosedApart DEF WalletInv, Sets, NetworkOK, AnswerOK
<1>11. NetworkOK'
  BY <1>1, <1>9, <1>10 DEF NetworkOK, WalletInv, AccountsOK
<1>12. MacsOK' /\ Tidy'
  BY <1>1, <1>4, <1>7, StorageKept DEF SavesTo
<1>13. Sets'
  BY <1>1, <1>5 DEF WalletInv, Sets
<1> QED
  BY <1>7, <1>11, <1>12, <1>13 DEF WalletInv

-----------------------------------------------------------------------------
(* Saving                                                                    *)

\* A page starts to save the wallet of a key, or finds one and does not.
LEMMA SaveStep ==
    ASSUME WalletInv, NEW p \in Pages, Idle(p), NEW type \in Types, NEW key \in Keys,
           type = "R" => key \in stored,
           Save(p, type, WalletOf(type, key, page[p].psw)),
           UNCHANGED <<storage, network, raced>>, fresh' \subseteq fresh
    PROVE  WalletInv'
<1>0. /\ page[p] # Closed /\ page[p].pc = "idle" /\ page[p] \in OpenPages
      /\ PageOK(page[p], fresh, stored) /\ UNCHANGED stored
  BY DEF Idle, WalletInv, PagesOK, network
<1>1. Sets'
  BY <1>0 DEF WalletInv, Sets
<1>2. CASE page' = page
  <2>1. PagesOK'
    BY <1>0, <1>2 DEF WalletInv, PagesOK, PageOK
  <2>2. NetworkOK'
    BY <1>2, NetworkKept
  <2>3. MacsOK' /\ Tidy'
    BY <1>2, StorageKept
  <2> QED
    BY <1>1, <2>1, <2>2, <2>3 DEF WalletInv
<1>3. CASE page' # page
  <2> DEFINE work == [type |-> type, data |-> WalletOf(type, key, page[p].psw), next |-> 1]
             x == [page[p] EXCEPT !.pc = "save", !.work = work]
  <2>1. page' = [page EXCEPT ![p] = x] /\ Here(p)[type].version = Null
    BY <1>3 DEF Save
  <2>2. work \in Works /\ work # Null /\ page[p].psw \in Psws
    <3>1. page[p].psw \in Psws /\ 1 \in 1 .. 6
      BY <1>0 DEF OpenPages
    <3>2. work \in Works
      BY <3>1, WorkFacts
    <3> QED
      BY <3>1, <3>2, WorkFacts
  <2>3. /\ work.type = type /\ work.next = 1
        /\ work.data = WalletOf(type, key, page[p].psw)
    OBVIOUS
  <2> HIDE DEF work
  <2>4. /\ x \in OpenPages /\ x.pc = "save" /\ x.work = work /\ x.device = page[p].device
        /\ x.psw = page[p].psw /\ x.key = page[p].key /\ page[p].device \in Devices
    BY <1>0, <2>2 DEF OpenPages
  <2> HIDE DEF x
  <2>5. PageOK(x, fresh', stored)
    BY <1>0, <2>2, <2>3, <2>4 DEF PageOK
  <2>6. PagesOK' /\ \A q \in Pages : page'[q] = IF q = p THEN x ELSE page[q]
    BY <1>0, <2>1, <2>4, <2>5, OnePage
  <2>7. NetworkOK'
    BY <2>4, <2>6, ClosedApart, NetworkKept
  <2>8. MacsOK'
    BY DEF WalletInv, MacsOK
  <2>9. ASSUME NEW d \in Devices \ raced, NEW t \in Types
        PROVE  TidyAt(d, t)'
    <3> DEFINE s == storage[d][t]
    <3>1. TidyAt(d, t)
      BY DEF WalletInv, Tidy
    <3>2. s.macData # Null =>
             \E k \in Keys, psw \in Psws : s = WalletOf(t, k, psw)
      BY <3>1 DEF TidyAt
    \* Where page p saves there is no wallet, and no page has begun to write one.
    <3>3. CASE SavesTo(x, d, t)
      <4>1. d = page[p].device /\ t = type /\ s.version = Null
        BY <2>1, <2>3, <2>4, <3>3 DEF SavesTo, Here
      <4>2. s.macData = Null
        BY <3>2, <4>1, VersionStored
      <4>3. ASSUME NEW q \in Pages, SavesTo(page[q], d, t)
            PROVE  page[q].work.next = 1
        <5>1. page[q] \in OpenPages /\ PageOK(page[q], fresh, stored) /\ page[q].pc = "save"
          BY <4>3 DEF SavesTo, WalletInv, PagesOK
        <5>2. page[q].work \in Works
          BY <5>1 DEF OpenPages, PageOK
        <5>3. page[q].work.next \in 1 .. 6
          BY <5>2, FieldFacts DEF Works
        <5>4. page[q].work.data.version = Version
          BY <5>1, VersionStored DEF PageOK
        <5>5. ASSUME 1 < page[q].work.next
              PROVE  FALSE
          <6>1. Begun(s, page[q].work)
            BY <3>1, <4>3 DEF TidyAt
          <6>2. s[Fields[1]] = page[q].work.data[Fields[1]]
            BY <5>5, <6>1 DEF Begun
          <6> QED
            BY <4>1, <5>4, <6>2, VersionStored
        <5> QED
          BY <5>3, <5>5
      <4>4. ASSUME NEW q \in Pages, SavesTo(page'[q], d, t)
            PROVE  Begun(s, page'[q].work) /\ ~(page'[q].work.next > 1)
        <5>1. CASE q = p
          BY <2>3, <2>4, <2>6, <4>2, <5>1 DEF Begun
        <5>2. CASE q # p
          <6>1. page'[q] = page[q]
            BY <2>6, <5>2
          <6> QED
            BY <3>1, <4>3, <4>4, <6>1 DEF TidyAt
        <5> QED
          BY <5>1, <5>2
      <4> QED
        BY <3>2, <4>4 DEF TidyAt
    <3>4. CASE ~SavesTo(x, d, t)
      <4>1. \A q \in Pages : SavesTo(page'[q], d, t) =>
               SavesTo(page[q], d, t) /\ page'[q] = page[q]
        BY <2>6, <3>4
      <4> QED
        BY <3>1, <4>1 DEF TidyAt
    <3> QED
      BY <3>3, <3>4
  <2>10. Tidy'
    BY <2>9 DEF Tidy
  <2> QED
    BY <1>1, <2>6, <2>7, <2>8, <2>10 DEF WalletInv
<1> QED
  BY <1>2, <1>3

LEMMA AnsweredStep ==
    ASSUME WalletInv, NEW p \in Pages,
           RegistAnswered(p) \/ RestoreAnswered(p) \/ CreateNonRestoreWallet(p)
    PROVE  WalletInv'
<1>0. "R" \in Types /\ "N" \in Types /\ stored \subseteq Keys
  BY DEF Types, WalletInv, Sets
<1>1. CASE RegistAnswered(p)
  <2>1. PICK a \in answers : a.page = p /\ verifyRegisterWalletMsg(a.msg) /\
           Save(p, "R", createRestoreWallet(page[p].psw, restoreMsg(p, page[p].key)))
    BY <1>1 DEF RegistAnswered
  <2>2. page[p].key \in stored
    BY <2>1 DEF WalletInv, NetworkOK, AnswerOK
  <2>3. createRestoreWallet(page[p].psw, restoreMsg(p, page[p].key))
          = WalletOf("R", page[p].key, page[p].psw)
    BY BackupWhole DEF restoreMsg, generateRestoreDataFormat
  <2> QED
    BY <1>0, <1>1, <2>1, <2>2, <2>3, SaveStep DEF RegistAnswered
<1>2. CASE RestoreAnswered(p)
  <2>1. PICK a \in answers :
           /\ verifyRestoreWalletMsg(a.msg) /\ verifyPsw(page[p].psw, a.msg)
           /\ Save(p, "R", createRestoreWallet(page[p].psw, convertRestoreDataFormat(a.msg)))
    BY <1>2 DEF RestoreAnswered
  <2>2. PICK key \in stored, q \in Psws : Backup(a.msg.prk, a.msg.puk, key, q)
    BY <2>1, NothingRestores DEF WalletInv, NetworkOK, AnswerOK, Held
  <2>3. createRestoreWallet(page[p].psw, convertRestoreDataFormat(a.msg))
          = WalletOf("R", key, page[p].psw)
    BY <2>1, <2>2, BackupRestores
  <2> QED
    BY <1>0, <1>2, <2>1, <2>2, <2>3, SaveStep DEF RestoreAnswered
<1>3. CASE CreateNonRestoreWallet(p)
  <2>1. PICK key \in fresh : /\ Save(p, "N", createNonRestoreWallet(page[p].psw, key))
                             /\ fresh' = fresh \ {key}
    BY <1>3 DEF CreateNonRestoreWallet
  <2>2. key \in Keys
    BY DEF WalletInv, Sets
  <2> QED
    BY <1>0, <1>3, <2>1, <2>2, CreatedWhole, SaveStep DEF CreateNonRestoreWallet
<1> QED
  BY <1>1, <1>2, <1>3

\* A page that is saving, and what it saves.
LEMMA Saver ==
    ASSUME WalletInv, NEW p \in Pages, Saves(p)
    PROVE  /\ page[p] # Closed /\ page[p] \in OpenPages /\ page[p].pc = "save"
           /\ PageOK(page[p], fresh, stored)
           /\ page[p].work \in Works /\ page[p].work.type \in Types
           /\ page[p].work.next \in 1 .. 6 /\ page[p].device \in Devices
           /\ page[p].psw \in Psws
           /\ \E key \in Keys :
                 /\ page[p].work.data = WalletOf(page[p].work.type, key, page[p].psw)
                 /\ page[p].work.type = "R" => key \in stored
<1>1. /\ page[p] # Closed /\ page[p] \in OpenPages /\ page[p].pc = "save"
      /\ PageOK(page[p], fresh, stored)
  BY DEF Saves, WalletInv, PagesOK
<1>2. page[p].work \in Works /\ page[p].device \in Devices /\ page[p].psw \in Psws
  BY <1>1 DEF OpenPages, PageOK
<1>3. page[p].work.type \in Types /\ page[p].work.next \in 1 .. 6
  BY <1>2, FieldFacts DEF Works
<1> QED
  BY <1>1, <1>2, <1>3 DEF PageOK

LEMMA StorageFullStep ==
    ASSUME WalletInv, NEW p \in Pages, StorageFull(p)
    PROVE  WalletInv'
<1> DEFINE x == [page[p] EXCEPT !.pc = "idle", !.work = Null]
<1>1. /\ page' = [page EXCEPT ![p] = x] /\ Saves(p)
      /\ UNCHANGED <<storage, fresh, network, raced>> /\ UNCHANGED stored
  BY DEF StorageFull, network
<1>2. page[p] \in OpenPages /\ PageOK(page[p], fresh, stored) /\ page[p] # Closed
  BY <1>1, Saver
<1>3. x \in OpenPages /\ x.pc = "idle" /\ x.work = Null /\ x.key = page[p].key
  BY <1>2 DEF OpenPages
<1> HIDE DEF x
<1>4. PageOK(x, fresh', stored)
  BY <1>1, <1>2, <1>3 DEF PageOK
<1>5. PagesOK' /\ \A q \in Pages : page'[q] = IF q = p THEN x ELSE page[q]
  BY <1>1, <1>3, <1>4, OnePage
<1>6. NetworkOK'
  BY <1>1, <1>3, <1>5, ClosedApart, NetworkKept
<1>7. MacsOK' /\ Tidy'
  BY <1>1, <1>3, <1>5, StorageKept DEF SavesTo
<1>8. Sets'
  BY <1>1 DEF WalletInv, Sets
<1> QED
  BY <1>5, <1>6, <1>7, <1>8 DEF WalletInv

\* A page writes one item.
LEMMA SetItemStep ==
    ASSUME WalletInv, NEW p \in Pages, SetItem(p)
    PROVE  WalletInv'
<1> DEFINE W == page[p].work
           D == page[p].device
<1>0. PICK d \in Devices, type \in Types, n \in 1 .. 6 :
         d = D /\ type = W.type /\ n = W.next
  BY Saver DEF SetItem
<1>k. PICK key \in Keys, psw \in Psws :
         /\ psw = page[p].psw /\ W.data = WalletOf(type, key, psw)
         /\ type = "R" => key \in stored
  BY <1>0, Saver DEF SetItem
<1>f. PICK f \in FieldNames : f = Fields[n]
  BY FieldFacts
<1>1. /\ Saves(p) /\ UNCHANGED <<fresh, network>> /\ UNCHANGED stored
      /\ storage' = [storage EXCEPT ![d][type][f] = WalletOf(type, key, psw)[f]]
      /\ n < 6 => page' = [page EXCEPT ![p].work.next = n + 1]
      /\ n = 6 => page' = [page EXCEPT ![p].pc = "idle", ![p].work = Null]
      /\ raced' = IF \E q \in Pages \ {p} : Saves(q) /\ SameWallet(p, q)
                  THEN raced \cup {d} ELSE raced
  BY <1>0, <1>k, <1>f, FieldFacts DEF SetItem, network
<1>2. /\ page[p] # Closed /\ page[p] \in OpenPages /\ page[p].pc = "save"
      /\ PageOK(page[p], fresh, stored) /\ W \in Works
  BY <1>1, Saver
<1> DEFINE x == IF n < 6 THEN [page[p] EXCEPT !.work.next = n + 1]
                ELSE [page[p] EXCEPT !.pc = "idle", !.work = Null]
           w == WalletOf(type, key, psw)
           s == [storage[d][type] EXCEPT ![f] = w[f]]
<1>3. /\ x \in OpenPages /\ x.key = page[p].key /\ x.device = d /\ x.psw = psw
      /\ n < 6 => /\ x.pc = "save" /\ x.work \in Works /\ x.work # Null
                  /\ x.work.type = type /\ x.work.data = w /\ x.work.next = n + 1
      /\ n = 6 => x.pc = "idle" /\ x.work = Null
  <2>1. CASE n < 6
    <3>0. n + 1 \in 1 .. 6
      BY <2>1
    <3> DEFINE v == [W EXCEPT !.next = n + 1]
    <3>1. v \in Works /\ v.type = type /\ v.data = w /\ v.next = n + 1
      BY <1>0, <1>2, <1>k, <3>0, FieldFacts DEF Works
    <3>2. x = [page[p] EXCEPT !.work = v]
      BY <2>1
    <3> HIDE DEF v, x, w
    <3>3. v # Null
      BY <3>1, WorkFacts
    <3> QED
      BY <1>0, <1>2, <1>k, <2>1, <3>1, <3>2, <3>3 DEF OpenPages
  <2>2. CASE n = 6
    <3>1. x = [page[p] EXCEPT !.pc = "idle", !.work = Null] /\ ~(n < 6)
      BY <2>2
    <3> HIDE DEF x
    <3> QED
      BY <1>0, <1>2, <1>k, <3>1 DEF OpenPages
  <2> QED
    BY <2>1, <2>2
<1>4. page' = [page EXCEPT ![p] = x]
  <2>1. CASE n < 6
    <3>1. [page EXCEPT ![p].work.next = n + 1]
            = [page EXCEPT ![p] = [page[p] EXCEPT !.work.next = n + 1]]
      OBVIOUS
    <3> QED
      BY <1>1, <2>1, <3>1
  <2>2. CASE n = 6
    <3>1. [page EXCEPT ![p].pc = "idle", ![p].work = Null]
            = [page EXCEPT ![p] = [page[p] EXCEPT !.pc = "idle", !.work = Null]]
      BY DEF WalletInv, PagesOK
    <3>2. ~(n < 6)
      BY <2>2
    <3> QED
      BY <1>1, <2>2, <3>1, <3>2
  <2> QED
    BY <2>1, <2>2
<1>5. /\ w \in [FieldNames -> Terms] /\ w.macData = MacOf(type, key, psw)
      /\ w = [g \in FieldNames |-> w[g]]
  <2>1. /\ w.macData = MacOf(type, key, psw) /\ w = [g \in FieldNames |-> w[g]]
    BY WalletFields
  <2>2. \A g \in FieldNames : w[g] \in Terms
    BY DEF Terms
  <2> QED
    BY <2>1, <2>2
<1>6. /\ storage \in [Devices -> [Types -> [FieldNames -> Terms]]]
      /\ storage[d][type] \in [FieldNames -> Terms]
  BY DEF WalletInv, Sets
<1> HIDE DEF x, w
<1>7. /\ s \in [FieldNames -> Terms] /\ s[f] = w[f]
      /\ \A g \in FieldNames \ {f} : s[g] = storage[d][type][g]
  BY <1>5, <1>6
<1>8. storage' = [storage EXCEPT ![d] = [storage[d] EXCEPT ![type] = s]]
  BY <1>1 DEF w
<1> HIDE DEF s
<1>9. /\ storage' \in [Devices -> [Types -> [FieldNames -> Terms]]]
      /\ \A e \in Devices, u \in Types :
            storage'[e][u] = IF e = d /\ u = type THEN s ELSE storage[e][u]
  BY <1>6, <1>7, <1>8
<1>10. Sets'
  BY <1>1, <1>9 DEF WalletInv, Sets, network
<1>11. PageOK(x, fresh', stored)
  BY <1>1, <1>2, <1>3, <1>k DEF PageOK, w
<1>12. PagesOK' /\ \A q \in Pages : page'[q] = IF q = p THEN x ELSE page[q]
  <2>1. x \in OpenPages \cup {Closed} /\ fresh' \subseteq fresh /\ UNCHANGED stored
    BY <1>1, <1>3
  <2> QED
    BY <1>4, <1>11, <2>1, OnePage
<1>13. NetworkOK'
  BY <1>1, <1>3, <1>12, ClosedApart, NetworkKept
<1>14. /\ "macData" \in FieldNames
       /\ n = 6 => s.macData = MacOf(type, key, psw)
       /\ n < 6 => s.macData = storage[d][type].macData
  <2>1. n = 6 => f = "macData"
    BY <1>f, FieldFacts
  <2>2. n < 6 => n \in 1 .. 5 /\ f # "macData"
    BY <1>f, FieldFacts
  <2> QED
    BY <1>5, <1>7, <2>1, <2>2, FieldFacts
<1>15. n < 6 \/ n = 6
  OBVIOUS
<1>16. MacsOK'
  BY <1>9, <1>14, <1>15 DEF WalletInv, MacsOK
<1>17. ASSUME NEW e \in Devices \ raced', NEW u \in Types
       PROVE  TidyAt(e, u)'
  <2>0. raced \subseteq raced' /\ e \in Devices \ raced /\ TidyAt(e, u)
    BY <1>1, <1>17 DEF WalletInv, Tidy
  <2>1. CASE ~(e = d /\ u = type)
    <3>1. storage'[e][u] = storage[e][u]
      BY <1>9, <2>0, <2>1
    <3>2. \A q \in Pages : SavesTo(page'[q], e, u) =>
             SavesTo(page[q], e, u) /\ page'[q] = page[q]
      BY <1>3, <1>12, <1>15, <2>1 DEF SavesTo
    <3> QED
      BY <2>0, <3>1, <3>2 DEF TidyAt
  <2>2. CASE e = d /\ u = type
    <3>1. ASSUME NEW q \in Pages \ {p}, SavesTo(page[q], d, type)
          PROVE  FALSE
      <4>1. Saves(q) /\ SameWallet(p, q)
        BY <1>0, <3>1 DEF SavesTo, Saves, SameWallet
      <4>2. d \in raced'
        BY <1>1, <4>1
      <4> QED
        BY <1>17, <2>2, <4>2
    <3>2. SavesTo(page[p], d, type)
      BY <1>0, <1>2 DEF SavesTo
    <3>3. Begun(storage[d][type], W)
      BY <2>0, <2>2, <3>2 DEF TidyAt
    <3>4. \A q \in Pages \ {p} : ~SavesTo(page'[q], d, type)
      BY <1>12, <3>1
    <3>5. storage'[d][type] = s
      BY <1>9
    <3>6. \A i \in 1 .. 6 : i < n + 1 => s[Fields[i]] = w[Fields[i]]
      <4> SUFFICES ASSUME NEW i \in 1 .. 6, i < n + 1
                   PROVE  s[Fields[i]] = w[Fields[i]]
        OBVIOUS
      <4>1. CASE i = n
        BY <1>7, <1>f, <4>1
      <4>2. CASE i # n
        <5>1. i < n /\ Fields[i] # f /\ Fields[i] \in FieldNames
          BY <1>f, <4>2, FieldFacts
        <5>2. storage[d][type][Fields[i]] = W.data[Fields[i]]
          BY <1>0, <3>3, <5>1 DEF Begun
        <5> QED
          BY <1>7, <1>k, <5>1, <5>2 DEF w
      <4> QED
        BY <4>1, <4>2
    <3>7. CASE n < 6
      <4>1. s.macData = Null
        BY <1>14, <3>3, <3>7 DEF Begun
      <4>2. Begun(s, x.work)
        BY <1>3, <3>6, <3>7, <4>1 DEF Begun
      <4> QED
        BY <1>12, <2>2, <3>4, <3>5, <4>1, <4>2 DEF TidyAt
    <3>8. CASE n = 6
      <4>1. \A g \in FieldNames : s[g] = w[g]
        <5>1. \A i \in 1 .. 6 : i < n + 1
          BY <3>8
        <5> QED
          BY <3>6, <5>1, FieldFacts
      <4>2. s = w
        BY <1>5, <1>7, <4>1
      <4>3. ~SavesTo(x, d, type)
        BY <1>3, <3>8 DEF SavesTo
      <4>4. \A q \in Pages : ~SavesTo(page'[q], d, type)
        BY <1>12, <3>4, <4>3
      <4> QED
        BY <2>2, <3>5, <4>2, <4>4 DEF TidyAt, w
    <3> QED
      BY <1>15, <3>7, <3>8
  <2> QED
    BY <2>1, <2>2
<1>18. Tidy'
  BY <1>17 DEF Tidy
<1> QED
  BY <1>10, <1>12, <1>13, <1>16, <1>18 DEF WalletInv

-----------------------------------------------------------------------------
(* The server                                                                *)

\* An answer that is right goes to a page that is open.
LEMMA AnswerStep ==
    ASSUME WalletInv, NEW r \in requests, NEW msg, Answer(r, msg),
           UNCHANGED <<storage, page, fresh, requests, raced>>,
           stored \subseteq stored', stored' \subseteq Keys \ fresh, AccountsOK',
           r.page # Closed => AnswerOK([page |-> r.page, msg |-> msg], page, stored')
    PROVE  WalletInv'
<1>1. Sets'
  BY DEF WalletInv, Sets
<1>2. ASSUME NEW p \in Pages, page[p] # Closed
      PROVE  PageOK(page[p], fresh, stored')
  BY <1>2 DEF WalletInv, PagesOK, PageOK
<1>3. PagesOK'
  BY <1>2 DEF WalletInv, PagesOK
<1>4. ASSUME NEW a \in answers
      PROVE  AnswerOK(a, page, stored')
  BY <1>4 DEF WalletInv, NetworkOK, AnswerOK, Held
<1>5. \A a \in answers' : AnswerOK(a, page', stored')
  BY <1>4 DEF Answer
<1>6. NetworkOK'
  BY <1>5 DEF WalletInv, NetworkOK
<1>7. MacsOK' /\ Tidy'
  BY StorageKept
<1> QED
  BY <1>1, <1>3, <1>6, <1>7 DEF WalletInv

LEMMA RegistFranchWalletStep ==
    ASSUME WalletInv, RegistFranchWallet
    PROVE  WalletInv'
<1>1. PICK r \in requests :
          /\ r.msg.header = "BCWalletRegistReq"
          /\ IF r.msg.id \in DOMAIN wallet
             THEN /\ wallet' = [wallet EXCEPT ![r.msg.id] =
                                  [prk |-> r.msg.prk, puk |-> r.msg.puk]]
                  /\ stored' = stored \cup {r.key}
                  /\ Answer(r, [header |-> "BCWalletRegistRes", result |-> "6080"])
             ELSE /\ Answer(r, [header |-> "BCWalletRegistRes", result |-> "6081"])
                  /\ UNCHANGED <<wallet, stored>>
  BY DEF RegistFranchWallet
<1>2. UNCHANGED <<storage, page, fresh, requests, raced>>
  BY DEF RegistFranchWallet
<1>3. /\ RequestOK(r, page, fresh) /\ r.key \in Keys \ fresh /\ stored \subseteq Keys \ fresh
      /\ r.page \in Pages \cup {Closed}
      /\ r.page # Closed => page[r.page] # Closed /\ page[r.page].key = r.key
      /\ \E psw \in Psws : Backup(r.msg.prk, r.msg.puk, r.key, psw)
  BY <1>1, ClosedApart DEF WalletInv, Sets, NetworkOK, RequestOK
<1>4. CASE r.msg.id \in DOMAIN wallet
  <2> DEFINE msg == [header |-> "BCWalletRegistRes", result |-> "6080"]
             a == [page |-> r.page, msg |-> msg]
  <2>1. /\ stored' = stored \cup {r.key} /\ Answer(r, msg)
        /\ wallet' = [wallet EXCEPT ![r.msg.id] = [prk |-> r.msg.prk, puk |-> r.msg.puk]]
    BY <1>1, <1>4
  <2>2. /\ a.page = r.page /\ a.msg = msg /\ ~verifyRestoreWalletMsg(msg)
    BY DEF verifyRestoreWalletMsg
  <2> HIDE DEF msg, a
  <2>3. r.page # Closed => AnswerOK(a, page, stored')
    BY <1>3, <2>1, <2>2 DEF AnswerOK
  <2>4. AccountsOK
    BY DEF WalletInv, NetworkOK
  <2>5. /\ DOMAIN wallet' = DOMAIN wallet
        /\ wallet' = [id \in DOMAIN wallet |-> wallet'[id]]
        /\ \A id \in DOMAIN wallet :
              wallet'[id] = IF id = r.msg.id THEN [prk |-> r.msg.prk, puk |-> r.msg.puk]
                            ELSE wallet[id]
    BY <2>1, <2>4 DEF AccountsOK
  <2>6. ASSUME NEW id \in DOMAIN wallet
        PROVE  Held(wallet'[id].prk, wallet'[id].puk, stored')
    <3>1. CASE id = r.msg.id
      <4>1. wallet'[id].prk = r.msg.prk /\ wallet'[id].puk = r.msg.puk
        BY <2>5, <3>1
      <4> QED
        BY <1>3, <2>1, <4>1 DEF Held
    <3>2. CASE id # r.msg.id
      BY <2>1, <2>4, <2>5, <3>2 DEF AccountsOK, Held
    <3> QED
      BY <3>1, <3>2
  <2>7. AccountsOK'
    BY <2>4, <2>5, <2>6 DEF AccountsOK
  <2>8. stored \subseteq stored' /\ stored' \subseteq Keys \ fresh
    BY <1>3, <2>1
  <2> QED
    BY <1>2, <2>1, <2>3, <2>7, <2>8, AnswerStep DEF a
<1>5. CASE r.msg.id \notin DOMAIN wallet
  <2> DEFINE msg == [header |-> "BCWalletRegistRes", result |-> "6081"]
             a == [page |-> r.page, msg |-> msg]
  <2>1. Answer(r, msg) /\ UNCHANGED <<wallet, stored>>
    BY <1>1, <1>5
  <2>2. /\ a.page = r.page /\ a.msg = msg /\ ~verifyRestoreWalletMsg(msg)
        /\ ~verifyRegisterWalletMsg(msg)
    BY DEF verifyRestoreWalletMsg, verifyRegisterWalletMsg
  <2> HIDE DEF msg, a
  <2>3. r.page # Closed => AnswerOK(a, page, stored')
    BY <1>3, <2>1, <2>2 DEF AnswerOK
  <2>4. AccountsOK'
    BY <2>1 DEF WalletInv, NetworkOK, AccountsOK
  <2> QED
    BY <1>2, <1>3, <2>1, <2>3, <2>4, AnswerStep DEF a
<1> QED
  BY <1>4, <1>5

LEMMA SelectFranchWalletStep ==
    ASSUME WalletInv, SelectFranchWallet
    PROVE  WalletInv'
<1>1. PICK r \in requests :
         IF r.msg.id \in DOMAIN wallet
         THEN Answer(r, [header |-> "BCWalletRestoreRes", result |-> "6084",
                         prk |-> wallet[r.msg.id].prk, puk |-> wallet[r.msg.id].puk])
         ELSE Answer(r, [header |-> "BCWalletRestoreRes", result |-> "6085"])
  BY DEF SelectFranchWallet
<1>2. UNCHANGED <<storage, page, fresh, requests, raced>> /\ UNCHANGED <<wallet, stored>>
  BY DEF SelectFranchWallet
<1>3. /\ stored \subseteq Keys \ fresh /\ r.page \in Pages \cup {Closed}
      /\ r.page # Closed => page[r.page] # Closed
      /\ \A id \in DOMAIN wallet : Held(wallet[id].prk, wallet[id].puk, stored)
  BY <1>1 DEF WalletInv, Sets, NetworkOK, RequestOK, AccountsOK
<1>4. AccountsOK'
  BY <1>2 DEF WalletInv, NetworkOK, AccountsOK
<1>5. CASE r.msg.id \in DOMAIN wallet
  <2> DEFINE msg == [header |-> "BCWalletRestoreRes", result |-> "6084",
                     prk |-> wallet[r.msg.id].prk, puk |-> wallet[r.msg.id].puk]
             a == [page |-> r.page, msg |-> msg]
  <2>1. Answer(r, msg)
    BY <1>1, <1>5
  <2>2. /\ a.page = r.page /\ a.msg = msg /\ ~verifyRegisterWalletMsg(msg)
        /\ msg.prk = wallet[r.msg.id].prk /\ msg.puk = wallet[r.msg.id].puk
    BY DEF verifyRegisterWalletMsg
  <2> HIDE DEF msg, a
  <2>3. r.page # Closed => AnswerOK(a, page, stored')
    BY <1>2, <1>3, <1>5, <2>2 DEF AnswerOK
  <2> QED
    BY <1>2, <1>3, <1>4, <2>1, <2>3, AnswerStep DEF a
<1>6. CASE r.msg.id \notin DOMAIN wallet
  <2> DEFINE msg == [header |-> "BCWalletRestoreRes", result |-> "6085"]
             a == [page |-> r.page, msg |-> msg]
  <2>1. Answer(r, msg)
    BY <1>1, <1>6
  <2>2. /\ a.page = r.page /\ a.msg = msg /\ ~verifyRestoreWalletMsg(msg)
        /\ ~verifyRegisterWalletMsg(msg)
    BY DEF verifyRestoreWalletMsg, verifyRegisterWalletMsg
  <2> HIDE DEF msg, a
  <2>3. r.page # Closed => AnswerOK(a, page, stored')
    BY <1>2, <1>3, <2>2 DEF AnswerOK
  <2> QED
    BY <1>2, <1>3, <1>4, <2>1, <2>3, AnswerStep DEF a
<1> QED
  BY <1>5, <1>6

-----------------------------------------------------------------------------
(* The theorems                                                              *)

LEMMA InvStep == WalletInv /\ [Next]_vars => WalletInv'
<1> SUFFICES ASSUME WalletInv, [Next]_vars PROVE WalletInv'
  OBVIOUS
<1>1. CASE RegistFranchWallet
  BY <1>1, RegistFranchWalletStep
<1>2. CASE SelectFranchWallet
  BY <1>2, SelectFranchWalletStep
<1>3. ASSUME NEW p \in Pages, PageStep(p)
      PROVE  WalletInv'
  BY <1>3, LoadPageStep, ClosePageStep, ClickStep, AnsweredStep, SetItemStep, StorageFullStep
     DEF PageStep
<1>4. CASE UNCHANGED vars
  BY <1>4 DEF vars, WalletInv, Sets, PagesOK, NetworkOK, AccountsOK, MacsOK, Tidy, TidyAt
<1> QED
  BY <1>1, <1>2, <1>3, <1>4 DEF Next

LEMMA InvHolds == Spec => []WalletInv
<1> QED
  BY InvInit, InvStep, PTL DEF Spec

\* Storage, pages, messages and accounts keep their types.
THEOREM BrowserTypeSafe == Spec => []TypeOK
<1> QED
  BY InvHolds, InvTypeOK, PTL

\* What verifyMAC lets a page sign with is the private key of the public key
\* that is stored beside it, on every device, also one where two pages saved at
\* once and left a mixture: a MAC is always that of one wallet.
THEOREM BrowserSignatureVerifies == Spec => []SignatureVerifies
<1> QED
  BY InvHolds, InvSigns, PTL

\* A wallet that saveData has given its MAC is whole, on every device on which
\* no two pages saved a wallet of one type at once.
THEOREM BrowserWalletConsistent == Spec => []WalletConsistent
<1> QED
  BY InvHolds, InvConsistent, PTL

-----------------------------------------------------------------------------
(* The promise: what a device keeps, and the step each step implements        *)

KeptFact ==
    \A d \in Devices, type \in Types :
       /\ storage[d][type].macData = Null \/ d \in raced => kept[d][type] = <<>>
       /\ \A key \in Keys, psw \in Psws :
             d \notin raced /\ storage[d][type].macData = MacOf(type, key, psw)
                => kept[d][type] = <<key, psw>>

LEMMA MacSays ==
    ASSUME NEW type, NEW k, NEW q, NEW key, NEW psw, MacOf(type, k, q) = MacOf(type, key, psw)
    PROVE  k = key /\ q = psw
<1>1. /\ MacOf(type, k, q).puk = Puk(k) /\ MacOf(type, k, q).psw = q
      /\ MacOf(type, key, psw).puk = Puk(key) /\ MacOf(type, key, psw).psw = psw
  BY DEF MacOf
<1> QED
  BY <1>1, TermsDiffer

LEMMA KeptIs == WalletInv => KeptFact
<1> SUFFICES ASSUME WalletInv, NEW d \in Devices, NEW type \in Types
             PROVE  /\ storage[d][type].macData = Null \/ d \in raced => kept[d][type] = <<>>
                    /\ \A key \in Keys, psw \in Psws :
                          d \notin raced /\ storage[d][type].macData = MacOf(type, key, psw)
                             => kept[d][type] = <<key, psw>>
  BY DEF KeptFact
<1>1. kept[d][type] = IF d \in raced \/ Installed(d, type) = {} THEN <<>>
                      ELSE CHOOSE w \in Installed(d, type) : TRUE
  BY DEF kept
<1>2. storage[d][type].macData = Null => Installed(d, type) = {}
  BY DEF Installed
<1>3. ASSUME NEW key \in Keys, NEW psw \in Psws, d \notin raced,
             storage[d][type].macData = MacOf(type, key, psw)
      PROVE  Installed(d, type) = {<<key, psw>>}
  <2> DEFINE s == storage[d][type]
  <2>1. s.macData # Null
    BY <1>3, TermsDiffer
  <2>2. PICK k \in Keys, q \in Psws : s = WalletOf(type, k, q)
    BY <1>3, <2>1 DEF WalletInv, Tidy, TidyAt
  <2>3. MacOf(type, k, q) = MacOf(type, key, psw)
    BY <1>3, <2>2, WalletFields
  <2>4. s = WalletOf(type, key, psw)
    BY <2>2, <2>3, MacSays
  <2>5. <<key, psw>> \in Installed(d, type)
    BY <2>1, <2>4, WholeIs DEF Installed
  <2>6. ASSUME NEW w \in Installed(d, type)
        PROVE  w = <<key, psw>>
    <3>1. PICK k2 \in Keys, q2 \in Psws : w = <<k2, q2>>
      BY <2>1 DEF Installed
    <3>2. s = Whole[type][<<k2, q2>>]
      BY <2>1, <3>1 DEF Installed
    <3>3. MacOf(type, k2, q2) = MacOf(type, key, psw)
      BY <1>3, <3>2, WholeIs, WalletFields
    <3> QED
      BY <3>1, <3>3, MacSays
  <2> QED
    BY <2>5, <2>6
<1> QED
  BY <1>1, <1>2, <1>3

LEMMA KeptNext == WalletInv' => KeptFact'
<1> QED
  BY KeptIs, PTL

LEMMA PromiseInit == Init => Promise!Init
<1> SUFFICES ASSUME Init PROVE Promise!Init
  OBVIOUS
<1>1. KeptFact
  BY InvInit, KeptIs
<1>2. \A d \in Devices, type \in Types : storage[d][type].macData = Null
  BY FieldFacts DEF Init, Empty
<1>3. \A d \in Devices, type \in Types : kept[d][type] = <<>>
  BY <1>1, <1>2 DEF KeptFact
<1>4. kept = [d \in Devices |-> [type \in Types |-> <<>>]]
  BY <1>3 DEF kept
<1> QED
  BY <1>4 DEF Promise!Init, Init

\* A step that changes neither storage nor raced keeps what devices keep.
LEMMA KeptStays ==
    ASSUME UNCHANGED <<storage, raced>>
    PROVE  UNCHANGED kept
BY DEF kept, Installed

AnyOf(S) == CHOOSE w \in S : TRUE

LEMMA KeptAt ==
    ASSUME NEW e \in Devices, NEW u \in Types,
           storage'[e][u] = storage[e][u], e \in raced' <=> e \in raced
    PROVE  kept'[e][u] = kept[e][u]
<1>1. Installed(e, u)' = Installed(e, u)
  BY DEF Installed
<1>2. kept[e][u] = IF e \in raced \/ Installed(e, u) = {} THEN <<>> ELSE AnyOf(Installed(e, u))
  BY DEF kept, AnyOf
<1>3. kept'[e][u] = IF e \in raced' \/ Installed(e, u)' = {} THEN <<>>
                    ELSE AnyOf(Installed(e, u)')
  BY DEF kept, AnyOf
<1> HIDE DEF AnyOf
<1> QED
  BY <1>1, <1>2, <1>3

\* The item that completes a wallet installs it; one written beside another
\* page is a race; any other changes nothing that is promised.
LEMMA SetItemPromise ==
    ASSUME WalletInv, WalletInv', NEW p \in Pages, SetItem(p)
    PROVE  Promise!Next \/ UNCHANGED <<kept, stored, raced>>
<1> DEFINE W == page[p].work
           D == page[p].device
<1>0. PICK d \in Devices, type \in Types, n \in 1 .. 6 :
         d = D /\ type = W.type /\ n = W.next
  BY Saver DEF SetItem
<1>k. PICK key \in Keys, psw \in Psws :
         /\ psw = page[p].psw /\ W.data = WalletOf(type, key, psw)
         /\ type = "R" => key \in stored
  BY <1>0, Saver DEF SetItem
<1>f. PICK f \in FieldNames : f = Fields[n]
  BY FieldFacts
<1> DEFINE w == WalletOf(type, key, psw)
<1>1. /\ storage' = [storage EXCEPT ![d][type][f] = w[f]] /\ UNCHANGED stored
      /\ raced' = raced \/ raced' = raced \cup {d}
  BY <1>0, <1>k, <1>f, FieldFacts DEF SetItem, network
<1>2. w.macData = MacOf(type, key, psw)
  BY WalletFields
<1> HIDE DEF w
<1>3. /\ \A e \in Devices, u \in Types :
            ~(e = d /\ u = type) => storage'[e][u] = storage[e][u]
      /\ \A e \in Devices \ {d} : storage'[e] = storage[e]
      /\ storage'[d][type].macData = IF f = "macData" THEN w.macData
                                     ELSE storage[d][type].macData
  BY <1>1, FieldFacts DEF WalletInv, Sets
<1>4. f = "macData" <=> n = 6
  <2>1. n = 6 \/ n \in 1 .. 5
    OBVIOUS
  <2> QED
    BY <1>f, <2>1, FieldFacts
<1>5. CASE d \in raced'
  <2>1. raced' = raced \cup {d}
    BY <1>1, <1>5
  <2>2. ASSUME NEW e \in Devices \ raced'
        PROVE  kept'[e] = kept[e]
    <3>1. \A u \in Types : kept'[e][u] = kept[e][u]
      BY <1>3, <2>1, KeptAt
    <3>2. kept'[e] = [u \in Types |-> kept'[e][u]] /\ kept[e] = [u \in Types |-> kept[e][u]]
      BY DEF kept
    <3> QED
      BY <3>1, <3>2
  <2>3. Promise!Race
    BY <1>1, <2>1, <2>2 DEF Promise!Race
  <2> QED
    BY <2>3 DEF Promise!Next
<1>6. CASE d \notin raced'
  <2>1. UNCHANGED raced /\ d \notin raced
    BY <1>1, <1>6
  <2>2. KeptFact /\ KeptFact'
    BY KeptIs, KeptNext
  <2>3. storage[d][type].macData = Null
    <3>1. SavesTo(page[p], d, type)
      BY <1>0 DEF SetItem, Saves, SavesTo
    <3> QED
      BY <2>1, <3>1 DEF WalletInv, Tidy, TidyAt, Begun
  <2>4. kept[d][type] = <<>>
    BY <2>2, <2>3 DEF KeptFact
  <2>5. \A e \in Devices, u \in Types :
           ~(e = d /\ u = type) => kept'[e][u] = kept[e][u]
    BY <1>3, <2>1, KeptAt
  <2>6. /\ kept = [e \in Devices |-> [u \in Types |-> kept[e][u]]]
        /\ kept' = [e \in Devices |-> [u \in Types |-> kept'[e][u]]]
    BY DEF kept
  <2>7. CASE n # 6
    <3>1. storage'[d][type].macData = Null
      BY <1>3, <1>4, <2>3, <2>7
    <3>2. kept'[d][type] = <<>>
      BY <2>2, <3>1 DEF KeptFact
    <3>3. \A e \in Devices, u \in Types : kept'[e][u] = kept[e][u]
      BY <2>4, <2>5, <3>2
    <3>4. UNCHANGED kept
      BY <2>6, <3>3
    <3> QED
      BY <1>1, <2>1, <3>4
  <2>8. CASE n = 6
    <3>1. storage'[d][type].macData = MacOf(type, key, psw)
      BY <1>2, <1>3, <1>4, <2>8
    <3>2. kept'[d][type] = <<key, psw>>
      BY <1>6, <2>2, <3>1 DEF KeptFact
    <3>3. kept' = [kept EXCEPT ![d][type] = <<key, psw>>]
      <4>1. [kept EXCEPT ![d][type] = <<key, psw>>]
              = [e \in Devices |-> [u \in Types |->
                    IF e = d /\ u = type THEN <<key, psw>> ELSE kept[e][u]]]
        <5> DEFINE row == [kept[d] EXCEPT ![type] = <<key, psw>>]
        <5>1. row = [u \in Types |-> IF u = type THEN <<key, psw>> ELSE kept[d][u]]
          <6>1. DOMAIN kept[d] = Types
            BY <2>6
          <6> QED
            BY <6>1
        <5>2. [kept EXCEPT ![d][type] = <<key, psw>>] = [kept EXCEPT ![d] = row]
          OBVIOUS
        <5> HIDE DEF row
        <5>3. [kept EXCEPT ![d] = row] = [e \in Devices |-> IF e = d THEN row ELSE kept[e]]
          <6>1. DOMAIN kept = Devices
            BY <2>6
          <6> QED
            BY <6>1
        <5>4. \A e \in Devices : kept[e] = [u \in Types |-> kept[e][u]]
          BY <2>6
        <5>5. ASSUME NEW e \in Devices
              PROVE  (IF e = d THEN row ELSE kept[e]) = [u \in Types |->
                        IF e = d /\ u = type THEN <<key, psw>> ELSE kept[e][u]]
          BY <5>1, <5>4
        <5> QED
          BY <5>2, <5>3, <5>5
      <4>2. \A e \in Devices, u \in Types :
               kept'[e][u] = IF e = d /\ u = type THEN <<key, psw>> ELSE kept[e][u]
        BY <2>5, <3>2
      <4> QED
        BY <2>6, <4>1, <4>2
    <3>4. Promise!Install
      BY <1>1, <1>k, <2>1, <2>4, <3>3 DEF Promise!Install
    <3> QED
      BY <3>4 DEF Promise!Next
  <2> QED
    BY <2>7, <2>8
<1> QED
  BY <1>5, <1>6

LEMMA PromiseStep ==
    WalletInv /\ WalletInv' /\ [Next]_vars => [Promise!Next]_<<kept, stored, raced>>
<1> SUFFICES ASSUME WalletInv, WalletInv', [Next]_vars
             PROVE  Promise!Next \/ UNCHANGED <<kept, stored, raced>>
  OBVIOUS
<1>1. ASSUME UNCHANGED <<storage, raced>>, UNCHANGED stored
      PROVE  UNCHANGED <<kept, stored, raced>>
  BY <1>1, KeptStays
<1>2. CASE RegistFranchWallet
  <2>1. PICK r \in requests : r.msg.header = "BCWalletRegistReq" /\
           (stored' = stored \cup {r.key} \/ UNCHANGED stored)
    BY <1>2 DEF RegistFranchWallet
  <2>2. UNCHANGED <<kept, raced>>
    BY <1>2, KeptStays DEF RegistFranchWallet
  <2>3. r.key \in Keys
    BY <2>1 DEF WalletInv, NetworkOK, RequestOK
  <2>4. CASE stored' = stored \cup {r.key}
    BY <2>2, <2>3, <2>4 DEF Promise!Backup, Promise!Next
  <2> QED
    BY <2>1, <2>2, <2>4
<1>3. CASE SelectFranchWallet
  BY <1>1, <1>3 DEF SelectFranchWallet
<1>4. ASSUME NEW p \in Pages, PageStep(p)
      PROVE  Promise!Next \/ UNCHANGED <<kept, stored, raced>>
  <2>1. CASE SetItem(p)
    BY <2>1, SetItemPromise
  <2>2. CASE LoadPage(p) \/ ClosePage(p) \/ ClickRegist(p) \/ ClickRestore(p)
    BY <1>1, <2>2 DEF LoadPage, ClosePage, ClickRegist, ClickRestore, network
  <2>3. CASE RegistAnswered(p) \/ RestoreAnswered(p) \/ CreateNonRestoreWallet(p)
               \/ StorageFull(p)
    BY <1>1, <2>3 DEF RegistAnswered, RestoreAnswered, CreateNonRestoreWallet, StorageFull,
                      network
  <2> QED
    BY <1>4, <2>1, <2>2, <2>3 DEF PageStep
<1>5. CASE UNCHANGED vars
  BY <1>1, <1>5 DEF vars
<1> QED
  BY <1>2, <1>3, <1>4, <1>5 DEF Next

\* The browser's wallets implement the promise: where no two pages saved at once,
\* a device keeps the first wallet of each type that saveData completed, and a
\* restorable one appears only after registFranchWallet stored its backup.
THEOREM BrowserKeepsWallets == Spec => KeepsWallets
<1>1. Promise!vars = <<kept, stored, raced>>
  BY DEF Promise!vars
<1>2. WalletInv /\ WalletInv' /\ [Next]_vars => [Promise!Next]_(Promise!vars)
  BY <1>1, PromiseStep DEF Promise!vars
<1> QED
  BY <1>2, PromiseInit, InvHolds, PTL DEF Spec, KeepsWallets, Promise!Spec

=============================================================================
