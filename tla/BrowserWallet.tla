----------------------------- MODULE BrowserWallet -----------------------------
(***************************************************************************)
(* Wallets in a browser: pages of the franchise's web site (FranchiseWallet- *)
(* CreateAndRestoreTest, NonAndRestoreWalletTest) that create, restore and   *)
(* use wallets in the browser's localStorage, and the server that keeps the  *)
(* backups (registFranchWallet, SelectFranchWallet).                         *)
(*                                                                           *)
(* Pages of one device share its storage.  What a handler reads from it is   *)
(* read at once, what it writes is written item by item, and a page may be   *)
(* closed, or its storage be full, between two items.                        *)
(***************************************************************************)
EXTENDS WalletData, FiniteSets

CONSTANTS Pages, Devices, Ids,
          MaxRequests, \* a bound: clicks that send something
          Closed      \* a page that is not open

VARIABLES storage,    \* localStorage of each device
          page,       \* the open pages and what they are doing
          fresh,      \* key pairs not yet drawn
          requests,   \* sent to the server, which may handle them late and, as users
                      \* click again, several times
          answers,    \* sent by the server
          wallet,     \* the wallet columns of the accounts the server has
          stored,     \* keys whose backup the server ever stored
          raced       \* devices on which two pages saved at the same time

vars == <<storage, page, fresh, requests, answers, wallet, stored, raced>>
network == <<requests, answers, wallet, stored>>

\* The wallet of every key and password.
Whole == [type \in Types |-> [w \in Keys \X Psws |->
             Wallet(type, w[2], Salt(w[1]), EncryptPrk(w[2], Salt(w[1]), Prk(w[1])), Puk(w[1]))]]

\* What a page saves: a wallet, and the item it writes next.
Works == [type : Types, data : {Whole[type][w] : type \in Types, w \in Keys \X Psws},
          next : DOMAIN Fields]
OpenPages == [pc : {"idle", "save"}, device : Devices, psw : Psws, key : Keys \cup {Closed},
              work : Works \cup {Null}]

BrowserWalletAssumption == /\ MaxRequests \in Nat
                           /\ Closed \notin Keys \cup Pages \cup OpenPages
ASSUME BrowserWalletAssumption

NoWallet == [prk |-> Null, puk |-> <<>>]

Init == /\ storage = [d \in Devices |-> [type \in Types |-> Empty]]
        /\ page = [p \in Pages |-> Closed]
        /\ fresh = Keys
        /\ requests = {} /\ answers = {}
        /\ \E accounts \in SUBSET Ids : wallet = [id \in accounts |-> NoWallet]
        /\ stored = {} /\ raced = {}

Idle(p) == page[p] # Closed /\ page[p].pc = "idle"
Here(p) == storage[page[p].device]

-----------------------------------------------------------------------------
(* Pages                                                                     *)

LoadPage(p) ==
    /\ page[p] = Closed
    /\ \E d \in Devices, psw \in Psws :
          page' = [page EXCEPT ![p] = [pc |-> "idle", device |-> d, psw |-> psw,
                                       key |-> Closed, work |-> Null]]
    /\ UNCHANGED <<storage, fresh, network, raced>>

\* A mistaken close: an answer on its way is still delivered.
CloseSilently(p) ==
    /\ page[p] # Closed
    /\ page' = [page EXCEPT ![p] = Closed]
    /\ UNCHANGED <<storage, fresh, network, raced>>

\* Requests of a page that is gone are still handled, the answers reach nobody.
ClosePage(p) ==
    /\ page[p] # Closed
    /\ page' = [page EXCEPT ![p] = Closed]
    /\ requests' = {IF r.page = p THEN [r EXCEPT !.page = Closed] ELSE r : r \in requests}
    /\ answers' = {a \in answers : a.page # p}
    /\ UNCHANGED <<storage, fresh, wallet, stored, raced>>

\* The script draws the key pair of the backup when the page is loaded; it is
\* not used before the first click, so it is drawn then.
DrawKey(p, key) ==
    IF page[p].key = Closed
    THEN /\ key \in fresh
         /\ fresh' = fresh \ {key}
         /\ page' = [page EXCEPT ![p].key = key]
    ELSE /\ key = page[p].key
         /\ UNCHANGED <<fresh, page>>

restoreMsg(p, key) == generateRestoreDataFormat(page[p].psw, key)

Send(p, key, msg) ==
    /\ Cardinality(requests) < MaxRequests
    /\ requests' = requests \cup {[page |-> p, key |-> key, msg |-> msg]}

ClickRegist(p) ==
    /\ Idle(p)
    /\ \E id \in Ids, key \in Keys :
          /\ DrawKey(p, key)
          /\ Send(p, key, generateWalletRegistMsg(id, restoreMsg(p, key)))
    /\ UNCHANGED <<storage, answers, wallet, stored, raced>>

ClickRestore(p) ==
    /\ Idle(p)
    /\ \E id \in Ids : Send(p, Closed, generateRestoreWalletMsg(id))
    /\ UNCHANGED <<storage, page, fresh, answers, wallet, stored, raced>>

\* A mistaken save: it does not look for a wallet.
SaveAnyway(p, type, data) ==
    page' = [page EXCEPT ![p].pc = "save",
                         ![p].work = [type |-> type, data |-> data, next |-> 1]]

\* saveData starts: it returns when there is a wallet of the type.
Save(p, type, data) ==
    IF Here(p)[type].version # Null
    THEN page' = page
    ELSE page' = [page EXCEPT ![p].pc = "save",
                              ![p].work = [type |-> type, data |-> data, next |-> 1]]

RegistAnswered(p) ==
    /\ Idle(p)
    /\ \E a \in answers :
          /\ a.page = p
          /\ verifyRegisterWalletMsg(a.msg)
          /\ Save(p, "R", createRestoreWallet(page[p].psw, restoreMsg(p, page[p].key)))
    /\ UNCHANGED <<storage, fresh, network, raced>>

RestoreAnswered(p) ==
    /\ Idle(p)
    /\ \E a \in answers :
          /\ a.page = p
          /\ verifyRestoreWalletMsg(a.msg)
          /\ verifyPsw(page[p].psw, a.msg)
          /\ Save(p, "R", createRestoreWallet(page[p].psw, convertRestoreDataFormat(a.msg)))
    /\ UNCHANGED <<storage, fresh, network, raced>>

CreateNonRestoreWallet(p) ==
    /\ Idle(p)
    /\ \E key \in fresh :
          /\ Save(p, "N", createNonRestoreWallet(page[p].psw, key))
          /\ fresh' = fresh \ {key}
    /\ UNCHANGED <<storage, network, raced>>

Saves(p) == page[p] # Closed /\ page[p].pc = "save"
SameWallet(p, q) == page[p].device = page[q].device /\ page[p].work.type = page[q].work.type

\* saveData writes the fields in order.
SetItem(p) ==
    /\ Saves(p)
    /\ LET d == page[p].device
           type == page[p].work.type
           field == Fields[page[p].work.next]
       IN  /\ storage' = [storage EXCEPT ![d][type][field] = page[p].work.data[field]]
           /\ page' = IF page[p].work.next < Len(Fields)
                      THEN [page EXCEPT ![p].work.next = page[p].work.next + 1]
                      ELSE [page EXCEPT ![p].pc = "idle", ![p].work = Null]
           /\ raced' = IF \E q \in Pages \ {p} : Saves(q) /\ SameWallet(p, q)
                       THEN raced \cup {d} ELSE raced
    /\ UNCHANGED <<fresh, network>>

\* setItem throws when the storage is full: the handler ends.
StorageFull(p) ==
    /\ Saves(p)
    /\ page' = [page EXCEPT ![p].pc = "idle", ![p].work = Null]
    /\ UNCHANGED <<storage, fresh, network, raced>>

verifyMAC(s, type, psw) ==
    /\ s[type].macData # Null    \* a TypeError
    /\ s[type].macData = generateMAC(type, psw, s[type])

\* Signing changes nothing.  A page may do it at any time, with any password,
\* and setType lets it have either type whatever Wallet.Type says, which is why
\* that item is not a part of the state.  The private key signed with:
generateTransactionSign(s, type, psw) ==
    IF verifyMAC(s, type, psw)
    THEN {DecryptPrk(psw, s[type].salt, s[type].cipheredData)}
    ELSE {}

\* The key that is shown beside the signature.
getPublicKey(s, type) == s[type].walletPuk

-----------------------------------------------------------------------------
(* The server                                                                *)

Answer(r, msg) ==
    answers' = IF r.page = Closed THEN answers
               ELSE answers \cup {[page |-> r.page, msg |-> msg]}

\* A known id's wallet is overwritten, whatever was there.
RegistFranchWallet ==
    /\ \E r \in requests :
          /\ r.msg.header = "BCWalletRegistReq"
          /\ IF r.msg.id \in DOMAIN wallet
             THEN /\ wallet' = [wallet EXCEPT ![r.msg.id] =
                                  [prk |-> r.msg.prk, puk |-> r.msg.puk]]
                  /\ stored' = stored \cup {r.key}
                  /\ Answer(r, [header |-> "BCWalletRegistRes", result |-> "6080"])
             ELSE /\ Answer(r, [header |-> "BCWalletRegistRes", result |-> "6081"])
                  /\ UNCHANGED <<wallet, stored>>
    /\ UNCHANGED <<storage, page, fresh, requests, raced>>

\* An account without a wallet is answered with success and no data.
SelectFranchWallet ==
    /\ \E r \in requests :
          /\ r.msg.header = "BCWalletRestoreReq"
          /\ IF r.msg.id \in DOMAIN wallet
             THEN Answer(r, [header |-> "BCWalletRestoreRes", result |-> "6084",
                             prk |-> wallet[r.msg.id].prk, puk |-> wallet[r.msg.id].puk])
             ELSE Answer(r, [header |-> "BCWalletRestoreRes", result |-> "6085"])
    /\ UNCHANGED <<storage, page, fresh, requests, wallet, stored, raced>>

-----------------------------------------------------------------------------
PageStep(p) ==
    \/ LoadPage(p) \/ ClosePage(p) \/ ClickRegist(p) \/ ClickRestore(p)
    \/ RegistAnswered(p) \/ RestoreAnswered(p) \/ CreateNonRestoreWallet(p)
    \/ SetItem(p) \/ StorageFull(p)

Next == RegistFranchWallet \/ SelectFranchWallet \/ \E p \in Pages : PageStep(p)
Spec == Init /\ [][Next]_vars

-----------------------------------------------------------------------------
(* Properties                                                                *)

\* Every variable stays in its set; a wallet or backup field may be any term.
TypeOK ==
    /\ DOMAIN storage = Devices
    /\ \A d \in Devices : /\ DOMAIN storage[d] = Types
                          /\ \A type \in Types : DOMAIN storage[d][type] = FieldNames
    /\ \A p \in Pages : page[p] = Closed \/
          /\ page[p].pc \in {"idle", "save"}
          /\ page[p].device \in Devices /\ page[p].psw \in Psws
          /\ page[p].key \in (Keys \ fresh) \cup {Closed}
          /\ page[p].pc = "save" <=> page[p].work # Null
          /\ page[p].work # Null => /\ page[p].work.type \in Types
                                    /\ page[p].work.next \in 1 .. Len(Fields)
    /\ fresh \subseteq Keys /\ stored \subseteq Keys \ fresh
    /\ raced \subseteq Devices
    /\ \A r \in requests : r.page \in Pages \cup {Closed} /\ r.key \in (Keys \ fresh) \cup {Closed}
    /\ \A a \in answers : page[a.page] # Closed
    /\ DOMAIN wallet \subseteq Ids

\* A signature is made with the private key of the public key that the page
\* shows beside it, whatever was restored, interrupted, switched or raced.
SignatureVerifies ==
    \A d \in Devices, type \in Types, psw \in Psws :
       \A prk \in generateTransactionSign(storage[d], type, psw) :
          \E key \in Keys : prk = Prk(key) /\ getPublicKey(storage[d], type) = Puk(key)

\* The key and password of a wallet that is whole.
Installed(d, type) ==
    IF storage[d][type].macData = Null THEN {}
    ELSE {w \in Keys \X Psws : storage[d][type] = Whole[type][w]}

\* A wallet with its MAC is whole: salt, ciphertext, public key and address
\* belong to one key pair, and the ciphertext opens with one password.
WalletConsistent ==
    \A d \in Devices \ raced, type \in Types :
       storage[d][type].macData # Null => Installed(d, type) # {}

\* What a device keeps: the wallet of each type, where no two pages raced.
kept == [d \in Devices |-> [type \in Types |->
            IF d \in raced \/ Installed(d, type) = {} THEN <<>>
            ELSE CHOOSE w \in Installed(d, type) : TRUE]]

\* The wallets implement the promise that a device keeps the first wallet of
\* each type and that a restorable one is backed up before it appears.
Promise == INSTANCE WalletPromise WITH Nothing <- <<>>, wallets <- kept, backups <- stored
KeepsWallets == Promise!Spec
=============================================================================
