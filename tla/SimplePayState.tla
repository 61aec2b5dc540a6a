--------------------------- MODULE SimplePayState ---------------------------
(***************************************************************************)
(* The state that the requests of the simple-payment server share: the     *)
(* card table, the password history, the static map of                     *)
(* MoaSimplePayMemoryWorker (one entry per member) and the threads that    *)
(* execute ActionHandlerImpl.  A handler is cut wherever it touches state  *)
(* another thread can touch: at each DAO call, each call of the map and    *)
(* each message to KICC or to the B2C server.                              *)
(*                                                                         *)
(* The clients are honest: a second step is sent with the nonce and the    *)
(* order that the server gave the same member before.  A request may name  *)
(* any card; the client has its token since the first step of registCard.  *)
(* getCardList only reads and answers, so it has no action.                *)
(***************************************************************************)
EXTENDS CardTable, Naturals, FiniteSets

CONSTANTS
    Workers,      \* the servlet container's threads
    Nonces,       \* what UUID.randomUUID() can return: the bound on step 1s
    Orders,       \* order ids of the B2C shop
    Requests,     \* the action types that the clients of an instance send
    Faults,       \* which of the calls that leave the server can fail
    MaxDeliver,   \* how often one second-step request can be delivered
    MaxCrashes    \* how often the server can be restarted

VARIABLES
    rows,       \* TB_USER_CARDS
    history,    \* TB_USER_CARDS_PWD_HISTORY: its number of rows per member
    memory,     \* MoaSimplePayMemoryWorker.hashmap
    call,       \* per worker, where its handler is and its local variables
    used,       \* the nonces generated so far
    ticket,     \* per nonce, what its holder can still send
    ledger,     \* per nonce, what KICC and the B2C server were asked
    consumed,   \* the nonces a payment removed from the memory after reading
    vouched,    \* per member, the keys the member set or confirmed
    crashes     \* restarts so far

vars == <<rows, history, memory, call, used, ticket, ledger,
          consumed, vouched, crashes>>

ActionTypes == {"CardRegist", "RequestPay", "DeleteCardOne",
                "ChangeCardNickname", "InitializePwdSimplePay"}

\* "db": an UPDATE or INSERT fails; "kicc": KICC approves and its answer is
\* lost; "b2c": payCallBack throws.
FaultKinds == {"db", "kicc", "b2c"}

PayType == "requestPayment"
ResetType == "InitializePwdSimplePay"

\* MoaMemoryVo: memory1 is the nonce, memory2 the order or the new key.
Slot == [type : {PayType}, nonce : Nonces, data : Orders]
          \cup [type : {ResetType}, nonce : Nonces, data : Keys]

\* A nonce in the hands of a client (payment) or of the mobile
\* authentication server (password reset), with the deliveries left to it.
Ticket == [type : {PayType}, member : Members, data : Orders,
           left : 0..MaxDeliver]
            \cup [type : {ResetType}, member : Members, data : Keys,
                  left : 0..MaxDeliver]

Ledger == [approved : Nat, confirmed : Nat, cancelled : Nat]

Steps == {"idle", "update", "resetPut", "resetUpdate", "resetHistory",
          "payEcho", "payRemove", "payVerify", "payOrder", "payKicc",
          "payCallback", "payCancel"}

\* Local variables of a handler; a field is Nil while it has no value.
Call == [pc : Steps, member : Members \cup {Nil}, row : Row \cup {Nil},
         slot : Slot \cup {Nil}, token : Tokens \cup {Nil},
         key : Keys \cup {Nil}, nonce : Nonces \cup {Nil}]

ASSUME SimplePayAssumption ==
    /\ Nil \notin Nonces \cup Orders \cup Slot \cup Ticket
    /\ Requests \subseteq ActionTypes
    /\ Faults \subseteq FaultKinds
    /\ MaxDeliver \in Nat \ {0}
    /\ MaxCrashes \in Nat

Idle == [pc |-> "idle", member |-> Nil, row |-> Nil, slot |-> Nil,
         token |-> Nil, key |-> Nil, nonce |-> Nil]

-----------------------------------------------------------------------------
(* A worker's control. *)

IsIdle(w) == call[w].pc = "idle"
At(w, step) == call[w].pc = step
Enter(w, c) == call' = [call EXCEPT ![w] = c]
Goto(w, step) == call' = [call EXCEPT ![w].pc = step]
Respond(w) == call' = [call EXCEPT ![w] = Idle]

(* MoaSimplePayMemoryWorker. *)

put(m, slot) == memory' = [memory EXCEPT ![m] = slot]
get(m) == memory[m]
\* removeNothing: the mistake of forgetting the removal.
removeNothing(m) == UNCHANGED memory
remove(m) == memory' = [memory EXCEPT ![m] = Nil]

(* UUID.randomUUID() never repeats. *)

FreshNonce(n) == n \notin used /\ used' = used \cup {n}

(* The response of a first step hands the nonce to whoever may use it. *)

Issue(slot, m) ==
    ticket' = [ticket EXCEPT ![slot.nonce] =
                 [type |-> slot.type, member |-> m, data |-> slot.data,
                  left |-> MaxDeliver]]

CanDeliver(n, type) ==
    /\ ticket[n] # Nil
    /\ ticket[n].type = type
    /\ ticket[n].left > 0

Deliver(n) == ticket' = [ticket EXCEPT ![n].left = @ - 1]

=============================================================================
