------------------------------ MODULE SimplePay ------------------------------
(***************************************************************************)
(* The simple-payment server: the card handlers, the password reset and    *)
(* the payment, run by concurrent threads over the shared card table and   *)
(* memory, with restarts; and what must be true of them together.          *)
(***************************************************************************)
EXTENDS CardHandlers, PasswordReset, Payment

Init ==
    /\ rows = [t \in Tokens |-> Nil]
    /\ history = [m \in Members |-> 0]
    /\ memory = [m \in Members |-> Nil]
    /\ call = [w \in Workers |-> Idle]
    /\ used = {}
    /\ ticket = [n \in Nonces |-> Nil]
    /\ ledger = [n \in Nonces |->
                   [approved |-> 0, confirmed |-> 0, cancelled |-> 0]]
    /\ consumed = {}
    /\ vouched = [m \in Members |-> {}]
    /\ crashes = 0

\* The process ends and starts again: the static map and every handler under
\* way are gone, the database and what clients and KICC know are not.
Restart ==
    /\ crashes < MaxCrashes
    /\ crashes' = crashes + 1
    /\ memory' = [m \in Members |-> Nil]
    /\ call' = [w \in Workers |-> Idle]
    /\ UNCHANGED <<rows, history, used, ticket, ledger, consumed,
                   vouched>>

Next == CardNext \/ ResetNext \/ PayNext \/ Restart

Spec == Init /\ [][Next]_vars

\* The steps of a handler that has started.  The container runs a started
\* handler to its end; whether clients send requests is up to them.
Proceed(w) ==
    \/ UpdateCard(w)
    \/ InitializePasswordPut(w) \/ InitializePasswordUpdate(w)
    \/ InitializePasswordHistory(w)
    \/ RequestPaymentEcho(w) \/ VerifyRemove(w) \/ VerifyCard(w)
    \/ GetUserPayInfo(w) \/ KiccApproves(w) \/ KiccDeclines(w)
    \/ PayCallBack(w) \/ PayCancel(w)

FairSpec == Spec /\ \A w \in Workers : WF_vars(Proceed(w))

-----------------------------------------------------------------------------
(* Invariants *)

\* Every variable has its type.
TypeOK ==
    /\ rows \in Table
    /\ history \in [Members -> Nat]
    /\ memory \in [Members -> Slot \cup {Nil}]
    /\ call \in [Workers -> Call]
    /\ used \subseteq Nonces
    /\ ticket \in [Nonces -> Ticket \cup {Nil}]
    /\ ledger \in [Nonces -> Ledger]
    /\ consumed \subseteq Nonces
    /\ vouched \in [Members -> SUBSET Keys]
    /\ crashes \in 0..MaxCrashes

Charging == {"payOrder", "payKicc", "payCallback", "payCancel"}

\* A card in use (USE_FLAG Y), which getCardList shows and payments may name,
\* has a billing key that KICC issued, in the table and in the hands of every
\* payment: the whole rows that handlers write back from older copies may
\* undo each other, but never combine the flag of one with the key of another.
InUseBillable ==
    /\ \A t \in Stored(rows) :
          rows[t].flag = "Y" => rows[t].bill = "issued"
    /\ \A w \in Workers :
          call[w].pc \in Charging /\ call[w].row.flag = "Y" =>
              call[w].row.bill = "issued"

\* A card's SECRET_KEY is one that its own member gave when registering a
\* card or confirmed through mobile authentication, whatever stale copies
\* and unconfirmed resets are around.
KeyProvenance ==
    \A t \in Stored(rows) : rows[t].key \in vouched[rows[t].member]

\* A nonce that a payment removed is in no member's memory entry again: a
\* delivery that arrives after the removal cannot pass.
ConsumedNonceGone ==
    \A m \in Members : memory[m] # Nil => memory[m].nonce \notin consumed

\* KICC approves a charge only on the nonce of a payment, and only after the
\* memory entry was given up.
ChargedAfterConsumed ==
    \A n \in Nonces : ledger[n].approved > 0 =>
        /\ n \in consumed
        /\ ticket[n].type = PayType

InFlight(n) ==
    {w \in Workers : /\ call[w].pc \in {"payCallback", "payCancel"}
                     /\ call[w].nonce = n}

Reliable == crashes = 0 /\ Faults \subseteq {"db"}

\* Every approved charge is confirmed by the B2C server, cancelled, or still
\* in the hands of exactly one handler.  Restarts, lost KICC answers and
\* exceptions of the B2C server can only strand charges, not invent them.
Settled ==
    \A n \in Nonces :
        LET handled == ledger[n].confirmed + ledger[n].cancelled
                         + Cardinality(InFlight(n))
        IN  /\ handled <= ledger[n].approved
            /\ Reliable => handled = ledger[n].approved

\* One nonce, one charge.  True when requests are handled one at a time;
\* concurrent deliveries of one request can both read the entry before
\* either removes it.
ChargedOncePerNonce ==
    \A n \in Nonces : ledger[n].approved <= 1

-----------------------------------------------------------------------------
(* Action properties *)

\* The copy of card t that a handler is about to write back.
Copies(t) ==
    {call[w].row : w \in {v \in Workers : /\ At(v, "update")
                                         /\ call[v].row.token = t}}

\* Bound, or deleted, in the table and in every copy under way.
BoundForGood(t) ==
    \A row \in Copies(t) \cup {rows[t]} : row.bill = "issued"
DeletedForGood(t) == \A row \in Copies(t) \cup {rows[t]} : row.flag = "D"

\* What a stale copy can undo, the binding of a card by KICC or its deletion,
\* is undone only by a handler that had read the row before: once those have
\* finished, no rename, deletion, callback, reset or restart undoes it.
StatusSettles ==
    [][\A t \in Stored(rows) :
          /\ BoundForGood(t) => BoundForGood(t)'
          /\ DeletedForGood(t) => DeletedForGood(t)']_vars

\* A deleted card stays deleted.  True when requests are handled one at a
\* time; a nickname change or a second registration callback that read the
\* row before brings the card back.
DeletedStaysDeleted ==
    [][\A t \in Stored(rows) : rows[t].flag = "D" => rows'[t].flag = "D"]_vars

\* When a password reset is answered 200, all cards of the member have the
\* new key (initializePasswordStep2 after changePwdSimplePay).
ResetTakesEffect ==
    [][\A w \in Workers :
          (At(w, "resetHistory") /\ crashes' = crashes
             /\ call'[w].pc # "resetHistory") =>
          \A t \in Stored(rows) :
              rows[t].member = call[w].member =>
                  rows[t].key = call[w].slot.data]_vars

\* A reset nonce changes the keys at most once.
ResetNonceUsedOnce ==
    \A m \in Members : history[m] <= Cardinality({n \in Nonces :
        ticket[n] # Nil /\ ticket[n].type = ResetType
                        /\ ticket[n].member = m})

-----------------------------------------------------------------------------
(* The promise about nonces that the payment implements. *)

\* Workers that read the entry that their own request was issued.
Holding(n) ==
    \E w \in Workers :
        /\ call[w].pc \in {"payRemove", "payVerify", "payOrder", "payKicc"}
        /\ call[w].nonce = n
        /\ call[w].slot # Nil
        /\ call[w].slot.nonce = n

PayNonce(m) ==
    IF memory[m] # Nil /\ memory[m].type = PayType
    THEN memory[m].nonce
    ELSE Nil

live == [m \in Members |-> IF Holding(PayNonce(m)) THEN Nil ELSE PayNonce(m)]
armed == {n \in Nonces : Holding(n)}
charged == {n \in Nonces : ledger[n].approved > 0}

Promise == INSTANCE PaymentPromise WITH issued <- used

\* The server keeps the promise of PaymentPromise as long as every request
\* of a second step is delivered once.
KeepsPromise == Promise!Spec

-----------------------------------------------------------------------------
(* Liveness, under FairSpec *)

\* Every request is answered, and every approved charge is eventually either
\* confirmed or cancelled.
RequestsAnswered ==
    \A w \in Workers : call[w].pc # "idle" ~> call[w].pc = "idle"

ApprovedEventuallySettled ==
    \A n \in Nonces :
        ledger[n].approved > 0 ~>
            ledger[n].confirmed + ledger[n].cancelled = ledger[n].approved

=============================================================================
