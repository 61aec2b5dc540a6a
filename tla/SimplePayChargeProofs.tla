------------------------ MODULE SimplePayChargeProofs ------------------------
(***************************************************************************)
(* The charges of SimplePay.  KICC approves only on the nonce of a payment *)
(* that the memory has given up, and every approved charge is confirmed,   *)
(* cancelled or in the hands of one handler, however requests interleave.  *)
(* One request at a time: a nonce is charged once, a deleted card stays    *)
(* deleted and a reset takes effect.  One delivery per request: the server *)
(* implements PaymentPromise.                                              *)
(***************************************************************************)
EXTENDS SimplePayProofs, FiniteSetTheorems

LEMMA ChargeInit == Init => ChargeInv
BY DEF Init, ChargeInv, OwnEntry, ChargedPaid, Idle, Paying, Taken, Charging

-----------------------------------------------------------------------------
(* Tickets of payments stay tickets of payments. *)

PaidStays == \A n \in Nonces : Paid(n) => Paid(n)'

\* Issuing a payment's ticket leaves every payment's ticket one.
LEMMA IssuePayStays ==
  ASSUME TypeInv, NEW m \in Members, NEW s \in Slot, s.type = PayType, Issue(s, m)
  PROVE  PaidStays
<1>1. s.nonce \in Nonces
  BY DEF Slot
<1> DEFINE tk == [type |-> s.type, member |-> m, data |-> s.data, left |-> MaxDeliver]
<1>2. tk \in Ticket
  BY SimplePayAssumption DEF Slot, Ticket, PayType, ResetType
<1>3. tk # Nil /\ tk.type = PayType
  BY <1>2, SimplePayAssumption
<1> HIDE DEF tk
<1>4. ticket' = [ticket EXCEPT ![s.nonce] = tk]
  BY DEF Issue, tk
<1> QED
  BY <1>1, <1>3, <1>4 DEF PaidStays, Paid, TypeInv, TypeOK

\* A reset's ticket is issued under a nonce that no payment was issued.
LEMMA IssueResetStays ==
  ASSUME TypeInv, NonceInv, NEW w \in Workers, call[w].pc = "resetPut",
         Issue(call[w].slot, call[w].member)
  PROVE  PaidStays
<1> DEFINE s == call[w].slot
<1>1. s # Nil /\ s.type = ResetType
  BY DEF TypeInv, ControlOK, HasLocals, Resetting
<1>2. s \in Slot /\ call[w].member \in Members /\ Holds(call[w].member, s)
  BY <1>1, OwnHeld
<1>3. ASSUME NEW n \in Nonces, Paid(n)
      PROVE  s.nonce # n
  <2> DEFINE r == [type |-> PayType, nonce |-> n, data |-> ticket[n].data]
  <2>1. ticket[n] \in Ticket /\ ticket[n] # Nil /\ ticket[n].type = PayType
    BY <1>3 DEF Paid, TypeInv, TypeOK
  <2>2. r \in Slot /\ ticket[n].member \in Members
    BY <2>1 DEF Slot, Ticket, PayType, ResetType
  <2>3. Ticketed(ticket[n].member, r)
    BY <2>1 DEF Ticketed
  <2>4. r.nonce = n /\ r.type = PayType
    OBVIOUS
  <2> HIDE DEF r
  <2>5. s.nonce = r.nonce => s = r
    BY <1>2, <2>2, <2>3 DEF NonceInv, Agree, Holds
  <2> QED
    BY <1>1, <2>4, <2>5 DEF PayType, ResetType
<1> QED
  BY <1>3 DEF PaidStays, Paid, Issue, TypeInv, TypeOK

\* A delivery leaves a ticket what it is.
LEMMA DeliverStays ==
  ASSUME TypeInv, NEW n \in Nonces, NEW type, CanDeliver(n, type), Deliver(n)
  PROVE  PaidStays
<1>1. ticket[n] \in Ticket /\ ticket[n] # Nil /\ ticket \in [Nonces -> Ticket \cup {Nil}]
  BY DEF CanDeliver, TypeInv, TypeOK
<1> DEFINE tk == [ticket[n] EXCEPT !.left = @ - 1]
<1>2. tk.type = ticket[n].type /\ ticket' = [ticket EXCEPT ![n] = tk]
  BY <1>1 DEF Ticket, Deliver
<1>3. tk # Nil
  <2>1. ticket[n].left \in 0 .. MaxDeliver /\ ticket[n].left > 0
    BY <1>1 DEF CanDeliver, Ticket
  <2>2. tk \in Ticket
    BY <1>1, <2>1, SimplePayAssumption DEF Ticket
  <2> QED
    BY <2>2, SimplePayAssumption
<1> HIDE DEF tk
<1> QED
  BY <1>1, <1>2, <1>3 DEF PaidStays, Paid

-----------------------------------------------------------------------------
(* A handler that charges holds the entry of its own request. *)

\* One worker moves, and what it holds is right.
LEMMA OwnMove ==
  ASSUME TypeInv, OwnEntry, PaidStays, consumed \subseteq consumed',
         NEW w \in Workers, NEW c, Enter(w, c),
         c.pc \in Paying => c.nonce \in Nonces /\ Paid(c.nonce),
         c.pc \in Taken => c.slot.nonce \in consumed',
         c.pc \in Charging => c.slot.nonce = c.nonce
  PROVE  OwnEntry'
<1>1. call' = [call EXCEPT ![w] = c] /\ call \in [Workers -> Call]
  BY DEF Enter, TypeInv, TypeOK
<1>2. ASSUME NEW v \in Workers
      PROVE  /\ call'[v].pc \in Paying =>
                   ticket'[call'[v].nonce] # Nil /\ ticket'[call'[v].nonce].type = PayType
             /\ call'[v].pc \in Taken => call'[v].slot.nonce \in consumed'
             /\ call'[v].pc \in Charging => call'[v].slot.nonce = call'[v].nonce
  <2>1. CASE v = w
    <3>1. call'[v] = c
      BY <1>1, <2>1
    <3>2. ASSUME c.pc \in Paying
          PROVE  ticket'[c.nonce] # Nil /\ ticket'[c.nonce].type = PayType
      BY <3>2 DEF PaidStays, Paid
    <3> QED
      BY <3>1, <3>2
  <2>2. CASE v # w
    <3>1. call'[v] = call[v]
      BY <1>1, <2>2
    <3>2. call[v].pc \in Paying => call[v].nonce \in Nonces /\ Paid(call[v].nonce)
      BY PayLocals DEF OwnEntry
    <3>3. call[v].pc \in Paying =>
             ticket'[call[v].nonce] # Nil /\ ticket'[call[v].nonce].type = PayType
      BY <3>2 DEF PaidStays, Paid
    <3> QED
      BY <3>1, <3>3 DEF OwnEntry
  <2> QED
    BY <2>1, <2>2
<1> QED
  BY <1>2 DEF OwnEntry, Paid

LEMMA OwnStay ==
  ASSUME TypeInv, OwnEntry, PaidStays, UNCHANGED <<call, consumed>>
  PROVE  OwnEntry'
BY PayLocals DEF OwnEntry, PaidStays, Paid

\* Charges that were made stay justified.
LEMMA ChargedStay ==
  ASSUME ChargedPaid, PaidStays, consumed \subseteq consumed', UNCHANGED ledger
  PROVE  ChargedPaid'
BY DEF ChargedPaid, PaidStays, Paid

\* A worker moves outside the second step of a payment, or on within it.
LEMMA ChargeMove ==
  ASSUME TypeInv, ChargeInv, PaidStays, UNCHANGED <<consumed, ledger>>,
         NEW w \in Workers, NEW c, Enter(w, c), c.pc \notin Paying
  PROVE  ChargeInv'
BY OwnMove, ChargedStay DEF ChargeInv, Paying, Taken, Charging

LEMMA ChargeRespond ==
  ASSUME TypeInv, ChargeInv, PaidStays, UNCHANGED <<consumed, ledger>>,
         NEW w \in Workers, Respond(w)
  PROVE  ChargeInv'
<1>1. Enter(w, Idle) /\ Idle.pc \notin Paying
  BY DEF Respond, Enter, Idle, Paying, Taken, Charging
<1> QED
  BY <1>1, ChargeMove

LEMMA TicketStays == ASSUME UNCHANGED ticket PROVE PaidStays
BY DEF PaidStays, Paid

LEMMA ChargeCards == TypeInv /\ ChargeInv /\ CardNext => ChargeInv'
<1> SUFFICES ASSUME TypeInv, ChargeInv, CardNext PROVE ChargeInv'
  OBVIOUS
<1>1. UNCHANGED <<ticket, consumed, ledger>>
  BY DEF CardNext, RegistCardInsert, UpdateCard, RegistCardRead, DeleteCardRead,
         ChangeCardNickRead, ReadForUpdate
<1>2. PaidStays
  BY <1>1, TicketStays
<1>3. CASE UNCHANGED call
  BY <1>1, <1>2, <1>3, OwnStay, ChargedStay DEF ChargeInv
<1>4. ASSUME NEW w \in Workers, UpdateCard(w)
      PROVE  ChargeInv'
  BY <1>1, <1>2, <1>4, ChargeRespond DEF UpdateCard
<1>5. ASSUME NEW w \in Workers, NEW t \in Tokens,
             RegistCardRead(w, t)
                \/ \E m \in Members :
                      \/ DeleteCardRead(w, m, t)
                      \/ \E nick \in Nicks : ChangeCardNickRead(w, m, t, nick)
      PROVE  ChargeInv'
  <2>1. PICK row : Enter(w, [Idle EXCEPT !.pc = "update", !.row = row])
    BY <1>5 DEF RegistCardRead, DeleteCardRead, ChangeCardNickRead, ReadForUpdate
  <2>2. [Idle EXCEPT !.pc = "update", !.row = row].pc \notin Paying
    BY DEF Idle, Paying, Taken, Charging
  <2> QED
    BY <1>1, <1>2, <2>1, <2>2, ChargeMove
<1> QED
  BY <1>3, <1>4, <1>5 DEF CardNext, RegistCardInsert

LEMMA ChargeReset == TypeInv /\ NonceInv /\ ChargeInv /\ ResetNext => ChargeInv'
<1> SUFFICES ASSUME TypeInv, NonceInv, ChargeInv, ResetNext PROVE ChargeInv'
  OBVIOUS
<1>0. UNCHANGED <<consumed, ledger>>
  BY DEF ResetNext, InitializePasswordList, InitializePasswordPut, InitializePasswordGet,
         InitializePasswordUpdate, InitializePasswordHistory
<1>1. ASSUME NEW w \in Workers, NEW m \in Members, NEW k \in Keys, NEW n \in Nonces,
             InitializePasswordList(w, m, k, n)
      PROVE  ChargeInv'
  <2> DEFINE c == [Idle EXCEPT !.pc = "resetPut", !.member = m,
                     !.slot = [type |-> ResetType, nonce |-> n, data |-> k]]
  <2>1. Enter(w, c) /\ UNCHANGED ticket
    BY <1>1 DEF InitializePasswordList
  <2>2. PaidStays /\ c.pc = "resetPut"
    BY <2>1, TicketStays DEF Idle
  <2> HIDE DEF c
  <2> QED
    BY <1>0, <2>1, <2>2, ChargeMove DEF Paying, Taken, Charging
<1>2. ASSUME NEW w \in Workers, InitializePasswordPut(w)
      PROVE  ChargeInv'
  <2>1. PaidStays
    BY <1>2, IssueResetStays DEF InitializePasswordPut, At
  <2> QED
    BY <1>0, <1>2, <2>1, ChargeRespond DEF InitializePasswordPut
<1>3. ASSUME NEW w \in Workers, NEW n \in Nonces, InitializePasswordGet(w, n)
      PROVE  ChargeInv'
  <2>1. PaidStays
    BY <1>3, DeliverStays DEF InitializePasswordGet
  <2>2. CASE UNCHANGED call
    BY <1>0, <2>1, <2>2, OwnStay, ChargedStay DEF ChargeInv
  <2>3. CASE call' # call
    <3> DEFINE m == ticket[n].member
               c == [Idle EXCEPT !.pc = "resetUpdate", !.member = m, !.slot = get(m)]
    <3>1. Enter(w, c)
      BY <1>3, <2>3 DEF InitializePasswordGet
    <3>2. c.pc = "resetUpdate"
      BY DEF Idle
    <3> HIDE DEF c
    <3> QED
      BY <1>0, <2>1, <3>1, <3>2, ChargeMove DEF Paying, Taken, Charging
  <2> QED
    BY <2>2, <2>3
<1>4. ASSUME NEW w \in Workers, InitializePasswordUpdate(w)
      PROVE  ChargeInv'
  <2> DEFINE c == [call[w] EXCEPT !.pc = "resetHistory"]
  <2>1. Enter(w, c) /\ c.pc = "resetHistory"
    BY <1>4 DEF InitializePasswordUpdate, Goto, Enter, TypeInv, TypeOK, Call
  <2>2. PaidStays
    BY <1>4, TicketStays DEF InitializePasswordUpdate
  <2> HIDE DEF c
  <2> QED
    BY <1>0, <2>1, <2>2, ChargeMove DEF Paying, Taken, Charging
<1>5. ASSUME NEW w \in Workers, InitializePasswordHistory(w)
      PROVE  ChargeInv'
  BY <1>0, <1>5, TicketStays, ChargeRespond DEF InitializePasswordHistory
<1> QED
  BY <1>1, <1>2, <1>3, <1>4, <1>5 DEF ResetNext

\* The second step of a payment.
LEMMA ChargePay == TypeInv /\ ChargeInv /\ PayNext => ChargeInv'
<1> SUFFICES ASSUME TypeInv, ChargeInv, PayNext PROVE ChargeInv'
  OBVIOUS
<1>1. ASSUME NEW w \in Workers, NEW m \in Members, NEW o \in Orders,
             NEW n \in Nonces, RequestPaymentPut(w, m, o, n)
      PROVE  ChargeInv'
  <2> DEFINE c == [Idle EXCEPT !.pc = "payEcho", !.member = m,
                     !.slot = [type |-> PayType, nonce |-> n, data |-> o]]
  <2>1. Enter(w, c) /\ UNCHANGED <<ticket, consumed, ledger>>
    BY <1>1 DEF RequestPaymentPut
  <2>2. PaidStays /\ c.pc = "payEcho"
    BY <2>1, TicketStays DEF Idle
  <2> HIDE DEF c
  <2> QED
    BY <2>1, <2>2, ChargeMove DEF Paying, Taken, Charging
<1>2. ASSUME NEW w \in Workers, RequestPaymentEcho(w)
      PROVE  ChargeInv'
  <2>1. /\ call[w].slot \in Slot /\ call[w].member \in Members
        /\ call[w].slot.type = PayType
    BY <1>2 DEF RequestPaymentEcho, At, TypeInv, TypeOK, ControlOK, HasLocals, Call
  <2>2. PaidStays
    BY <1>2, <2>1, IssuePayStays, TicketStays DEF RequestPaymentEcho
  <2> QED
    BY <1>2, <2>2, ChargeRespond DEF RequestPaymentEcho
<1>3. ASSUME NEW w \in Workers, NEW n \in Nonces, NEW t \in Tokens,
             NEW k \in Keys, VerifyGet(w, n, t, k)
      PROVE  ChargeInv'
  <2> DEFINE m == ticket[n].member
             c == [Idle EXCEPT !.pc = "payRemove", !.member = m,
                     !.slot = get(m), !.token = t, !.key = k, !.nonce = n]
  <2>1. /\ Enter(w, c) /\ UNCHANGED <<consumed, ledger>>
        /\ CanDeliver(n, PayType) /\ Deliver(n)
    BY <1>3 DEF VerifyGet
  <2>2. c.pc = "payRemove" /\ c.nonce = n
    BY DEF Idle
  <2> HIDE DEF c
  <2>3. PaidStays
    BY <2>1, DeliverStays
  <2>4. Paid(n)
    BY <2>1 DEF CanDeliver, Paid
  <2>5. c.pc \notin Taken /\ c.pc \notin Charging
    BY <2>2 DEF Taken, Charging
  <2>6. OwnEntry'
    BY <2>1, <2>2, <2>3, <2>4, <2>5, OwnMove DEF ChargeInv
  <2> QED
    BY <2>1, <2>3, <2>6, ChargedStay DEF ChargeInv
<1>4. ASSUME NEW w \in Workers, VerifyRemove(w)
      PROVE  ChargeInv'
  <2>1. PaidStays /\ UNCHANGED ledger /\ consumed \subseteq consumed' /\ call[w].pc = "payRemove"
    BY <1>4, TicketStays DEF VerifyRemove, At
  <2>2. CASE call[w].slot = Nil
    BY <1>4, <2>1, <2>2, ChargeRespond DEF VerifyRemove
  <2>3. CASE call[w].slot # Nil
    <3> DEFINE c == [call[w] EXCEPT !.pc = "payVerify"]
    <3>1. Enter(w, c) /\ call[w].slot.nonce \in consumed'
      BY <1>4, <2>3 DEF VerifyRemove, Goto, Enter
    <3>2. c.pc = "payVerify" /\ c.slot = call[w].slot /\ c.nonce = call[w].nonce
      BY DEF TypeInv, TypeOK, Call
    <3> HIDE DEF c
    <3>3. c.nonce \in Nonces /\ Paid(c.nonce)
      BY <2>1, <3>2, PayLocals DEF ChargeInv, OwnEntry, Paying
    <3>4. c.pc \notin Charging
      BY <3>2 DEF Charging
    <3>5. OwnEntry'
      BY <2>1, <3>1, <3>2, <3>3, <3>4, OwnMove DEF ChargeInv
    <3> QED
      BY <2>1, <3>5, ChargedStay DEF ChargeInv
  <2> QED
    BY <2>2, <2>3
<1>5. ASSUME NEW w \in Workers, VerifyCard(w)
      PROVE  ChargeInv'
  <2>1. PaidStays /\ UNCHANGED <<ledger, consumed>> /\ call[w].pc = "payVerify"
    BY <1>5, TicketStays DEF VerifyCard, At
  <2>2. CASE Respond(w)
    BY <2>1, <2>2, ChargeRespond
  <2>3. CASE ~Respond(w)
    <3> DEFINE c == [call[w] EXCEPT !.pc = "payOrder", !.row = rows[call[w].token]]
    <3>1. Enter(w, c) /\ SecureKeyMatches(call[w], rows[call[w].token])
      BY <1>5, <2>3 DEF VerifyCard
    <3>2. c.pc = "payOrder" /\ c.slot = call[w].slot /\ c.nonce = call[w].nonce
      BY DEF TypeInv, TypeOK, Call
    <3> HIDE DEF c
    <3>3. /\ c.nonce \in Nonces /\ Paid(c.nonce)
          /\ c.slot.nonce \in consumed /\ c.slot.nonce = c.nonce
      BY <2>1, <3>1, <3>2, PayLocals DEF ChargeInv, OwnEntry, Paying, Taken, SecureKeyMatches
    <3>4. OwnEntry'
      BY <2>1, <3>1, <3>3, OwnMove DEF ChargeInv
    <3> QED
      BY <2>1, <3>4, ChargedStay DEF ChargeInv
  <2> QED
    BY <2>2, <2>3
<1>6. ASSUME NEW w \in Workers,
             GetUserPayInfo(w) \/ KiccApproves(w) \/ KiccDeclines(w)
                \/ PayCallBack(w) \/ PayCancel(w)
      PROVE  ChargeInv'
  <2>1. PaidStays /\ UNCHANGED consumed /\ call[w].pc \in Charging
    BY <1>6, TicketStays DEF GetUserPayInfo, KiccApproves, KiccDeclines, PayCallBack, PayCancel,
                             At, Charging
  <2>2. OwnEntry'
    <3>1. CASE Respond(w)
      <4>1. Enter(w, Idle) /\ Idle.pc \notin Paying \cup Taken \cup Charging
        BY <3>1 DEF Respond, Enter, Idle, Paying, Taken, Charging
      <4> QED
        BY <2>1, <4>1, OwnMove DEF ChargeInv
    <3>2. ASSUME NEW pc \in Charging, Goto(w, pc)
          PROVE  OwnEntry'
      <4> DEFINE c == [call[w] EXCEPT !.pc = pc]
      <4>1. Enter(w, c) /\ c.slot = call[w].slot /\ c.nonce = call[w].nonce
        BY <3>2 DEF Goto, Enter, TypeInv, TypeOK, Call
      <4> HIDE DEF c
      <4>2. /\ c.nonce \in Nonces /\ Paid(c.nonce)
            /\ c.slot.nonce \in consumed /\ c.slot.nonce = c.nonce
        BY <2>1, <4>1, PayLocals DEF ChargeInv, OwnEntry, Paying, Taken
      <4> QED
        BY <2>1, <4>1, <4>2, OwnMove DEF ChargeInv
    <3> QED
      BY <1>6, <3>1, <3>2 DEF GetUserPayInfo, KiccApproves, KiccDeclines, PayCallBack, PayCancel,
                              Charging
  <2>3. ChargedPaid'
    <3> DEFINE n == call[w].nonce
    <3>1. n \in Nonces /\ Paid(n) /\ n \in consumed
      BY <2>1, PayLocals DEF ChargeInv, OwnEntry, Paying, Taken
    <3>2. ASSUME NEW o \in Nonces, ledger'[o].approved > 0
          PROVE  o = n \/ ledger[o].approved > 0
      <4>1. ledger \in [Nonces -> Ledger]
        BY DEF TypeInv, TypeOK
      <4>2. CASE UNCHANGED ledger
        BY <3>2, <4>2
      <4>3. ASSUME NEW what \in {"approved", "confirmed", "cancelled"}, Count(n, what), o # n
            PROVE  ledger'[o] = ledger[o]
        BY <3>1, <4>1, <4>3 DEF Count
      <4> QED
        BY <1>6, <3>2, <4>2, <4>3
           DEF GetUserPayInfo, KiccApproves, KiccDeclines, PayCallBack, PayCancel
    <3> QED
      BY <2>1, <3>1, <3>2 DEF ChargeInv, ChargedPaid, PaidStays, Paid
  <2> QED
    BY <2>2, <2>3 DEF ChargeInv
<1> QED
  BY <1>1, <1>2, <1>3, <1>4, <1>5, <1>6 DEF PayNext

LEMMA ChargeRestart == ChargeInv /\ Restart => ChargeInv'
BY DEF Restart, ChargeInv, OwnEntry, ChargedPaid, Paid, Idle, Paying, Taken, Charging

LEMMA ChargeStep == TypeInv /\ NonceInv /\ ChargeInv /\ [Next]_vars => ChargeInv'
<1>1. ChargeInv /\ UNCHANGED vars => ChargeInv'
  BY DEF vars, ChargeInv, OwnEntry, ChargedPaid, Paid
<1> QED
  BY <1>1, ChargeCards, ChargeReset, ChargePay, ChargeRestart DEF Next

\* KICC approves a charge only on a payment's nonce that the memory has given
\* up, for any number of members and of concurrent requests.
THEOREM ChargedSafe == Spec => []ChargedAfterConsumed
<1>1. Init => ChargeInv
  BY ChargeInit
<1>2. TypeInv /\ NonceInv /\ ChargeInv /\ [Next]_vars => ChargeInv'
  BY ChargeStep
<1>3. ChargeInv => ChargedAfterConsumed
  BY DEF ChargeInv, ChargedPaid, Paid, ChargedAfterConsumed
<1> QED
  BY <1>1, <1>2, <1>3, NoncesCorrect, PTL DEF Spec

-----------------------------------------------------------------------------
(* Every approved charge is accounted for. *)

Flying == {"payCallback", "payCancel"}

\* The four numbers that Settled relates.
LEMMA FlightNumbers ==
  ASSUME TypeInv, SettleInv, NEW n \in Nonces
  PROVE  /\ ledger \in [Nonces -> Ledger] /\ ledger[n] \in Ledger
         /\ IsFiniteSet(InFlight(n)) /\ Cardinality(InFlight(n)) \in Nat
         /\ ledger[n].confirmed + ledger[n].cancelled + Cardinality(InFlight(n))
               <= ledger[n].approved
         /\ Reliable => ledger[n].confirmed + ledger[n].cancelled + Cardinality(InFlight(n))
                           = ledger[n].approved
BY FS_CardinalityType DEF SettleInv, Settled, TypeInv, TypeOK

LEMMA SettleInit == Init => SettleInv
<1> SUFFICES ASSUME Init, NEW n \in Nonces
             PROVE  /\ IsFiniteSet(InFlight(n)) /\ Cardinality(InFlight(n)) = 0
                    /\ ledger[n].approved = 0 /\ ledger[n].confirmed = 0
                    /\ ledger[n].cancelled = 0
  BY DEF SettleInv, Settled
<1>1. InFlight(n) = {}
  BY DEF Init, InFlight, Idle
<1> QED
  BY <1>1, FS_EmptySet DEF Init

\* A worker that moves keeps the others' charges in flight.
LEMMA FlightMove ==
  ASSUME TypeInv, NEW w \in Workers, NEW c, Enter(w, c), NEW n \in Nonces
  PROVE  InFlight(n)' = IF c.pc \in Flying /\ c.nonce = n
                        THEN InFlight(n) \cup {w} ELSE InFlight(n) \ {w}
<1>1. call' = [call EXCEPT ![w] = c] /\ call \in [Workers -> Call]
  BY DEF Enter, TypeInv, TypeOK
<1>2. InFlight(n)' = {v \in Workers : call'[v].pc \in Flying /\ call'[v].nonce = n}
  BY DEF InFlight, Flying
<1>3. InFlight(n) = {v \in Workers : call[v].pc \in Flying /\ call[v].nonce = n}
  BY DEF InFlight, Flying
<1>4. \A v \in Workers : call'[v] = IF v = w THEN c ELSE call[v]
  BY <1>1
<1> QED
  BY <1>2, <1>3, <1>4

\* Nothing is counted, and nothing sets out or arrives.
LEMMA SettleStay ==
  ASSUME TypeInv, SettleInv, UNCHANGED <<ledger, crashes>>,
         \A n \in Nonces : InFlight(n)' = InFlight(n)
  PROVE  SettleInv'
BY DEF SettleInv, Settled, Reliable

\* A worker that has no approved charge in hand moves on without one.
LEMMA SettleMove ==
  ASSUME TypeInv, SettleInv, UNCHANGED <<ledger, crashes>>,
         NEW w \in Workers, NEW c, Enter(w, c), c.pc \notin Flying, call[w].pc \notin Flying
  PROVE  SettleInv'
<1>1. ASSUME NEW n \in Nonces
      PROVE  InFlight(n)' = InFlight(n)
  <2>1. w \notin InFlight(n)
    BY DEF InFlight, Flying
  <2> QED
    BY <2>1, FlightMove
<1> QED
  BY <1>1, SettleStay

LEMMA IdleFlight == Idle.pc \notin Flying
BY DEF Idle, Flying

LEMMA SettleRespond ==
  ASSUME TypeInv, SettleInv, UNCHANGED <<ledger, crashes>>,
         NEW w \in Workers, Respond(w), call[w].pc \notin Flying
  PROVE  SettleInv'
<1>1. Enter(w, Idle)
  BY DEF Respond, Enter
<1> QED
  BY <1>1, IdleFlight, SettleMove

LEMMA SettleSame ==
  ASSUME TypeInv, SettleInv, UNCHANGED <<ledger, crashes, call>>
  PROVE  SettleInv'
BY SettleStay DEF InFlight

LEMMA SettleCards == TypeInv /\ SettleInv /\ CardNext => SettleInv'
<1> SUFFICES ASSUME TypeInv, SettleInv, CardNext PROVE SettleInv'
  OBVIOUS
<1>1. UNCHANGED <<ledger, crashes>>
  BY DEF CardNext, RegistCardInsert, UpdateCard, RegistCardRead, DeleteCardRead,
         ChangeCardNickRead, ReadForUpdate
<1>2. ASSUME NEW w \in Workers, UpdateCard(w)
      PROVE  SettleInv'
  BY <1>1, <1>2, SettleRespond DEF UpdateCard, At, Flying
<1>3. ASSUME NEW w \in Workers, NEW t \in Tokens,
             RegistCardRead(w, t)
                \/ \E m \in Members :
                      \/ DeleteCardRead(w, m, t)
                      \/ \E nick \in Nicks : ChangeCardNickRead(w, m, t, nick)
      PROVE  SettleInv'
  <2>1. PICK row : Enter(w, [Idle EXCEPT !.pc = "update", !.row = row]) /\ IsIdle(w)
    BY <1>3 DEF RegistCardRead, DeleteCardRead, ChangeCardNickRead, ReadForUpdate
  <2>2. [Idle EXCEPT !.pc = "update", !.row = row].pc \notin Flying
    BY DEF Idle, Flying
  <2> QED
    BY <1>1, <2>1, <2>2, SettleMove DEF IsIdle, Flying
<1> QED
  BY <1>1, <1>2, <1>3, SettleSame DEF CardNext, RegistCardInsert

LEMMA SettleReset == TypeInv /\ SettleInv /\ ResetNext => SettleInv'
<1> SUFFICES ASSUME TypeInv, SettleInv, ResetNext PROVE SettleInv'
  OBVIOUS
<1>0. UNCHANGED <<ledger, crashes>>
  BY DEF ResetNext, InitializePasswordList, InitializePasswordPut, InitializePasswordGet,
         InitializePasswordUpdate, InitializePasswordHistory
<1>1. ASSUME NEW w \in Workers, NEW m \in Members, NEW k \in Keys, NEW n \in Nonces,
             InitializePasswordList(w, m, k, n)
      PROVE  SettleInv'
  <2> DEFINE c == [Idle EXCEPT !.pc = "resetPut", !.member = m,
                     !.slot = [type |-> ResetType, nonce |-> n, data |-> k]]
  <2>1. Enter(w, c) /\ IsIdle(w)
    BY <1>1 DEF InitializePasswordList
  <2>2. c.pc \notin Flying
    BY DEF Idle, Flying
  <2> HIDE DEF c
  <2> QED
    BY <1>0, <2>1, <2>2, SettleMove DEF IsIdle, Flying
<1>2. ASSUME NEW w \in Workers, InitializePasswordPut(w) \/ InitializePasswordHistory(w)
      PROVE  SettleInv'
  BY <1>0, <1>2, SettleRespond
     DEF InitializePasswordPut, InitializePasswordHistory, At, Flying
<1>3. ASSUME NEW w \in Workers, NEW n \in Nonces, InitializePasswordGet(w, n)
      PROVE  SettleInv'
  <2>1. CASE UNCHANGED call
    BY <1>0, <2>1, SettleSame
  <2>2. CASE call' # call
    <3> DEFINE m == ticket[n].member
               c == [Idle EXCEPT !.pc = "resetUpdate", !.member = m, !.slot = get(m)]
    <3>1. Enter(w, c) /\ IsIdle(w)
      BY <1>3, <2>2 DEF InitializePasswordGet
    <3>2. c.pc \notin Flying
      BY DEF Idle, Flying
    <3> HIDE DEF c
    <3> QED
      BY <1>0, <3>1, <3>2, SettleMove DEF IsIdle, Flying
  <2> QED
    BY <2>1, <2>2
<1>4. ASSUME NEW w \in Workers, InitializePasswordUpdate(w)
      PROVE  SettleInv'
  <2> DEFINE c == [call[w] EXCEPT !.pc = "resetHistory"]
  <2>1. Enter(w, c) /\ c.pc = "resetHistory"
    BY <1>4 DEF InitializePasswordUpdate, Goto, Enter, TypeInv, TypeOK, Call
  <2> HIDE DEF c
  <2> QED
    BY <1>0, <1>4, <2>1, SettleMove DEF InitializePasswordUpdate, At, Flying
<1> QED
  BY <1>1, <1>2, <1>3, <1>4 DEF ResetNext

\* One charge of nonce n is approved and its worker takes it in hand, or
\* fails under the fault "kicc".
LEMMA SettleApprove ==
  ASSUME TypeInv, SettleInv, NEW w \in Workers, KiccApproves(w)
  PROVE  SettleInv'
<1>1. call[w].nonce \in Nonces /\ call[w].pc = "payKicc" /\ UNCHANGED crashes
  BY PayLocals DEF KiccApproves, At, Paying, Taken, Charging
<1>n. PICK n \in Nonces : n = call[w].nonce
  BY <1>1
<1>2. \A o \in Nonces : w \notin InFlight(o)
  BY <1>1 DEF InFlight
<1>3. /\ ledger \in [Nonces -> Ledger]
      /\ ledger' = [ledger EXCEPT ![n]["approved"] = @ + 1]
  BY <1>n DEF KiccApproves, Count, TypeInv, TypeOK
<1>4. \A o \in Nonces : o # n => ledger'[o] = ledger[o]
  BY <1>1, <1>3
<1>5. /\ ledger'[n].approved = ledger[n].approved + 1
      /\ ledger'[n].confirmed = ledger[n].confirmed
      /\ ledger'[n].cancelled = ledger[n].cancelled
  BY <1>1, <1>3 DEF Ledger
<1>6. CASE Goto(w, "payCallback")
  <2> DEFINE c == [call[w] EXCEPT !.pc = "payCallback"]
  <2>1. Enter(w, c) /\ c.pc = "payCallback" /\ c.nonce = n
    BY <1>6, <1>n DEF Goto, Enter, TypeInv, TypeOK, Call
  <2> HIDE DEF c
  <2>2. ASSUME NEW o \in Nonces
        PROVE  InFlight(o)' = IF o = n THEN InFlight(o) \cup {w} ELSE InFlight(o)
    <3>1. InFlight(o) \ {w} = InFlight(o)
      BY <1>2
    <3>2. c.pc \in Flying /\ (c.nonce = o <=> o = n)
      BY <2>1 DEF Flying
    <3> QED
      BY <2>1, <3>1, <3>2, FlightMove
  <2>3. IsFiniteSet(InFlight(n) \cup {w}) /\ Cardinality(InFlight(n) \cup {w})
                                                = Cardinality(InFlight(n)) + 1
    BY <1>1, <1>2, FlightNumbers, FS_AddElement
  <2>4. ASSUME NEW o \in Nonces
        PROVE  /\ IsFiniteSet(InFlight(o)')
               /\ ledger'[o].confirmed + ledger'[o].cancelled + Cardinality(InFlight(o)')
                     <= ledger'[o].approved
               /\ Reliable => ledger'[o].confirmed + ledger'[o].cancelled
                                 + Cardinality(InFlight(o)') = ledger'[o].approved
    <3>1. CASE o = n
      <4>1. InFlight(n)' = InFlight(n) \cup {w}
        BY <1>1, <2>2
      <4>2. /\ IsFiniteSet(InFlight(n)')
            /\ Cardinality(InFlight(n)') = Cardinality(InFlight(n)) + 1
        BY <2>3, <4>1
      <4>3. /\ ledger'[n].confirmed + ledger'[n].cancelled + Cardinality(InFlight(n)')
                 <= ledger'[n].approved
            /\ Reliable => ledger'[n].confirmed + ledger'[n].cancelled
                             + Cardinality(InFlight(n)') = ledger'[n].approved
        <5>1. /\ ledger[n].approved \in Nat /\ ledger[n].confirmed \in Nat
              /\ ledger[n].cancelled \in Nat /\ Cardinality(InFlight(n)) \in Nat
          BY FlightNumbers DEF Ledger
        <5>2. /\ ledger[n].confirmed + ledger[n].cancelled + Cardinality(InFlight(n))
                   <= ledger[n].approved
              /\ Reliable => ledger[n].confirmed + ledger[n].cancelled
                               + Cardinality(InFlight(n)) = ledger[n].approved
          BY FlightNumbers
        <5> QED
          BY <1>5, <4>2, <5>1, <5>2
      <4> QED
        BY <3>1, <4>2, <4>3
    <3>2. CASE o # n
      BY <1>4, <2>2, <3>2, FlightNumbers
    <3> QED
      BY <3>1, <3>2
  <2> QED
    BY <1>1, <2>4 DEF SettleInv, Settled, Reliable
<1>7. CASE "kicc" \in Faults /\ Respond(w)
  <2>1. Enter(w, Idle) /\ ~Reliable
    BY <1>7 DEF Respond, Enter, Reliable
  <2>2. ASSUME NEW o \in Nonces
        PROVE  InFlight(o)' = InFlight(o)
    BY <1>2, <2>1, IdleFlight, FlightMove
  <2>3. ASSUME NEW o \in Nonces
        PROVE  /\ IsFiniteSet(InFlight(o)')
               /\ ledger'[o].confirmed + ledger'[o].cancelled + Cardinality(InFlight(o)')
                     <= ledger'[o].approved
    <3>1. CASE o = n
      BY <1>1, <1>5, <2>2, <3>1, FlightNumbers DEF Ledger
    <3>2. CASE o # n
      BY <1>4, <2>2, <3>2, FlightNumbers
    <3> QED
      BY <3>1, <3>2
  <2> QED
    BY <1>1, <2>1, <2>3 DEF SettleInv, Settled, Reliable
<1> QED
  BY <1>6, <1>7 DEF KiccApproves

\* A charge in hand is confirmed or cancelled and its worker answers.
LEMMA SettleLand ==
  ASSUME TypeInv, SettleInv, NEW w \in Workers, call[w].pc \in Flying, Respond(w),
         NEW what \in {"confirmed", "cancelled"}, Count(call[w].nonce, what), UNCHANGED crashes
  PROVE  SettleInv'
<1>n. PICK n \in Nonces : n = call[w].nonce
  BY PayLocals DEF Flying, Paying, Taken, Charging
<1>1. n \in Nonces /\ w \in InFlight(n) /\ \A o \in Nonces : o # n => w \notin InFlight(o)
  BY <1>n DEF InFlight, Flying
<1>2. Enter(w, Idle)
  BY DEF Respond, Enter
<1>3. ledger \in [Nonces -> Ledger] /\ ledger' = [ledger EXCEPT ![n][what] = @ + 1]
  BY <1>n DEF Count, TypeInv, TypeOK
<1>4. \A o \in Nonces : o # n => ledger'[o] = ledger[o]
  BY <1>1, <1>3
<1>5. /\ ledger'[n].approved = ledger[n].approved
      /\ ledger'[n].confirmed + ledger'[n].cancelled
            = ledger[n].confirmed + ledger[n].cancelled + 1
  BY <1>1, <1>3 DEF Ledger
<1>6. ASSUME NEW o \in Nonces
      PROVE  InFlight(o)' = InFlight(o) \ {w}
  BY <1>2, <1>6, IdleFlight, FlightMove
<1>7. IsFiniteSet(InFlight(n) \ {w}) /\ Cardinality(InFlight(n) \ {w})
                                           = Cardinality(InFlight(n)) - 1
  BY <1>1, FlightNumbers, FS_RemoveElement
<1>8. ASSUME NEW o \in Nonces
      PROVE  /\ IsFiniteSet(InFlight(o)')
             /\ ledger'[o].confirmed + ledger'[o].cancelled + Cardinality(InFlight(o)')
                   <= ledger'[o].approved
             /\ Reliable => ledger'[o].confirmed + ledger'[o].cancelled
                               + Cardinality(InFlight(o)') = ledger'[o].approved
  <2>1. CASE o = n
    <3>1. /\ IsFiniteSet(InFlight(n)')
          /\ Cardinality(InFlight(n)') = Cardinality(InFlight(n)) - 1
      BY <1>1, <1>6, <1>7
    <3>2. /\ ledger'[n].confirmed + ledger'[n].cancelled + Cardinality(InFlight(n)')
               <= ledger'[n].approved
          /\ Reliable => ledger'[n].confirmed + ledger'[n].cancelled
                           + Cardinality(InFlight(n)') = ledger'[n].approved
      <4>1. ledger'[n].confirmed + ledger'[n].cancelled + Cardinality(InFlight(n)')
              = ledger[n].confirmed + ledger[n].cancelled + Cardinality(InFlight(n))
        <5>1. /\ ledger[n].confirmed \in Nat /\ ledger[n].cancelled \in Nat
              /\ Cardinality(InFlight(n)) \in Nat
          BY FlightNumbers DEF Ledger
        <5>2. ledger'[n].confirmed \in Nat /\ ledger'[n].cancelled \in Nat
          BY <1>3, <5>1 DEF Ledger
        <5> QED
          BY <1>5, <3>1, <5>1, <5>2
      <4> QED
        BY <1>1, <1>5, <4>1, FlightNumbers
    <3> QED
      BY <2>1, <3>1, <3>2
  <2>2. CASE o # n
    <3>1. InFlight(o)' = InFlight(o)
      BY <1>1, <1>6, <2>2
    <3> QED
      BY <1>4, <2>2, <3>1, FlightNumbers
  <2> QED
    BY <2>1, <2>2
<1> QED
  BY <1>8 DEF SettleInv, Settled, Reliable

\* Handlers end without settling: charges are stranded, none is invented.
LEMMA SettleStrand ==
  ASSUME TypeInv, SettleInv, UNCHANGED ledger, ~Reliable',
         \A n \in Nonces : InFlight(n)' \subseteq InFlight(n)
  PROVE  SettleInv'
<1>1. ASSUME NEW n \in Nonces
      PROVE  /\ IsFiniteSet(InFlight(n)')
             /\ Cardinality(InFlight(n)') <= Cardinality(InFlight(n))
             /\ Cardinality(InFlight(n)') \in Nat
  BY FlightNumbers, FS_Subset, FS_CardinalityType
<1>2. ASSUME NEW n \in Nonces
      PROVE  ledger[n].confirmed + ledger[n].cancelled + Cardinality(InFlight(n)')
               <= ledger[n].approved
  BY <1>1, FlightNumbers DEF Ledger
<1> QED
  BY <1>1, <1>2 DEF SettleInv, Settled

LEMMA SettlePay == TypeInv /\ SettleInv /\ PayNext => SettleInv'
<1> SUFFICES ASSUME TypeInv, SettleInv, PayNext PROVE SettleInv'
  OBVIOUS
<1>1. ASSUME NEW w \in Workers, NEW m \in Members, NEW o \in Orders,
             NEW n \in Nonces, RequestPaymentPut(w, m, o, n)
      PROVE  SettleInv'
  <2> DEFINE c == [Idle EXCEPT !.pc = "payEcho", !.member = m,
                     !.slot = [type |-> PayType, nonce |-> n, data |-> o]]
  <2>1. Enter(w, c) /\ IsIdle(w) /\ UNCHANGED <<ledger, crashes>>
    BY <1>1 DEF RequestPaymentPut
  <2>2. c.pc \notin Flying
    BY DEF Idle, Flying
  <2> HIDE DEF c
  <2> QED
    BY <2>1, <2>2, SettleMove DEF IsIdle, Flying
<1>2. ASSUME NEW w \in Workers, RequestPaymentEcho(w) \/ KiccDeclines(w)
      PROVE  SettleInv'
  BY <1>2, SettleRespond DEF RequestPaymentEcho, KiccDeclines, At, Flying
<1>3. ASSUME NEW w \in Workers, NEW n \in Nonces, NEW t \in Tokens,
             NEW k \in Keys, VerifyGet(w, n, t, k)
      PROVE  SettleInv'
  <2> DEFINE m == ticket[n].member
             c == [Idle EXCEPT !.pc = "payRemove", !.member = m,
                     !.slot = get(m), !.token = t, !.key = k, !.nonce = n]
  <2>1. Enter(w, c) /\ IsIdle(w) /\ UNCHANGED <<ledger, crashes>>
    BY <1>3 DEF VerifyGet
  <2>2. c.pc \notin Flying
    BY DEF Idle, Flying
  <2> HIDE DEF c
  <2> QED
    BY <2>1, <2>2, SettleMove DEF IsIdle, Flying
<1>4. ASSUME NEW w \in Workers, VerifyRemove(w) \/ VerifyCard(w) \/ GetUserPayInfo(w)
      PROVE  SettleInv'
  <2>1. UNCHANGED <<ledger, crashes>> /\ call[w].pc \notin Flying
    BY <1>4 DEF VerifyRemove, VerifyCard, GetUserPayInfo, At, Flying
  <2>2. CASE Respond(w)
    BY <2>1, <2>2, SettleRespond
  <2>3. ASSUME NEW c, Enter(w, c), c.pc \in {"payVerify", "payOrder", "payKicc"}
        PROVE  SettleInv'
    <3>1. c.pc \notin Flying
      BY <2>3 DEF Flying
    <3> QED
      BY <2>1, <2>3, <3>1, SettleMove
  <2>4. /\ [call[w] EXCEPT !.pc = "payVerify"].pc = "payVerify"
        /\ [call[w] EXCEPT !.pc = "payKicc"].pc = "payKicc"
        /\ [call[w] EXCEPT !.pc = "payOrder", !.row = rows[call[w].token]].pc = "payOrder"
    BY DEF TypeInv, TypeOK, Call
  <2>5. \/ Respond(w) \/ Enter(w, [call[w] EXCEPT !.pc = "payVerify"])
        \/ Enter(w, [call[w] EXCEPT !.pc = "payKicc"])
        \/ Enter(w, [call[w] EXCEPT !.pc = "payOrder", !.row = rows[call[w].token]])
    BY <1>4 DEF VerifyRemove, VerifyCard, GetUserPayInfo, Goto, Enter
  <2> QED
    BY <2>2, <2>3, <2>4, <2>5
<1>5. ASSUME NEW w \in Workers, KiccApproves(w)
      PROVE  SettleInv'
  BY <1>5, SettleApprove
<1>6. ASSUME NEW w \in Workers, PayCallBack(w)
      PROVE  SettleInv'
  <2>1. call[w].pc = "payCallback" /\ UNCHANGED crashes
    BY <1>6 DEF PayCallBack, At
  <2>2. CASE Count(call[w].nonce, "confirmed") /\ Respond(w)
    BY <2>1, <2>2, SettleLand DEF Flying
  <2>3. CASE Goto(w, "payCancel") /\ UNCHANGED ledger
    <3> DEFINE c == [call[w] EXCEPT !.pc = "payCancel"]
    <3>1. Enter(w, c) /\ c.pc = "payCancel" /\ c.nonce = call[w].nonce
      BY <2>3 DEF Goto, Enter, TypeInv, TypeOK, Call
    <3> HIDE DEF c
    <3>2. ASSUME NEW n \in Nonces
          PROVE  InFlight(n)' = InFlight(n)
      <4>1. w \in InFlight(n) <=> c.nonce = n
        BY <2>1, <3>1 DEF InFlight
      <4> QED
        BY <3>1, <4>1, FlightMove DEF Flying
    <3> QED
      BY <2>1, <2>3, <3>2, SettleStay
  <2>4. CASE "b2c" \in Faults /\ Respond(w) /\ UNCHANGED ledger
    <3>1. Enter(w, Idle) /\ ~Reliable'
      BY <2>4 DEF Respond, Enter, Reliable
    <3>2. ASSUME NEW n \in Nonces
          PROVE  InFlight(n)' \subseteq InFlight(n)
      BY <3>1, <3>2, IdleFlight, FlightMove
    <3> QED
      BY <2>4, <3>1, <3>2, SettleStrand
  <2> QED
    BY <1>6, <2>2, <2>3, <2>4 DEF PayCallBack
<1>7. ASSUME NEW w \in Workers, PayCancel(w)
      PROVE  SettleInv'
  BY <1>7, SettleLand DEF PayCancel, At, Flying
<1> QED
  BY <1>1, <1>2, <1>3, <1>4, <1>5, <1>6, <1>7 DEF PayNext

LEMMA SettleRestart == TypeInv /\ SettleInv /\ Restart => SettleInv'
<1> SUFFICES ASSUME TypeInv, SettleInv, Restart PROVE SettleInv'
  OBVIOUS
<1>1. ~Reliable' /\ UNCHANGED ledger
  BY SimplePayAssumption DEF Restart, Reliable, TypeInv, TypeOK
<1>2. ASSUME NEW n \in Nonces
      PROVE  InFlight(n)' \subseteq InFlight(n)
  BY DEF Restart, InFlight, Idle
<1> QED
  BY <1>1, <1>2, SettleStrand

LEMMA SettleStep == TypeInv /\ SettleInv /\ [Next]_vars => SettleInv'
<1>1. TypeInv /\ SettleInv /\ UNCHANGED vars => SettleInv'
  BY SettleSame DEF vars
<1> QED
  BY <1>1, SettleCards, SettleReset, SettlePay, SettleRestart DEF Next

\* Every approved charge is confirmed, cancelled or in one handler's hands;
\* restarts, lost answers and exceptions strand charges and invent none.
THEOREM SettledSafe == Spec => []Settled
<1>1. Init => TypeInv /\ SettleInv
  BY TypeInit, SettleInit
<1>2. TypeInv /\ SettleInv /\ [Next]_vars => (TypeInv /\ SettleInv)'
  BY TypeStep, SettleStep
<1>3. SettleInv => Settled
  BY DEF SettleInv
<1> QED
  BY <1>1, <1>2, <1>3, PTL DEF Spec

-----------------------------------------------------------------------------
(* One request at a time.  Three properties that fail with two threads.      *)

LEMMA OnlyWorker ==
  ASSUME OneAtATime, NEW w \in Workers
  PROVE  Workers = {w}
BY DEF OneAtATime

\* The worker is not, or no longer, on the way to a charge.
LEMMA OnceQuiet ==
  ASSUME OneAtATime, NEW w \in Workers, call'[w].pc \notin Uncharged,
         \A n \in Nonces : ledger'[n].approved <= 1
  PROVE  OnceInv'
<1>1. \A v \in Workers : v = w
  BY OnlyWorker
<1> QED
  BY <1>1 DEF OnceInv, Uncharged, ChargedOncePerNonce

LEMMA OnceElsewhere ==
  ASSUME OneAtATime, TypeInv, OnceInv, NEW w \in Workers, NEW c, Enter(w, c),
         c.pc \notin Uncharged, UNCHANGED ledger
  PROVE  OnceInv'
<1>1. call'[w].pc \notin Uncharged
  BY DEF Enter, TypeInv, TypeOK
<1>2. \A n \in Nonces : ledger'[n].approved <= 1
  BY DEF OnceInv, ChargedOncePerNonce
<1> QED
  BY <1>1, <1>2, OnceQuiet

LEMMA OnceRespond ==
  ASSUME OneAtATime, TypeInv, OnceInv, NEW w \in Workers, Respond(w), UNCHANGED ledger
  PROVE  OnceInv'
<1>1. Enter(w, Idle) /\ Idle.pc \notin Uncharged
  BY DEF Respond, Enter, Idle, Uncharged
<1> QED
  BY <1>1, OnceElsewhere

LEMMA OnceGoto ==
  ASSUME OneAtATime, TypeInv, OnceInv, NEW w \in Workers, NEW pc, pc \notin Uncharged,
         Goto(w, pc), UNCHANGED ledger
  PROVE  OnceInv'
<1> DEFINE c == [call[w] EXCEPT !.pc = pc]
<1>1. Enter(w, c) /\ c.pc = pc
  BY DEF Goto, Enter, TypeInv, TypeOK, Call
<1> HIDE DEF c
<1> QED
  BY <1>1, OnceElsewhere

LEMMA OnceSame ==
  ASSUME OnceInv, UNCHANGED <<call, memory, ledger>>
  PROVE  OnceInv'
BY DEF OnceInv, ChargedOncePerNonce

LEMMA OnceCards ==
  ASSUME OneAtATime, TypeInv, OnceInv, CardNext
  PROVE  OnceInv'
<1>1. CASE UNCHANGED <<call, memory, ledger>>
  BY <1>1, OnceSame
<1>2. ASSUME NEW w \in Workers, NEW copy, ReadForUpdate(w, copy)
      PROVE  OnceInv'
  <2> DEFINE c == [Idle EXCEPT !.pc = "update", !.row = copy]
  <2>1. Enter(w, c) /\ UNCHANGED ledger /\ c.pc \notin Uncharged
    BY <1>2 DEF ReadForUpdate, Idle, Uncharged
  <2> HIDE DEF c
  <2> QED
    BY <2>1, OnceElsewhere
<1>3. ASSUME NEW w \in Workers, UpdateCard(w)
      PROVE  OnceInv'
  BY <1>3, OnceRespond DEF UpdateCard
<1> QED
  BY <1>1, <1>2, <1>3 DEF CardNext, RegistCardInsert, RegistCardRead,
     DeleteCardRead, ChangeCardNickRead

LEMMA OnceReset ==
  ASSUME OneAtATime, TypeInv, OnceInv, ResetNext
  PROVE  OnceInv'
<1>1. ASSUME NEW w \in Workers, NEW m \in Members, NEW k \in Keys, NEW n \in Nonces,
             InitializePasswordList(w, m, k, n)
      PROVE  OnceInv'
  <2> DEFINE c == [Idle EXCEPT !.pc = "resetPut", !.member = m,
                     !.slot = [type |-> ResetType, nonce |-> n, data |-> k]]
  <2>1. Enter(w, c) /\ UNCHANGED ledger /\ c.pc \notin Uncharged
    BY <1>1 DEF InitializePasswordList, Idle, Uncharged
  <2> HIDE DEF c
  <2> QED
    BY <2>1, OnceElsewhere
<1>2. ASSUME NEW w \in Workers, NEW n \in Nonces, InitializePasswordGet(w, n)
      PROVE  OnceInv'
  <2> DEFINE m == ticket[n].member
             c == [Idle EXCEPT !.pc = "resetUpdate", !.member = m, !.slot = get(m)]
  <2>1. (Enter(w, c) \/ UNCHANGED call) /\ UNCHANGED <<memory, ledger>>
        /\ c.pc \notin Uncharged
    BY <1>2 DEF InitializePasswordGet, Idle, Uncharged
  <2> HIDE DEF c
  <2> QED
    BY <2>1, OnceElsewhere, OnceSame
<1>3. ASSUME NEW w \in Workers, InitializePasswordUpdate(w)
      PROVE  OnceInv'
  BY <1>3, OnceGoto DEF InitializePasswordUpdate, Uncharged
<1>4. ASSUME NEW w \in Workers, InitializePasswordPut(w) \/ InitializePasswordHistory(w)
      PROVE  OnceInv'
  BY <1>4, OnceRespond DEF InitializePasswordPut, InitializePasswordHistory
<1> QED
  BY <1>1, <1>2, <1>3, <1>4 DEF ResetNext

\* A nonce that the memory still has is not charged; a nonce is charged by the
\* handler that took it from the memory.
LEMMA OncePay ==
  ASSUME OneAtATime, TypeInv, NonceInv, ChargeInv, OnceInv, PayNext
  PROVE  OnceInv'
<1>0. /\ ledger \in [Nonces -> Ledger] /\ call \in [Workers -> Call]
      /\ \A n \in Nonces : ledger[n].approved \in Nat /\ ledger[n].approved <= 1
  BY DEF TypeInv, TypeOK, Ledger, OnceInv, ChargedOncePerNonce
<1>1. ASSUME NEW w \in Workers, NEW m \in Members, NEW o \in Orders,
             NEW n \in Nonces, RequestPaymentPut(w, m, o, n)
      PROVE  OnceInv'
  <2> DEFINE c == [Idle EXCEPT !.pc = "payEcho", !.member = m,
                     !.slot = [type |-> PayType, nonce |-> n, data |-> o]]
  <2>1. Enter(w, c) /\ UNCHANGED ledger /\ c.pc \notin Uncharged
    BY <1>1 DEF RequestPaymentPut, Idle, Uncharged
  <2> HIDE DEF c
  <2> QED
    BY <2>1, OnceElsewhere
<1>2. ASSUME NEW w \in Workers, RequestPaymentEcho(w)
      PROVE  OnceInv'
  BY <1>2, OnceRespond DEF RequestPaymentEcho
<1>3. ASSUME NEW w \in Workers, NEW n \in Nonces, NEW t \in Tokens,
             NEW k \in Keys, VerifyGet(w, n, t, k)
      PROVE  OnceInv'
  <2> DEFINE m == ticket[n].member
             c == [Idle EXCEPT !.pc = "payRemove", !.member = m,
                     !.slot = get(m), !.token = t, !.key = k, !.nonce = n]
  <2>1. /\ Enter(w, c) /\ UNCHANGED <<memory, ledger>>
        /\ c.pc = "payRemove" /\ c.slot = memory[m] /\ c.member = m
    BY <1>3 DEF VerifyGet, Idle, get
  <2> HIDE DEF c
  <2>2. call'[w] = c /\ \A v \in Workers : v = w
    BY <1>0, <2>1, OnlyWorker DEF Enter
  <2> QED
    BY <2>1, <2>2 DEF OnceInv, Uncharged, ChargedOncePerNonce
<1>4. ASSUME NEW w \in Workers, VerifyRemove(w)
      PROVE  OnceInv'
  <2>1. call[w].pc = "payRemove" /\ UNCHANGED ledger
    BY <1>4 DEF VerifyRemove, At
  <2>2. CASE call[w].slot = Nil
    BY <1>4, <2>1, <2>2, OnceRespond DEF VerifyRemove
  <2>3. CASE call[w].slot # Nil
    <3>1. call'[w] = [call[w] EXCEPT !.pc = "payVerify"] /\ \A v \in Workers : v = w
      BY <1>0, <1>4, <2>3, OnlyWorker DEF VerifyRemove, Goto
    <3>2. call'[w].pc = "payVerify" /\ call'[w].slot = call[w].slot
      BY <1>0, <3>1 DEF Call
    <3>3. /\ memory[call[w].member] = call[w].slot /\ call[w].member \in Members
          /\ call[w].slot \in Slot
      BY <1>0, <2>1, <2>3, PayLocals DEF OnceInv, Paying, Call
    <3>4. call[w].slot.nonce \in Nonces \ consumed
      BY <2>3, <3>3 DEF NonceInv, ConsumedNonceGone, Slot
    <3>5. ledger[call[w].slot.nonce].approved = 0
      BY <1>0, <3>4 DEF ChargeInv, ChargedPaid
    <3> QED
      BY <2>1, <3>1, <3>2, <3>5 DEF OnceInv, Uncharged, ChargedOncePerNonce
  <2> QED
    BY <2>2, <2>3
<1>5. ASSUME NEW w \in Workers, VerifyCard(w) \/ GetUserPayInfo(w)
      PROVE  OnceInv'
  <2>1. UNCHANGED ledger /\ call[w].pc \in Uncharged \ {"payRemove"}
    BY <1>5 DEF VerifyCard, GetUserPayInfo, At, Uncharged
  <2>2. CASE Respond(w)
    BY <2>1, <2>2, OnceRespond
  <2>3. CASE ~Respond(w)
    <3>1. \/ call'[w] = [call[w] EXCEPT !.pc = "payOrder", !.row = rows[call[w].token]]
          \/ call'[w] = [call[w] EXCEPT !.pc = "payKicc"]
      BY <1>0, <1>5, <2>3 DEF VerifyCard, GetUserPayInfo, Enter, Goto
    <3>2. call'[w].slot = call[w].slot /\ call'[w].pc \in {"payOrder", "payKicc"}
      BY <1>0, <3>1 DEF Call
    <3>3. \A v \in Workers : v = w
      BY OnlyWorker
    <3> QED
      BY <2>1, <3>2, <3>3 DEF OnceInv, Uncharged, ChargedOncePerNonce
  <2> QED
    BY <2>2, <2>3
<1>6. ASSUME NEW w \in Workers, KiccApproves(w)
      PROVE  OnceInv'
  <2>1. call[w].pc = "payKicc" /\ Count(call[w].nonce, "approved")
    BY <1>6 DEF KiccApproves, At
  <2>2. call[w].nonce \in Nonces /\ call[w].slot.nonce = call[w].nonce
    BY <2>1, PayLocals DEF Paying, Taken, Charging, ChargeInv, OwnEntry
  <2>3. ledger[call[w].nonce].approved = 0
    BY <2>1, <2>2 DEF OnceInv, Uncharged
  <2>4. ASSUME NEW n \in Nonces
        PROVE  ledger'[n].approved <= 1
    <3>1. CASE n = call[w].nonce
      <4>1. ledger'[n] = [ledger[n] EXCEPT !["approved"] = @ + 1] /\ ledger[n] \in Ledger
        BY <1>0, <2>1, <2>2, <3>1 DEF Count
      <4>2. ledger'[n].approved = ledger[n].approved + 1
        BY <4>1 DEF Ledger
      <4> QED
        BY <2>3, <3>1, <4>2
    <3>2. CASE n # call[w].nonce
      <4>1. ledger'[n] = ledger[n]
        BY <1>0, <2>1, <2>2, <3>2 DEF Count
      <4> QED
        BY <1>0, <4>1
    <3> QED
      BY <3>1, <3>2
  <2>5. call'[w].pc \notin Uncharged
    <3>1. \/ call'[w] = [call[w] EXCEPT !.pc = "payCallback"]
          \/ call'[w] = Idle
      BY <1>0, <1>6 DEF KiccApproves, Goto, Respond
    <3> QED
      BY <1>0, <3>1 DEF Call, Idle, Uncharged
  <2> QED
    BY <2>4, <2>5, OnceQuiet
<1>7. ASSUME NEW w \in Workers, KiccDeclines(w) \/ PayCallBack(w) \/ PayCancel(w)
      PROVE  OnceInv'
  <2>1. call'[w].pc \notin Uncharged
    <3>1. \/ call'[w] = [call[w] EXCEPT !.pc = "payCancel"]
          \/ call'[w] = Idle
      BY <1>0, <1>7 DEF KiccDeclines, PayCallBack, PayCancel, Goto, Respond
    <3> QED
      BY <1>0, <3>1 DEF Call, Idle, Uncharged
  <2>2. call[w].nonce \in Nonces
    BY <1>7, PayLocals DEF KiccDeclines, PayCallBack, PayCancel, At, Paying, Taken, Charging
  <2>3. ASSUME NEW n \in Nonces
        PROVE  ledger'[n].approved = ledger[n].approved
    <3>1. CASE UNCHANGED ledger
      BY <3>1
    <3>2. ASSUME NEW what \in {"confirmed", "cancelled"}, Count(call[w].nonce, what)
          PROVE  ledger'[n].approved = ledger[n].approved
      <4>1. \/ ledger'[n] = ledger[n]
            \/ ledger'[n] = [ledger[n] EXCEPT ![what] = @ + 1]
        BY <1>0, <2>2, <3>2 DEF Count
      <4>2. what # "approved" /\ ledger[n] \in Ledger
        BY <1>0
      <4> QED
        BY <4>1, <4>2 DEF Ledger
    <3> QED
      BY <1>7, <3>1, <3>2 DEF KiccDeclines, PayCallBack, PayCancel
  <2>4. \A n \in Nonces : ledger'[n].approved <= 1
    BY <1>0, <2>3
  <2> QED
    BY <2>1, <2>4, OnceQuiet
<1> QED
  BY <1>1, <1>2, <1>3, <1>4, <1>5, <1>6, <1>7 DEF PayNext

LEMMA OnceStep ==
  ASSUME OneAtATime
  PROVE  TypeInv /\ NonceInv /\ ChargeInv /\ OnceInv /\ [Next]_vars => OnceInv'
<1> SUFFICES ASSUME TypeInv, NonceInv, ChargeInv, OnceInv, [Next]_vars PROVE OnceInv'
  OBVIOUS
<1>1. CASE Restart
  BY <1>1 DEF Restart, OnceInv, ChargedOncePerNonce, Idle, Uncharged
<1>2. CASE UNCHANGED vars
  BY <1>2, OnceSame DEF vars
<1> QED
  BY <1>1, <1>2, OnceCards, OnceReset, OncePay DEF Next

\* When requests are handled one at a time, a nonce is charged at most once,
\* however often its request is delivered.
THEOREM ChargedOnceSafe == ASSUME OneAtATime PROVE Spec => []ChargedOncePerNonce
<1>1. Init => ChargeInv /\ OnceInv
  <2>1. Init => OnceInv
    BY DEF Init, OnceInv, ChargedOncePerNonce, Idle, Uncharged
  <2> QED
    BY <2>1, ChargeInit
<1>2. TypeInv /\ NonceInv /\ ChargeInv /\ OnceInv /\ [Next]_vars => (ChargeInv /\ OnceInv)'
  BY ChargeStep, OnceStep
<1>3. OnceInv => ChargedOncePerNonce
  BY DEF OnceInv
<1> QED
  BY <1>1, <1>2, <1>3, NoncesCorrect, PTL DEF Spec

-----------------------------------------------------------------------------
(* What other handlers leave alone *)

Away == {"update", "resetHistory"}

\* A step of a payment writes no row and reads none for update.
LEMMA PayAway ==
  ASSUME TypeInv, PayNext
  PROVE  UNCHANGED rows /\ \E w \in Workers : call'[w].pc \notin Away
<1>0. call \in [Workers -> Call]
  BY DEF TypeInv, TypeOK
<1>1. UNCHANGED rows
  BY DEF PayNext, RequestPaymentPut, RequestPaymentEcho, VerifyGet, VerifyRemove, VerifyCard,
         GetUserPayInfo, KiccApproves, KiccDeclines, PayCallBack, PayCancel
<1>2. ASSUME NEW w \in Workers, NEW m \in Members, NEW o \in Orders,
             NEW n \in Nonces, RequestPaymentPut(w, m, o, n)
      PROVE  call'[w].pc \notin Away
  BY <1>0, <1>2 DEF RequestPaymentPut, Enter, Idle, Away
<1>3. ASSUME NEW w \in Workers, NEW n \in Nonces, NEW t \in Tokens,
             NEW k \in Keys, VerifyGet(w, n, t, k)
      PROVE  call'[w].pc \notin Away
  BY <1>0, <1>3 DEF VerifyGet, Enter, Idle, Away
<1>4. ASSUME NEW w \in Workers,
             \/ RequestPaymentEcho(w) \/ VerifyRemove(w) \/ VerifyCard(w)
             \/ GetUserPayInfo(w) \/ KiccApproves(w) \/ KiccDeclines(w)
             \/ PayCallBack(w) \/ PayCancel(w)
      PROVE  call'[w].pc \notin Away
  <2>1. \/ call'[w] = Idle
        \/ \E pc \in Taken : call'[w] = [call[w] EXCEPT !.pc = pc]
        \/ \E r : call'[w] = [call[w] EXCEPT !.pc = "payOrder", !.row = r]
    BY <1>0, <1>4
       DEF RequestPaymentEcho, VerifyRemove, VerifyCard, GetUserPayInfo, KiccApproves,
           KiccDeclines, PayCallBack, PayCancel, Enter, Goto, Respond, Taken, Charging
  <2>2. "pc" \in DOMAIN call[w]
    BY <1>0 DEF Call
  <2>3. \A pc \in Taken : [call[w] EXCEPT !.pc = pc].pc \notin Away
    BY <2>2 DEF Taken, Charging, Away
  <2>4. \A r : [call[w] EXCEPT !.pc = "payOrder", !.row = r].pc \notin Away
    BY <1>0 DEF Call, Away
  <2>5. Idle.pc \notin Away
    BY DEF Idle, Away
  <2> QED
    BY <2>1, <2>3, <2>4, <2>5
<1> QED
  BY <1>1, <1>2, <1>3, <1>4 DEF PayNext

LEMMA ResetAway ==
  ASSUME TypeInv, ResetNext
  PROVE  \E w \in Workers :
            \/ InitializePasswordUpdate(w)
            \/ UNCHANGED rows /\ (call'[w].pc \notin Away \/ UNCHANGED call)
<1>0. call \in [Workers -> Call]
  BY DEF TypeInv, TypeOK
<1>1. ASSUME NEW w \in Workers, NEW m \in Members, NEW k \in Keys, NEW n \in Nonces,
             InitializePasswordList(w, m, k, n)
      PROVE  UNCHANGED rows /\ call'[w].pc \notin Away
  BY <1>0, <1>1 DEF InitializePasswordList, Enter, Idle, Away
<1>2. ASSUME NEW w \in Workers, NEW n \in Nonces, InitializePasswordGet(w, n)
      PROVE  UNCHANGED rows /\ (call'[w].pc \notin Away \/ UNCHANGED call)
  BY <1>0, <1>2 DEF InitializePasswordGet, Enter, Idle, Away
<1>3. ASSUME NEW w \in Workers, InitializePasswordPut(w) \/ InitializePasswordHistory(w)
      PROVE  UNCHANGED rows /\ call'[w].pc \notin Away
  BY <1>0, <1>3 DEF InitializePasswordPut, InitializePasswordHistory, Respond, Idle, Away
<1> QED
  BY <1>1, <1>2, <1>3 DEF ResetNext

DeletedKept == \A t \in Stored(rows) : rows[t].flag = "D" => rows'[t].flag = "D"

LEMMA CopiesSame ==
  ASSUME CopiesCurrent, UNCHANGED <<rows, call>>
  PROVE  CopiesCurrent' /\ DeletedKept
BY DEF CopiesCurrent, Stored, DeletedKept

LEMMA CopiesAway ==
  ASSUME OneAtATime, NEW w \in Workers, call'[w].pc # "update"
  PROVE  CopiesCurrent'
<1>1. \A v \in Workers : v = w
  BY OnlyWorker
<1> QED
  BY <1>1 DEF CopiesCurrent

\* A copy is as deleted as its row was when it was read, and nobody else writes
\* before it is written back.
LEMMA CopiesDeletedStep ==
  ASSUME OneAtATime
  PROVE  TypeInv /\ CardInv /\ CopiesCurrent /\ [Next]_vars => CopiesCurrent' /\ DeletedKept
<1> SUFFICES ASSUME TypeInv, CardInv, CopiesCurrent, [Next]_vars
             PROVE  CopiesCurrent' /\ DeletedKept
  OBVIOUS
<1>0. /\ call \in [Workers -> Call] /\ rows \in [Tokens -> Row \cup {Nil}]
      /\ \A t \in Stored(rows) : t \in Tokens /\ rows[t] \in Row /\ rows[t].token = t
  BY DEF TypeInv, TypeOK, Table, CardInv, RowsBillable, Stored
<1>1. ASSUME UNCHANGED rows
      PROVE  DeletedKept
  BY <1>1 DEF DeletedKept
<1>2. ASSUME NEW w \in Workers, NEW t \in Tokens, NEW m \in Members,
             NEW k \in Keys, NEW nick \in Nicks, RegistCardInsert(w, t, m, k, nick)
      PROVE  CopiesCurrent' /\ DeletedKept
  <2>1. call'[w].pc # "update"
    BY <1>2 DEF RegistCardInsert, IsIdle
  <2>2. \A s \in Stored(rows) : rows'[s] = rows[s]
    BY <1>0, <1>2 DEF RegistCardInsert, addCardInfo, Stored
  <2> QED
    BY <2>1, <2>2, CopiesAway DEF DeletedKept
<1>3. ASSUME NEW w \in Workers, NEW t \in Stored(rows), NEW copy, ReadForUpdate(w, copy),
             copy.token = rows[t].token, rows[t].flag = "D" => copy.flag = "D"
      PROVE  CopiesCurrent' /\ DeletedKept
  <2>1. UNCHANGED rows /\ call'[w] = [Idle EXCEPT !.pc = "update", !.row = copy]
    BY <1>0, <1>3 DEF ReadForUpdate, Enter
  <2>2. call'[w].row = copy
    BY <2>1 DEF Idle
  <2>3. \A v \in Workers : v = w
    BY OnlyWorker
  <2>4. \A s \in Stored(rows) : copy.token = s => s = t
    BY <1>0, <1>3
  <2> QED
    BY <1>1, <1>3, <2>1, <2>2, <2>3, <2>4 DEF CopiesCurrent, Stored
<1>4. ASSUME NEW w \in Workers, NEW t \in Tokens, RegistCardRead(w, t)
      PROVE  CopiesCurrent' /\ DeletedKept
  <2> DEFINE copy == [rows[t] EXCEPT !.bill = "issued", !.flag = "Y"]
  <2>1. t \in Stored(rows) /\ rows[t].flag = "N" /\ ReadForUpdate(w, copy)
    BY <1>4 DEF RegistCardRead
  <2>2. copy.token = rows[t].token
    BY <1>0, <2>1 DEF Row
  <2> HIDE DEF copy
  <2> QED
    BY <1>3, <2>1, <2>2
<1>5. ASSUME NEW w \in Workers, NEW t \in Tokens, NEW m \in Members, DeleteCardRead(w, m, t)
      PROVE  CopiesCurrent' /\ DeletedKept
  <2> DEFINE copy == [rows[t] EXCEPT !.flag = "D"]
  <2>1. t \in Stored(rows) /\ ReadForUpdate(w, copy)
    BY <1>5 DEF DeleteCardRead
  <2>2. copy.token = rows[t].token /\ copy.flag = "D"
    BY <1>0, <2>1 DEF Row
  <2> HIDE DEF copy
  <2> QED
    BY <1>3, <2>1, <2>2
<1>6. ASSUME NEW w \in Workers, NEW t \in Tokens, NEW m \in Members, NEW nick \in Nicks,
             ChangeCardNickRead(w, m, t, nick)
      PROVE  CopiesCurrent' /\ DeletedKept
  <2> DEFINE copy == [rows[t] EXCEPT !.nick = nick]
  <2>1. t \in Stored(rows) /\ ReadForUpdate(w, copy)
    BY <1>6 DEF ChangeCardNickRead
  <2>2. copy.token = rows[t].token /\ copy.flag = rows[t].flag
    BY <1>0, <2>1 DEF Row
  <2> HIDE DEF copy
  <2> QED
    BY <1>3, <2>1, <2>2
<1>7. ASSUME NEW w \in Workers, UpdateCard(w)
      PROVE  CopiesCurrent' /\ DeletedKept
  <2>1. call'[w].pc # "update" /\ call[w].pc = "update"
    BY <1>0, <1>7 DEF UpdateCard, At, Respond, Idle
  <2>2. DeletedKept
    <3>1. rows' = [rows EXCEPT ![call[w].row.token] = call[w].row] \/ UNCHANGED rows
      BY <1>7 DEF UpdateCard, updateCardInfo
    <3> QED
      BY <1>0, <2>1, <3>1 DEF DeletedKept, CopiesCurrent
  <2> QED
    BY <2>1, <2>2, CopiesAway
<1>8. CASE ResetNext
  <2>1. PICK w \in Workers :
            \/ InitializePasswordUpdate(w)
            \/ UNCHANGED rows /\ (call'[w].pc \notin Away \/ UNCHANGED call)
    BY <1>8, ResetAway
  <2>2. CASE InitializePasswordUpdate(w)
    <3>1. call'[w].pc # "update"
      BY <1>0, <2>2 DEF InitializePasswordUpdate, Goto, Call
    <3>2. ASSUME NEW t \in Stored(rows), rows' = changePwdSimplePay(rows, call[w].member,
                                                                  call[w].slot.data)
          PROVE  rows'[t].flag = rows[t].flag
      <4>1. \/ rows'[t] = rows[t]
            \/ rows'[t] = [rows[t] EXCEPT !.key = call[w].slot.data]
        BY <1>0, <3>2 DEF changePwdSimplePay
      <4> QED
        BY <1>0, <4>1 DEF Row
    <3>3. DeletedKept
      BY <1>1, <2>2, <3>2 DEF InitializePasswordUpdate, DeletedKept
    <3> QED
      BY <3>1, <3>3, CopiesAway
  <2>3. CASE UNCHANGED rows /\ (call'[w].pc \notin Away \/ UNCHANGED call)
    BY <1>1, <2>3, CopiesAway, CopiesSame DEF Away
  <2> QED
    BY <2>1, <2>2, <2>3
<1>9. CASE PayNext
  BY <1>1, <1>9, PayAway, CopiesAway DEF Away
<1>10. CASE Restart
  BY <1>1, <1>10 DEF Restart, CopiesCurrent, Idle
<1>11. CASE UNCHANGED <<rows, call>>
  BY <1>11, CopiesSame
<1> QED
  BY <1>2, <1>4, <1>5, <1>6, <1>7, <1>8, <1>9, <1>10, <1>11
     DEF Next, CardNext, vars

\* When requests are handled one at a time, no nickname change, deletion or late
\* callback of KICC brings a deleted card back.
THEOREM DeletedSafe == ASSUME OneAtATime PROVE Spec => DeletedStaysDeleted
<1>1. Init => CopiesCurrent
  BY DEF Init, CopiesCurrent, Idle
<1>2. TypeInv /\ CardInv /\ CopiesCurrent /\ [Next]_vars => CopiesCurrent'
  BY CopiesDeletedStep
<1>3. TypeInv /\ CardInv /\ CopiesCurrent /\ [Next]_vars =>
        [\A t \in Stored(rows) : rows[t].flag = "D" => rows'[t].flag = "D"]_vars
  BY CopiesDeletedStep DEF DeletedKept
<1> QED
  BY <1>1, <1>2, <1>3, CardsCorrect, PTL DEF Spec, DeletedStaysDeleted

\* The key that a reset wrote on every card stays until its request is answered.
LEMMA ResetStep ==
  ASSUME OneAtATime, "db" \notin Faults
  PROVE  TypeInv /\ ResetDone /\ [Next]_vars => ResetDone'
<1> SUFFICES ASSUME TypeInv, ResetDone, [Next]_vars PROVE ResetDone'
  OBVIOUS
<1>0. /\ call \in [Workers -> Call] /\ rows \in [Tokens -> Row \cup {Nil}]
      /\ \A t \in Stored(rows) : t \in Tokens /\ rows[t] \in Row
  BY DEF TypeInv, TypeOK, Table, Stored
<1>1. ASSUME NEW w \in Workers, call'[w].pc # "resetHistory"
      PROVE  ResetDone'
  <2>1. \A v \in Workers : v = w
    BY OnlyWorker
  <2> QED
    BY <1>1, <2>1 DEF ResetDone
<1>2. ASSUME UNCHANGED <<rows, call>>
      PROVE  ResetDone'
  BY <1>2 DEF ResetDone, Stored
<1>3. ASSUME NEW w \in Workers, NEW t \in Tokens, NEW m \in Members,
             NEW k \in Keys, NEW nick \in Nicks, RegistCardInsert(w, t, m, k, nick)
      PROVE  ResetDone'
  <2>1. call'[w].pc # "resetHistory"
    BY <1>3 DEF RegistCardInsert, IsIdle
  <2> QED
    BY <1>1, <2>1
<1>4. ASSUME NEW w \in Workers, NEW copy, ReadForUpdate(w, copy)
      PROVE  ResetDone'
  <2>1. call'[w] = [Idle EXCEPT !.pc = "update", !.row = copy]
    BY <1>0, <1>4 DEF ReadForUpdate, Enter
  <2>2. call'[w].pc # "resetHistory"
    BY <2>1 DEF Idle
  <2> QED
    BY <1>1, <2>2
<1>5. ASSUME NEW w \in Workers, UpdateCard(w)
      PROVE  ResetDone'
  <2>1. call'[w].pc # "resetHistory"
    BY <1>0, <1>5 DEF UpdateCard, Respond, Idle
  <2> QED
    BY <1>1, <2>1
<1>6. CASE ResetNext
  <2>1. PICK w \in Workers :
            \/ InitializePasswordUpdate(w)
            \/ UNCHANGED rows /\ (call'[w].pc \notin Away \/ UNCHANGED call)
    BY <1>6, ResetAway
  <2>2. CASE InitializePasswordUpdate(w)
    <3>1. /\ rows' = changePwdSimplePay(rows, call[w].member, call[w].slot.data)
          /\ call'[w] = [call[w] EXCEPT !.pc = "resetHistory"]
      BY <1>0, <2>2 DEF InitializePasswordUpdate, Goto
    <3>2. call'[w].member = call[w].member /\ call'[w].slot = call[w].slot
      BY <1>0, <3>1 DEF Call
    <3>3. ASSUME NEW t \in Tokens, rows'[t] # Nil, rows'[t].member = call[w].member
          PROVE  rows'[t].key = call[w].slot.data
      <4>1. rows'[t] = IF rows[t] # Nil /\ rows[t].member = call[w].member
                       THEN [rows[t] EXCEPT !.key = call[w].slot.data] ELSE rows[t]
        BY <1>0, <3>1 DEF changePwdSimplePay
      <4>2. rows[t] # Nil /\ rows[t] \in Row
        BY <1>0, <3>3, <4>1
      <4>3. CASE rows[t].member = call[w].member
        BY <4>1, <4>2, <4>3 DEF Row
      <4>4. CASE rows[t].member # call[w].member
        BY <3>3, <4>1, <4>4
      <4> QED
        BY <4>3, <4>4
    <3>4. \A v \in Workers : v = w
      BY OnlyWorker
    <3> QED
      BY <3>2, <3>3, <3>4 DEF ResetDone, Stored
  <2>3. CASE UNCHANGED rows /\ (call'[w].pc \notin Away \/ UNCHANGED call)
    BY <1>1, <1>2, <2>3 DEF Away
  <2> QED
    BY <2>1, <2>2, <2>3
<1>7. CASE PayNext
  BY <1>1, <1>7, PayAway DEF Away
<1>8. CASE Restart
  BY <1>8 DEF Restart, ResetDone, Idle
<1>9. CASE UNCHANGED <<rows, call>>
  BY <1>2, <1>9
<1> QED
  BY <1>3, <1>4, <1>5, <1>6, <1>7, <1>8, <1>9
     DEF Next, CardNext, RegistCardRead, DeleteCardRead, ChangeCardNickRead, vars

\* When requests are handled one at a time and no UPDATE fails, every card of the
\* member has the new key when a password reset is answered 200.
THEOREM ResetSafe == ASSUME OneAtATime, "db" \notin Faults PROVE Spec => ResetTakesEffect
<1>1. Init => ResetDone
  BY DEF Init, ResetDone, Idle
<1>2. TypeInv /\ ResetDone /\ [Next]_vars => ResetDone'
  BY ResetStep
<1>3. TypeInv /\ ResetDone /\ [Next]_vars =>
        [\A w \in Workers :
            (At(w, "resetHistory") /\ crashes' = crashes
               /\ call'[w].pc # "resetHistory") =>
            \A t \in Stored(rows) :
                rows[t].member = call[w].member =>
                    rows[t].key = call[w].slot.data]_vars
  BY DEF ResetDone, At
<1> QED
  BY <1>1, <1>2, <1>3, TypeCorrect, PTL DEF Spec, ResetTakesEffect

-----------------------------------------------------------------------------
(* One delivery.  When a second step is delivered at most once, the payment   *)
(* implements the promise about its nonces, whatever else runs, fails or      *)
(* crashes.                                                                   *)

LEMMA DeliveredInit == Init => DeliveredOnce
BY DEF Init, DeliveredOnce, Idle, Paying, Taken, Charging, Preparing

\* A handler moves to c: what holds of it and of the others' tickets suffices.
LEMMA DeliveredMove ==
  ASSUME TypeInv, DeliveredOnce, NEW w \in Workers, NEW c, Enter(w, c),
         \A v \in Workers \ {w} :
             /\ call[v].pc \in Paying => ticket'[call[v].nonce].left = 0
             /\ call[v].pc \in Preparing => ticket'[call[v].slot.nonce] = Nil,
         c.pc \in Paying =>
             /\ ticket'[c.nonce].left = 0
             /\ \A v \in Workers \ {w} : call[v].pc \in Paying => call[v].nonce # c.nonce,
         c.pc \in Preparing =>
             /\ ticket'[c.slot.nonce] = Nil
             /\ \A v \in Workers \ {w} :
                   call[v].pc \in Preparing => call[v].slot.nonce # c.slot.nonce
  PROVE  DeliveredOnce'
<1>1. \A v \in Workers : call'[v] = IF v = w THEN c ELSE call[v]
  BY DEF Enter, TypeInv, TypeOK
<1> QED
  BY <1>1 DEF DeliveredOnce

\* It stays in the second step with its nonce, or is in neither.
LEMMA DeliveredOn ==
  ASSUME TypeInv, DeliveredOnce, UNCHANGED ticket, NEW w \in Workers, NEW c, Enter(w, c),
         c.pc \notin Preparing, c.pc \in Paying => call[w].pc \in Paying /\ c.nonce = call[w].nonce
  PROVE  DeliveredOnce'
<1>1. \A v \in Workers \ {w} :
         /\ call[v].pc \in Paying => ticket'[call[v].nonce].left = 0
         /\ call[v].pc \in Preparing => ticket'[call[v].slot.nonce] = Nil
  BY DEF DeliveredOnce
<1>2. c.pc \in Paying =>
         /\ ticket'[c.nonce].left = 0
         /\ \A v \in Workers \ {w} : call[v].pc \in Paying => call[v].nonce # c.nonce
  BY DEF DeliveredOnce
<1> QED
  BY <1>1, <1>2, DeliveredMove

LEMMA DeliveredRespond ==
  ASSUME TypeInv, DeliveredOnce, UNCHANGED ticket, NEW w \in Workers, Respond(w)
  PROVE  DeliveredOnce'
<1>1. Enter(w, Idle) /\ Idle.pc \notin Paying /\ Idle.pc \notin Preparing
  BY DEF Respond, Enter, Idle, Paying, Taken, Charging, Preparing
<1> QED
  BY <1>1, DeliveredOn

\* A fresh nonce has no ticket and nobody prepares it.
LEMMA FreshApart ==
  ASSUME TypeInv, NonceInv, NEW n \in Nonces, n \notin used
  PROVE  /\ ticket[n] = Nil
         /\ \A v \in Workers : call[v].slot # Nil => call[v].slot.nonce # n
<1>1. ASSUME ticket[n] # Nil
      PROVE  FALSE
  <2>1. ticket[n] \in Ticket
    BY <1>1 DEF TypeInv, TypeOK
  <2> DEFINE s == [type |-> ticket[n].type, nonce |-> n, data |-> ticket[n].data]
  <2>2. s \in Slot /\ s.nonce = n /\ ticket[n].member \in Members
    BY <2>1 DEF Slot, Ticket
  <2>3. Ticketed(ticket[n].member, s)
    BY <1>1, <2>2 DEF Ticketed
  <2> QED
    BY <2>2, <2>3 DEF NonceInv, HeldUsed, Holds
<1>2. ASSUME NEW v \in Workers, call[v].slot # Nil, call[v].slot.nonce = n
      PROVE  FALSE
  <2>1. call[v].slot \in Slot /\ call[v].member \in Members
    BY <1>2 DEF TypeInv, TypeOK, ControlOK, HasLocals, Call
  <2>2. Carried(call[v].member, call[v].slot)
    BY DEF Carried
  <2> QED
    BY <1>2, <2>1, <2>2 DEF NonceInv, HeldUsed, Holds
<1> QED
  BY <1>1, <1>2

\* A handler that prepares has an entry.
LEMMA PreparingSlot ==
  ASSUME TypeInv, NEW w \in Workers, call[w].pc \in Preparing
  PROVE  /\ call[w].slot \in Slot /\ call[w].slot # Nil /\ call[w].slot.nonce \in Nonces
         /\ call[w].member \in Members
<1>1. call[w].slot \in Slot /\ call[w].member \in Members /\ call[w].slot # Nil
  BY DEF TypeInv, TypeOK, ControlOK, HasLocals, Call, Preparing, Resetting
<1> QED
  BY <1>1 DEF Slot

\* The prepared nonce is fresh; its ticket is issued when the handler answers.
LEMMA DeliveredPrepare ==
  ASSUME TypeInv, NonceInv, DeliveredOnce, UNCHANGED ticket,
         NEW w \in Workers, NEW c, Enter(w, c), c.pc \in Preparing, c.slot.nonce \in Nonces,
         c.slot.nonce \notin used
  PROVE  DeliveredOnce'
<1>1. c.pc \notin Paying
  BY DEF Preparing, Paying, Taken, Charging
<1>2. /\ ticket'[c.slot.nonce] = Nil
      /\ \A v \in Workers \ {w} : call[v].pc \in Preparing => call[v].slot.nonce # c.slot.nonce
  BY FreshApart, PreparingSlot
<1>3. \A v \in Workers \ {w} :
         /\ call[v].pc \in Paying => ticket'[call[v].nonce].left = 0
         /\ call[v].pc \in Preparing => ticket'[call[v].slot.nonce] = Nil
  BY DEF DeliveredOnce
<1> QED
  BY <1>1, <1>2, <1>3, DeliveredMove

LEMMA DeliveredIssue ==
  ASSUME TypeInv, ChargeInv, DeliveredOnce, NEW w \in Workers, call[w].pc \in Preparing,
         Issue(call[w].slot, call[w].member), Respond(w)
  PROVE  DeliveredOnce'
<1> DEFINE n == call[w].slot.nonce
<1>1. n \in Nonces /\ ticket[n] = Nil
  BY PreparingSlot DEF DeliveredOnce
<1>2. \A o \in Nonces \ {n} : ticket'[o] = ticket[o]
  BY <1>1 DEF Issue, TypeInv, TypeOK
<1>3. ASSUME NEW v \in Workers \ {w}
      PROVE  /\ call[v].pc \in Paying => ticket'[call[v].nonce].left = 0
             /\ call[v].pc \in Preparing => ticket'[call[v].slot.nonce] = Nil
  <2>1. call[v].pc \in Paying => call[v].nonce \in Nonces \ {n}
    BY <1>1, PayLocals DEF ChargeInv, OwnEntry, Paid
  <2>2. call[v].pc \in Preparing => call[v].slot.nonce \in Nonces \ {n}
    BY PreparingSlot DEF DeliveredOnce
  <2> QED
    BY <1>2, <2>1, <2>2 DEF DeliveredOnce
<1>4. Enter(w, Idle) /\ Idle.pc \notin Paying /\ Idle.pc \notin Preparing
  BY DEF Respond, Enter, Idle, Paying, Taken, Charging, Preparing
<1> QED
  BY <1>3, <1>4, DeliveredMove

\* A delivery touches no other handler's ticket.
LEMMA DeliveredApart ==
  ASSUME TypeInv, ChargeInv, DeliveredOnce, NEW n \in Nonces, NEW type, CanDeliver(n, type),
         Deliver(n)
  PROVE  \A v \in Workers :
            /\ call[v].pc \in Paying => call[v].nonce # n /\ ticket'[call[v].nonce].left = 0
            /\ call[v].pc \in Preparing => ticket'[call[v].slot.nonce] = Nil
<1>1. \A o \in Nonces \ {n} : ticket'[o] = ticket[o]
  BY DEF Deliver, TypeInv, TypeOK
<1>2. ticket[n] # Nil /\ ticket[n].left > 0
  BY DEF CanDeliver
<1>3. ASSUME NEW v \in Workers
      PROVE  /\ call[v].pc \in Paying => call[v].nonce \in Nonces \ {n}
             /\ call[v].pc \in Preparing => call[v].slot.nonce \in Nonces \ {n}
  BY <1>2, PayLocals, PreparingSlot DEF DeliveredOnce
<1> QED
  BY <1>1, <1>3 DEF DeliveredOnce

LEMMA DeliveredCards ==
  ASSUME TypeInv, DeliveredOnce, CardNext
  PROVE  DeliveredOnce'
<1>1. CASE UNCHANGED <<call, ticket>>
  BY <1>1 DEF DeliveredOnce
<1>2. ASSUME NEW w \in Workers, NEW copy, ReadForUpdate(w, copy)
      PROVE  DeliveredOnce'
  <2> DEFINE c == [Idle EXCEPT !.pc = "update", !.row = copy]
  <2>1. Enter(w, c) /\ UNCHANGED ticket /\ c.pc \notin Preparing /\ c.pc \notin Paying
    BY <1>2 DEF ReadForUpdate, Idle, Preparing, Paying, Taken, Charging
  <2> HIDE DEF c
  <2> QED
    BY <2>1, DeliveredOn
<1>3. ASSUME NEW w \in Workers, UpdateCard(w)
      PROVE  DeliveredOnce'
  BY <1>3, DeliveredRespond DEF UpdateCard
<1> QED
  BY <1>1, <1>2, <1>3 DEF CardNext, RegistCardInsert, RegistCardRead,
     DeleteCardRead, ChangeCardNickRead

LEMMA DeliveredReset ==
  ASSUME TypeInv, NonceInv, ChargeInv, DeliveredOnce, ResetNext
  PROVE  DeliveredOnce'
<1>1. ASSUME NEW w \in Workers, NEW m \in Members, NEW k \in Keys, NEW n \in Nonces,
             InitializePasswordList(w, m, k, n)
      PROVE  DeliveredOnce'
  <2> DEFINE s == [type |-> ResetType, nonce |-> n, data |-> k]
             c == [Idle EXCEPT !.pc = "resetPut", !.member = m, !.slot = s]
  <2>1. /\ Enter(w, c) /\ UNCHANGED ticket /\ n \notin used
        /\ c.pc \in Preparing /\ c.slot.nonce = n
    BY <1>1 DEF InitializePasswordList, FreshNonce, Idle, Preparing
  <2> HIDE DEF c
  <2> QED
    BY <2>1, DeliveredPrepare
<1>2. ASSUME NEW w \in Workers, NEW n \in Nonces, InitializePasswordGet(w, n)
      PROVE  DeliveredOnce'
  <2> DEFINE m == ticket[n].member
             c == [Idle EXCEPT !.pc = "resetUpdate", !.member = m, !.slot = get(m)]
  <2>1. (Enter(w, c) \/ UNCHANGED call) /\ CanDeliver(n, ResetType) /\ Deliver(n)
        /\ c.pc \notin Preparing /\ c.pc \notin Paying
    BY <1>2 DEF InitializePasswordGet, Idle, Preparing, Paying, Taken, Charging
  <2> HIDE DEF c
  <2>2. \A v \in Workers :
            /\ call[v].pc \in Paying => call[v].nonce # n /\ ticket'[call[v].nonce].left = 0
            /\ call[v].pc \in Preparing => ticket'[call[v].slot.nonce] = Nil
    BY <2>1, DeliveredApart
  <2>3. CASE Enter(w, c)
    BY <2>1, <2>2, <2>3, DeliveredMove
  <2>4. CASE UNCHANGED call
    BY <2>2, <2>4 DEF DeliveredOnce
  <2> QED
    BY <2>1, <2>3, <2>4
<1>3. ASSUME NEW w \in Workers, InitializePasswordUpdate(w)
      PROVE  DeliveredOnce'
  <2> DEFINE c == [call[w] EXCEPT !.pc = "resetHistory"]
  <2>1. Enter(w, c) /\ UNCHANGED ticket /\ c.pc = "resetHistory"
    BY <1>3 DEF InitializePasswordUpdate, Goto, Enter, TypeInv, TypeOK, Call
  <2> HIDE DEF c
  <2> QED
    BY <2>1, DeliveredOn DEF Preparing, Paying, Taken, Charging
<1>4. ASSUME NEW w \in Workers, InitializePasswordPut(w)
      PROVE  DeliveredOnce'
  BY <1>4, DeliveredIssue DEF InitializePasswordPut, At, Preparing
<1>5. ASSUME NEW w \in Workers, InitializePasswordHistory(w)
      PROVE  DeliveredOnce'
  BY <1>5, DeliveredRespond DEF InitializePasswordHistory
<1> QED
  BY <1>1, <1>2, <1>3, <1>4, <1>5 DEF ResetNext

LEMMA DeliveredPay ==
  ASSUME MaxDeliver = 1, TypeInv, NonceInv, ChargeInv, DeliveredOnce, PayNext
  PROVE  DeliveredOnce'
<1>1. ASSUME NEW w \in Workers, NEW m \in Members, NEW o \in Orders,
             NEW n \in Nonces, RequestPaymentPut(w, m, o, n)
      PROVE  DeliveredOnce'
  <2> DEFINE s == [type |-> PayType, nonce |-> n, data |-> o]
             c == [Idle EXCEPT !.pc = "payEcho", !.member = m, !.slot = s]
  <2>1. /\ Enter(w, c) /\ UNCHANGED ticket /\ n \notin used
        /\ c.pc \in Preparing /\ c.slot.nonce = n
    BY <1>1 DEF RequestPaymentPut, FreshNonce, Idle, Preparing
  <2> HIDE DEF c
  <2> QED
    BY <2>1, DeliveredPrepare
<1>2. ASSUME NEW w \in Workers, RequestPaymentEcho(w)
      PROVE  DeliveredOnce'
  BY <1>2, DeliveredIssue, DeliveredRespond DEF RequestPaymentEcho, At, Preparing
<1>3. ASSUME NEW w \in Workers, NEW n \in Nonces, NEW t \in Tokens,
             NEW k \in Keys, VerifyGet(w, n, t, k)
      PROVE  DeliveredOnce'
  <2> DEFINE m == ticket[n].member
             c == [Idle EXCEPT !.pc = "payRemove", !.member = m,
                     !.slot = get(m), !.token = t, !.key = k, !.nonce = n]
  <2>1. /\ Enter(w, c) /\ CanDeliver(n, PayType) /\ Deliver(n)
        /\ c.pc = "payRemove" /\ c.nonce = n
    BY <1>3 DEF VerifyGet, Idle
  <2> HIDE DEF c
  <2>2. \A v \in Workers :
            /\ call[v].pc \in Paying => call[v].nonce # n /\ ticket'[call[v].nonce].left = 0
            /\ call[v].pc \in Preparing => ticket'[call[v].slot.nonce] = Nil
    BY <2>1, DeliveredApart
  <2>3. ticket'[n].left = 0
    <3>1. ticket[n] \in Ticket /\ ticket[n].left > 0
      BY <2>1 DEF CanDeliver, TypeInv, TypeOK
    <3>2. ticket[n].left = 1
      BY <3>1 DEF Ticket
    <3>3. ticket'[n] = [ticket[n] EXCEPT !.left = @ - 1]
      BY <2>1 DEF Deliver, TypeInv, TypeOK
    <3> QED
      BY <3>1, <3>2, <3>3 DEF Ticket
  <2> QED
    BY <2>1, <2>2, <2>3, DeliveredMove DEF Preparing
<1>4. ASSUME NEW w \in Workers,
             \/ VerifyRemove(w) \/ VerifyCard(w) \/ GetUserPayInfo(w)
             \/ KiccApproves(w) \/ KiccDeclines(w) \/ PayCallBack(w) \/ PayCancel(w)
      PROVE  DeliveredOnce'
  <2>1. call[w].pc \in Paying /\ UNCHANGED ticket
    BY <1>4 DEF VerifyRemove, VerifyCard, GetUserPayInfo, KiccApproves, KiccDeclines,
                PayCallBack, PayCancel, At, Paying, Taken, Charging
  <2>2. CASE Respond(w)
    BY <2>1, <2>2, DeliveredRespond
  <2>3. ASSUME NEW c, Enter(w, c), c.nonce = call[w].nonce, c.pc \in Paying
        PROVE  DeliveredOnce'
    BY <2>1, <2>3, DeliveredOn DEF Preparing, Paying, Taken, Charging
  <2>4. ASSUME NEW pc \in Taken, Goto(w, pc)
        PROVE  DeliveredOnce'
    <3> DEFINE c == [call[w] EXCEPT !.pc = pc]
    <3>1. Enter(w, c) /\ c.nonce = call[w].nonce /\ c.pc \in Paying
      BY <2>4 DEF Goto, Enter, TypeInv, TypeOK, Call, Paying
    <3> HIDE DEF c
    <3> QED
      BY <2>3, <3>1
  <2>5. ASSUME NEW r, Enter(w, [call[w] EXCEPT !.pc = "payOrder", !.row = r])
        PROVE  DeliveredOnce'
    <3> DEFINE c == [call[w] EXCEPT !.pc = "payOrder", !.row = r]
    <3>1. c.nonce = call[w].nonce /\ c.pc \in Paying
      BY DEF TypeInv, TypeOK, Call, Paying, Taken, Charging
    <3> HIDE DEF c
    <3> QED
      BY <2>3, <2>5, <3>1 DEF c
  <2> QED
    BY <1>4, <2>2, <2>4, <2>5
       DEF VerifyRemove, VerifyCard, GetUserPayInfo, KiccApproves, KiccDeclines,
           PayCallBack, PayCancel, Taken, Charging
<1> QED
  BY <1>1, <1>2, <1>3, <1>4 DEF PayNext

LEMMA DeliveredStep ==
  ASSUME MaxDeliver = 1
  PROVE  TypeInv /\ NonceInv /\ ChargeInv /\ DeliveredOnce /\ [Next]_vars => DeliveredOnce'
<1>1. DeliveredOnce /\ UNCHANGED vars => DeliveredOnce'
  BY DEF vars, DeliveredOnce
<1>2. DeliveredOnce /\ Restart => DeliveredOnce'
  BY DEF Restart, DeliveredOnce, Idle, Paying, Taken, Charging, Preparing
<1> QED
  BY <1>1, <1>2, DeliveredCards, DeliveredReset, DeliveredPay DEF Next

-----------------------------------------------------------------------------
(* The refinement                                                            *)

\* The handler c took nonce n and has not charged it yet.
Took(c, n) == c.pc \in Uncharged /\ c.nonce = n /\ c.slot # Nil /\ c.slot.nonce = n

LEMMA HoldingIs == \A n : Holding(n) <=> \E w \in Workers : Took(call[w], n)
BY DEF Holding, Took, Uncharged

LEMMA UnchargedPays == Uncharged \subseteq Paying
BY DEF Uncharged, Paying, Taken, Charging

\* Handlers that took different nonces are different, and took one each.
LEMMA TookOne ==
  ASSUME TypeInv, DeliveredOnce, NEW v \in Workers, NEW w \in Workers, NEW n,
         Took(call[v], n), Took(call[w], n)
  PROVE  v = w
BY UnchargedPays DEF DeliveredOnce, Took

LEMMA TookNonce ==
  ASSUME TypeInv, NEW n, Holding(n)
  PROVE  n \in Nonces
BY HoldingIs, UnchargedPays, PayLocals DEF Took

\* A member's live nonce: that of the entry in the memory, until it is taken.
LiveFact ==
  \A m \in Members :
     live[m] = IF memory[m] # Nil /\ memory[m].type = PayType /\ ~Holding(memory[m].nonce)
               THEN memory[m].nonce ELSE Nil

LEMMA LiveIs == LiveFact
BY DEF LiveFact, live, PayNonce

LEMMA LiveNext == LiveFact'
BY LiveIs, PTL

LEMMA LiveFunction == live = [m \in Members |-> live[m]] /\ live' = [m \in Members |-> live'[m]]
BY DEF live

\* A worker moves to c, which took what the worker had taken.
LEMMA HoldingMoves ==
  ASSUME TypeInv, NEW w \in Workers, NEW c, Enter(w, c)
  PROVE  \A n : Holding(n)' <=> Took(c, n) \/ \E v \in Workers \ {w} : Took(call[v], n)
<1>1. \A v \in Workers : call'[v] = IF v = w THEN c ELSE call[v]
  BY DEF Enter, TypeInv, TypeOK
<1>2. \A n : Holding(n)' <=> \E v \in Workers : Took(call'[v], n)
  BY DEF Holding, Took, Uncharged
<1> QED
  BY <1>1, <1>2

LEMMA HoldingKept ==
  ASSUME TypeInv, NEW w \in Workers, NEW c, Enter(w, c),
         \A n : Took(c, n) <=> Took(call[w], n)
  PROVE  (\A n : Holding(n)' <=> Holding(n)) /\ UNCHANGED armed
<1>1. \A n : Holding(n)' <=> Holding(n)
  BY HoldingMoves, HoldingIs
<1> QED
  BY <1>1 DEF armed

\* What the promise sees, in one tuple.
Seen == <<used, live, armed, charged>>

LEMMA LiveKept ==
  ASSUME TypeInv, UNCHANGED memory, \A n : Holding(n)' <=> Holding(n)
  PROVE  UNCHANGED live
<1>1. \A m \in Members : live'[m] = live[m]
  BY LiveIs, LiveNext DEF LiveFact
<1> QED
  BY <1>1, LiveFunction

LEMMA ChargedKept ==
  ASSUME UNCHANGED ledger
  PROVE  UNCHANGED charged
BY DEF charged

\* Nothing of it changes.
LEMMA SeenSame ==
  ASSUME TypeInv, UNCHANGED <<used, memory, ledger, call>>
  PROVE  UNCHANGED Seen
<1>1. \A n : Holding(n)' <=> Holding(n)
  BY DEF Holding
<1>2. UNCHANGED armed
  BY <1>1 DEF armed
<1> QED
  BY <1>1, <1>2, LiveKept, ChargedKept DEF Seen

LEMMA SeenMove ==
  ASSUME TypeInv, UNCHANGED <<used, memory>>, UNCHANGED charged,
         NEW w \in Workers, NEW c, Enter(w, c), \A n : Took(c, n) <=> Took(call[w], n)
  PROVE  UNCHANGED Seen
BY HoldingKept, LiveKept DEF Seen

\* A worker that had taken nothing and takes nothing.
LEMMA SeenAway ==
  ASSUME TypeInv, UNCHANGED <<used, memory>>, UNCHANGED charged,
         NEW w \in Workers, call[w].pc \notin Uncharged,
         NEW c, Enter(w, c), c.pc \notin Uncharged
  PROVE  UNCHANGED Seen
<1>1. \A n : Took(c, n) <=> Took(call[w], n)
  BY DEF Took
<1> QED
  BY <1>1, SeenMove

LEMMA IdleTook == Idle.pc \notin Uncharged
BY DEF Idle, Uncharged

LEMMA PromiseCards ==
  ASSUME TypeInv, CardNext
  PROVE  UNCHANGED Seen
<1>0. UNCHANGED <<used, memory, ledger>>
  BY DEF CardNext, RegistCardInsert, RegistCardRead, DeleteCardRead,
         ChangeCardNickRead, ReadForUpdate, UpdateCard
<1>1. CASE UNCHANGED call
  BY <1>0, <1>1, SeenSame
<1>2. ASSUME NEW w \in Workers, NEW copy, ReadForUpdate(w, copy)
      PROVE  UNCHANGED Seen
  <2> DEFINE c == [Idle EXCEPT !.pc = "update", !.row = copy]
  <2>1. /\ Enter(w, c) /\ c.pc \notin Uncharged /\ call[w].pc \notin Uncharged
    BY <1>2 DEF ReadForUpdate, IsIdle, Idle, Uncharged
  <2> HIDE DEF c
  <2> QED
    BY <1>0, <2>1, SeenAway, ChargedKept
<1>3. ASSUME NEW w \in Workers, UpdateCard(w)
      PROVE  UNCHANGED Seen
  <2>1. Enter(w, Idle) /\ call[w].pc \notin Uncharged
    BY <1>3 DEF UpdateCard, At, Respond, Enter, Uncharged
  <2> QED
    BY <1>0, <2>1, IdleTook, SeenAway, ChargedKept
<1> QED
  BY <1>1, <1>2, <1>3 DEF CardNext, RegistCardInsert, RegistCardRead,
     DeleteCardRead, ChangeCardNickRead

\* A reset reserves a nonce, and drops the member's live one when it stores its
\* entry.
LEMMA PromiseReset ==
  ASSUME TypeInv, ResetNext
  PROVE  [Promise!Next]_Seen
<1>1. ASSUME NEW w \in Workers, NEW m \in Members, NEW k \in Keys, NEW n \in Nonces,
             InitializePasswordList(w, m, k, n)
      PROVE  Promise!Reserve(n)
  <2> DEFINE s == [type |-> ResetType, nonce |-> n, data |-> k]
             c == [Idle EXCEPT !.pc = "resetPut", !.member = m, !.slot = s]
  <2>1. /\ Enter(w, c) /\ c.pc \notin Uncharged /\ call[w].pc \notin Uncharged
        /\ UNCHANGED <<memory, ledger>> /\ used' = used \cup {n}
    BY <1>1 DEF InitializePasswordList, IsIdle, FreshNonce, Idle, Uncharged
  <2> HIDE DEF c
  <2>2. (\A o : Holding(o)' <=> Holding(o)) /\ UNCHANGED armed
    BY <2>1, HoldingKept DEF Took
  <2> QED
    BY <2>1, <2>2, LiveKept, ChargedKept DEF Promise!Reserve
<1>2. ASSUME NEW w \in Workers, NEW n \in Nonces, InitializePasswordGet(w, n)
      PROVE  UNCHANGED Seen
  <2> DEFINE m == ticket[n].member
             c == [Idle EXCEPT !.pc = "resetUpdate", !.member = m, !.slot = get(m)]
  <2>1. /\ Enter(w, c) \/ UNCHANGED call
        /\ c.pc \notin Uncharged /\ call[w].pc \notin Uncharged
        /\ UNCHANGED <<used, memory, ledger>>
    BY <1>2 DEF InitializePasswordGet, IsIdle, Idle, Uncharged
  <2> HIDE DEF c
  <2> QED
    BY <2>1, SeenSame, SeenAway, ChargedKept
<1>3. ASSUME NEW w \in Workers, InitializePasswordUpdate(w)
      PROVE  UNCHANGED Seen
  <2> DEFINE c == [call[w] EXCEPT !.pc = "resetHistory"]
  <2>1. /\ Enter(w, c) /\ UNCHANGED <<used, memory, ledger>> /\ c.pc = "resetHistory"
        /\ call[w].pc = "resetUpdate"
    BY <1>3 DEF InitializePasswordUpdate, At, Goto, Enter, TypeInv, TypeOK, Call
  <2> HIDE DEF c
  <2> QED
    BY <2>1, SeenAway, ChargedKept DEF Uncharged
<1>4. ASSUME NEW w \in Workers, InitializePasswordHistory(w)
      PROVE  UNCHANGED Seen
  <2>1. /\ Enter(w, Idle) /\ call[w].pc \notin Uncharged /\ UNCHANGED <<used, memory, ledger>>
    BY <1>4 DEF InitializePasswordHistory, At, Respond, Enter, Uncharged
  <2> QED
    BY <2>1, IdleTook, SeenAway, ChargedKept
<1>5. ASSUME NEW w \in Workers, InitializePasswordPut(w)
      PROVE  \E m \in Members : Promise!Drop(m)
  <2> DEFINE m == call[w].member
             s == call[w].slot
  <2>1. /\ call[w].pc = "resetPut" /\ memory' = [memory EXCEPT ![m] = s] /\ Enter(w, Idle)
        /\ UNCHANGED <<used, ledger>>
    BY <1>5 DEF InitializePasswordPut, At, put, Respond, Enter
  <2>2. m \in Members /\ s.type = ResetType
    BY <2>1 DEF TypeInv, TypeOK, ControlOK, HasLocals, Call, Resetting
  <2>3. (\A o : Holding(o)' <=> Holding(o)) /\ UNCHANGED armed
    BY <2>1, IdleTook, HoldingKept DEF Took, Uncharged
  <2>4. \A o \in Members : memory'[o] = IF o = m THEN s ELSE memory[o]
    BY <2>1 DEF TypeInv, TypeOK
  <2>5. \A o \in Members : live'[o] = IF o = m THEN Nil ELSE live[o]
    BY <2>2, <2>3, <2>4, LiveIs, LiveNext DEF LiveFact, PayType, ResetType
  <2>6. live' = [live EXCEPT ![m] = Nil]
    BY <2>5, LiveFunction
  <2> QED
    BY <2>1, <2>2, <2>3, <2>6, ChargedKept DEF Promise!Drop
<1> QED
  BY <1>1, <1>2, <1>3, <1>4, <1>5 DEF ResetNext, Promise!Next

\* What a payment holds: a nonce that the memory has given up.
LEMMA TookConsumed ==
  ASSUME TypeInv, NonceInv, ChargeInv, NEW w \in Workers, call[w].pc \in Taken,
         NEW n \in Nonces, Took(call[w], n), NEW m \in Members
  PROVE  memory[m] # Nil => memory[m].nonce # n
BY DEF ChargeInv, OwnEntry, NonceInv, ConsumedNonceGone, Took

\* A handler that took n gives it back without a charge, or with one.
LEMMA LetGo ==
  ASSUME TypeInv, NonceInv, ChargeInv, DeliveredOnce,
         NEW w \in Workers, call[w].pc \in Taken, NEW n \in Nonces, Took(call[w], n),
         NEW c, Enter(w, c), c.pc \notin Uncharged, UNCHANGED memory
  PROVE  n \in armed /\ armed' = armed \ {n} /\ UNCHANGED live
<1>1. \A o : Holding(o)' <=> \E v \in Workers \ {w} : Took(call[v], o)
  BY HoldingMoves DEF Took
<1>2. \A o : Took(call[w], o) => o = n
  BY DEF Took
<1>3. \A v \in Workers \ {w} : ~Took(call[v], n)
  BY TookOne
<1>4. \A o : Holding(o)' <=> Holding(o) /\ o # n
  BY <1>1, <1>2, <1>3, HoldingIs
<1>5. n \in armed /\ armed' = armed \ {n}
  BY <1>4, HoldingIs DEF armed
<1>6. \A m \in Members : live'[m] = live[m]
  BY <1>4, TookConsumed, LiveIs, LiveNext DEF LiveFact
<1> QED
  BY <1>5, <1>6, LiveFunction

\* The first step of a payment starts a nonce that nobody has taken.
LEMMA PromiseStart ==
  ASSUME TypeInv, NonceInv, NEW w \in Workers, NEW m \in Members, NEW o \in Orders,
         NEW n \in Nonces, RequestPaymentPut(w, m, o, n)
  PROVE  Promise!Start(m, n)
<1> DEFINE s == [type |-> PayType, nonce |-> n, data |-> o]
           c == [Idle EXCEPT !.pc = "payEcho", !.member = m, !.slot = s]
<1>1. /\ Enter(w, c) /\ c.pc \notin Uncharged /\ call[w].pc \notin Uncharged
      /\ n \notin used /\ used' = used \cup {n} /\ memory' = [memory EXCEPT ![m] = s]
      /\ UNCHANGED ledger
  BY DEF RequestPaymentPut, IsIdle, FreshNonce, put, Idle, Uncharged
<1>2. s.type = PayType /\ s.nonce = n /\ s # Nil
  <2>1. s \in Slot
    BY DEF Slot
  <2> QED
    BY <2>1, SimplePayAssumption
<1> HIDE DEF c, s
<1>3. (\A x : Holding(x)' <=> Holding(x)) /\ UNCHANGED armed
  BY <1>1, HoldingKept DEF Took
<1>4. ~Holding(n)'
  BY <1>1, <1>3, FreshApart, HoldingIs DEF Took
<1>5. \A x \in Members : memory'[x] = IF x = m THEN s ELSE memory[x]
  BY <1>1 DEF TypeInv, TypeOK
<1>6. \A x \in Members : live'[x] = IF x = m THEN n ELSE live[x]
  BY <1>2, <1>3, <1>4, <1>5, LiveIs, LiveNext DEF LiveFact
<1>7. live' = [live EXCEPT ![m] = n]
  BY <1>6, LiveFunction
<1> QED
  BY <1>1, <1>3, <1>7, ChargedKept DEF Promise!Start

\* The second step takes the live nonce, or finds another entry or none.
LEMMA PromiseTake ==
  ASSUME TypeInv, NonceInv, DeliveredOnce, NEW w \in Workers, NEW n \in Nonces,
         NEW t \in Tokens, NEW k \in Keys, VerifyGet(w, n, t, k)
  PROVE  [Promise!Next]_Seen
<1> DEFINE m == ticket[n].member
           c == [Idle EXCEPT !.pc = "payRemove", !.member = m,
                   !.slot = get(m), !.token = t, !.key = k, !.nonce = n]
<1>1. /\ Enter(w, c) /\ c.pc \in Uncharged /\ c.nonce = n /\ c.slot = memory[m]
      /\ call[w].pc \notin Uncharged /\ CanDeliver(n, PayType)
      /\ UNCHANGED <<used, memory, ledger>>
  BY DEF VerifyGet, IsIdle, Idle, get, Uncharged
<1>2. /\ ticket[n] \in Ticket /\ ticket[n] # Nil /\ ticket[n].left > 0
      /\ ticket[n].type = PayType /\ m \in Members
  BY <1>1 DEF CanDeliver, TypeInv, TypeOK, Ticket
<1> HIDE DEF c
<1>3. CASE memory[m] # Nil /\ memory[m].nonce = n
  <2>1. memory[m].type = PayType
    <3> DEFINE s == [type |-> PayType, nonce |-> n, data |-> ticket[n].data]
    <3>1. s \in Slot /\ Ticketed(m, s)
      BY <1>2 DEF Slot, Ticket, Ticketed, PayType, ResetType
    <3>2. s.nonce = n /\ s.type = PayType
      OBVIOUS
    <3> HIDE DEF s
    <3>3. memory[m] = s
      BY <1>2, <1>3, <3>1, <3>2, MemoryHeld DEF NonceInv, Agree, Holds
    <3> QED
      BY <3>2, <3>3
  <2>2. \A o \in Members : memory[o] # Nil /\ memory[o].nonce = n => o = m
    BY <1>2, <1>3, MemoryHeld DEF NonceInv, Agree
  <2>3. ~Holding(n)
    <3>1. \A v \in Workers : call[v].pc \in Uncharged => ticket[call[v].nonce].left = 0
      BY UnchargedPays DEF DeliveredOnce
    <3> QED
      BY <1>2, <3>1, HoldingIs DEF Took
  <2>4. \A x : Holding(x)' <=> x = n \/ Holding(x)
    BY <1>1, <1>3, HoldingMoves, HoldingIs DEF Took
  <2>5. live[m] = n
    BY <1>2, <1>3, <2>1, <2>3, LiveIs DEF LiveFact
  <2>6. \A o \in Members : live'[o] = IF o = m THEN Nil ELSE live[o]
    BY <1>1, <1>3, <2>2, <2>4, LiveIs, LiveNext DEF LiveFact
  <2>7. live' = [live EXCEPT ![m] = Nil] /\ armed' = armed \cup {n}
    BY <2>4, <2>6, LiveFunction DEF armed
  <2>8. Promise!Take(m, n)
    BY <1>1, <2>5, <2>7, ChargedKept DEF Promise!Take
  <2> QED
    BY <1>2, <2>8 DEF Promise!Next
<1>4. CASE ~(memory[m] # Nil /\ memory[m].nonce = n)
  <2>1. \A x : Took(c, x) <=> Took(call[w], x)
    BY <1>1, <1>4 DEF Took
  <2> QED
    BY <1>1, <2>1, SeenMove, ChargedKept
<1> QED
  BY <1>3, <1>4

\* The removal drops whatever the member has by now.
LEMMA PromiseDrop ==
  ASSUME TypeInv, NEW w \in Workers, VerifyRemove(w)
  PROVE  [Promise!Next]_Seen
<1> DEFINE m == call[w].member
           c == IF call[w].slot = Nil THEN Idle ELSE [call[w] EXCEPT !.pc = "payVerify"]
<1>1. /\ Enter(w, c) /\ call[w].pc = "payRemove" /\ memory' = [memory EXCEPT ![m] = Nil]
      /\ UNCHANGED <<used, ledger>>
  BY DEF VerifyRemove, At, remove, Respond, Goto, Enter
<1>2. m \in Members
  BY <1>1, PayLocals DEF Paying
<1>3. \A x : Took(c, x) <=> Took(call[w], x)
  <2>1. CASE call[w].slot = Nil
    BY <2>1, IdleTook DEF Took
  <2>2. CASE call[w].slot # Nil
    <3>1. c.pc = "payVerify" /\ c.slot = call[w].slot /\ c.nonce = call[w].nonce
      BY <2>2 DEF TypeInv, TypeOK, Call
    <3> HIDE DEF c
    <3> QED
      BY <1>1, <3>1 DEF Took, Uncharged
  <2> QED
    BY <2>1, <2>2
<1> HIDE DEF c
<1>4. (\A x : Holding(x)' <=> Holding(x)) /\ UNCHANGED armed
  BY <1>1, <1>3, HoldingKept
<1>5. \A o \in Members : memory'[o] = IF o = m THEN Nil ELSE memory[o]
  BY <1>1 DEF TypeInv, TypeOK
<1>6. \A o \in Members : live'[o] = IF o = m THEN Nil ELSE live[o]
  BY <1>4, <1>5, LiveIs, LiveNext DEF LiveFact
<1>7. live' = [live EXCEPT ![m] = Nil]
  BY <1>6, LiveFunction
<1>8. Promise!Drop(m)
  BY <1>1, <1>4, <1>7, ChargedKept DEF Promise!Drop
<1> QED
  BY <1>2, <1>8 DEF Promise!Next

\* A handler that took a nonce gives up without a charge.
LEMMA PromiseFail ==
  ASSUME TypeInv, NonceInv, ChargeInv, DeliveredOnce, NEW w \in Workers,
         call[w].pc \in Taken \cap Uncharged, Respond(w), UNCHANGED <<used, memory, ledger>>
  PROVE  [Promise!Next]_Seen
<1> DEFINE n == call[w].nonce
<1>1. n \in Nonces /\ Enter(w, Idle)
  BY UnchargedPays, PayLocals DEF Respond, Enter
<1>2. CASE Took(call[w], n)
  <2>1. Promise!Fail(n)
    BY <1>1, <1>2, IdleTook, LetGo, ChargedKept DEF Promise!Fail
  <2> QED
    BY <1>1, <2>1 DEF Promise!Next
<1>3. CASE ~Took(call[w], n)
  <2>1. \A x : Took(Idle, x) <=> Took(call[w], x)
    BY <1>3, IdleTook DEF Took
  <2> QED
    BY <1>1, <2>1, SeenMove, ChargedKept
<1> QED
  BY <1>2, <1>3

\* KICC's approval charges the nonce that the handler took.
LEMMA PromiseCharge ==
  ASSUME TypeInv, NonceInv, ChargeInv, DeliveredOnce, NEW w \in Workers, KiccApproves(w)
  PROVE  [Promise!Next]_Seen
<1> DEFINE n == call[w].nonce
<1>1. /\ call[w].pc = "payKicc" /\ Count(n, "approved") /\ UNCHANGED <<used, memory>>
      /\ Goto(w, "payCallback") \/ Respond(w)
  BY DEF KiccApproves, At
<1>2. /\ n \in Nonces /\ call[w].slot \in Slot /\ call[w].slot.nonce = n
      /\ call[w].pc \in Taken /\ call[w].pc \in Uncharged
  BY <1>1, PayLocals DEF ChargeInv, OwnEntry, Paying, Taken, Charging, Uncharged
<1>3. Took(call[w], n)
  BY <1>2, SimplePayAssumption DEF Took
<1>4. PICK c : Enter(w, c) /\ c.pc \notin Uncharged
  <2> DEFINE d == [call[w] EXCEPT !.pc = "payCallback"]
  <2>1. d.pc \notin Uncharged
    BY DEF TypeInv, TypeOK, Call, Uncharged
  <2> QED
    BY <1>1, <2>1, IdleTook DEF Goto, Respond, Enter
<1>5. n \in armed /\ armed' = armed \ {n} /\ UNCHANGED live
  BY <1>1, <1>2, <1>3, <1>4, LetGo
<1>6. charged' = charged \cup {n}
  <2>1. \A x \in Nonces : ledger'[x].approved = IF x = n THEN ledger[x].approved + 1
                                                         ELSE ledger[x].approved
    BY <1>1, <1>2 DEF Count, TypeInv, TypeOK, Ledger
  <2>2. \A x \in Nonces : ledger[x].approved \in Nat
    BY DEF TypeInv, TypeOK, Ledger
  <2> QED
    BY <1>2, <2>1, <2>2 DEF charged
<1>7. Promise!Charge(n)
  BY <1>1, <1>5, <1>6 DEF Promise!Charge
<1> QED
  BY <1>2, <1>7 DEF Promise!Next

\* What follows the approval is outside the promise.
LEMMA PromiseAfter ==
  ASSUME TypeInv, NEW w \in Workers, PayCallBack(w) \/ PayCancel(w)
  PROVE  UNCHANGED Seen
<1>1. /\ call[w].pc \in {"payCallback", "payCancel"} /\ UNCHANGED <<used, memory>>
      /\ Goto(w, "payCancel") \/ Respond(w)
      /\ \/ UNCHANGED ledger
         \/ \E what \in {"confirmed", "cancelled"} : Count(call[w].nonce, what)
  BY DEF PayCallBack, PayCancel, At
<1>2. UNCHANGED charged
  <2>1. \A x \in Nonces : ledger'[x].approved = ledger[x].approved
    BY <1>1, CountOK DEF Count, TypeInv, TypeOK, Ledger
  <2> QED
    BY <2>1 DEF charged
<1>3. PICK c : Enter(w, c) /\ c.pc \notin Uncharged
  <2> DEFINE d == [call[w] EXCEPT !.pc = "payCancel"]
  <2>1. d.pc \notin Uncharged
    BY DEF TypeInv, TypeOK, Call, Uncharged
  <2> QED
    BY <1>1, <2>1, IdleTook DEF Goto, Respond, Enter
<1>4. call[w].pc \notin Uncharged
  BY <1>1 DEF Uncharged
<1> QED
  BY <1>1, <1>2, <1>3, <1>4, SeenAway

\* Within a payment a handler keeps what it took.
LEMMA PromiseOn ==
  ASSUME TypeInv, NEW w \in Workers, call[w].pc \in Uncharged, NEW c, Enter(w, c),
         c.pc \in Uncharged, c.nonce = call[w].nonce, c.slot = call[w].slot,
         UNCHANGED <<used, memory, ledger>>
  PROVE  UNCHANGED Seen
<1>1. \A x : Took(c, x) <=> Took(call[w], x)
  BY DEF Took
<1> QED
  BY <1>1, SeenMove, ChargedKept

LEMMA PromisePay ==
  ASSUME TypeInv, NonceInv, ChargeInv, DeliveredOnce, PayNext
  PROVE  [Promise!Next]_Seen
<1>1. ASSUME NEW w \in Workers, NEW m \in Members, NEW o \in Orders,
             NEW n \in Nonces, RequestPaymentPut(w, m, o, n)
      PROVE  [Promise!Next]_Seen
  BY <1>1, PromiseStart DEF Promise!Next
<1>2. ASSUME NEW w \in Workers, RequestPaymentEcho(w)
      PROVE  [Promise!Next]_Seen
  <2>1. /\ Enter(w, Idle) /\ call[w].pc \notin Uncharged /\ UNCHANGED <<used, memory, ledger>>
    BY <1>2 DEF RequestPaymentEcho, At, Respond, Enter, Uncharged
  <2> QED
    BY <2>1, IdleTook, SeenAway, ChargedKept
<1>3. ASSUME NEW w \in Workers, NEW n \in Nonces, NEW t \in Tokens,
             NEW k \in Keys, VerifyGet(w, n, t, k)
      PROVE  [Promise!Next]_Seen
  BY <1>3, PromiseTake
<1>4. ASSUME NEW w \in Workers, VerifyRemove(w)
      PROVE  [Promise!Next]_Seen
  BY <1>4, PromiseDrop
<1>5. ASSUME NEW w \in Workers, VerifyCard(w)
      PROVE  [Promise!Next]_Seen
  <2>1. call[w].pc = "payVerify" /\ UNCHANGED <<used, memory, ledger>>
    BY <1>5 DEF VerifyCard, At
  <2>2. CASE Respond(w)
    BY <2>1, <2>2, PromiseFail DEF Taken, Uncharged
  <2>3. CASE ~Respond(w)
    <3> DEFINE c == [call[w] EXCEPT !.pc = "payOrder", !.row = rows[call[w].token]]
    <3>1. Enter(w, c)
      BY <1>5, <2>3 DEF VerifyCard
    <3>2. c.pc = "payOrder" /\ c.slot = call[w].slot /\ c.nonce = call[w].nonce
      BY DEF TypeInv, TypeOK, Call
    <3> HIDE DEF c
    <3> QED
      BY <2>1, <3>1, <3>2, PromiseOn DEF Uncharged
  <2> QED
    BY <2>2, <2>3
<1>6. ASSUME NEW w \in Workers, GetUserPayInfo(w)
      PROVE  [Promise!Next]_Seen
  <2>1. call[w].pc = "payOrder" /\ UNCHANGED <<used, memory, ledger>>
    BY <1>6 DEF GetUserPayInfo, At
  <2>2. CASE Respond(w)
    BY <2>1, <2>2, PromiseFail DEF Taken, Charging, Uncharged
  <2>3. CASE Goto(w, "payKicc")
    <3> DEFINE c == [call[w] EXCEPT !.pc = "payKicc"]
    <3>1. Enter(w, c) /\ c.pc = "payKicc" /\ c.slot = call[w].slot /\ c.nonce = call[w].nonce
      BY <2>3 DEF Goto, Enter, TypeInv, TypeOK, Call
    <3> HIDE DEF c
    <3> QED
      BY <2>1, <3>1, PromiseOn DEF Uncharged
  <2> QED
    BY <1>6, <2>2, <2>3 DEF GetUserPayInfo
<1>7. ASSUME NEW w \in Workers, KiccDeclines(w)
      PROVE  [Promise!Next]_Seen
  BY <1>7, PromiseFail DEF KiccDeclines, At, Taken, Charging, Uncharged
<1> QED
  BY <1>1, <1>2, <1>3, <1>4, <1>5, <1>6, <1>7, PromiseCharge, PromiseAfter DEF PayNext

LEMMA PromiseRestart ==
  ASSUME TypeInv, Restart
  PROVE  Promise!Restart
<1>1. /\ UNCHANGED <<used, ledger>>
      /\ \A w \in Workers : call'[w] = Idle
      /\ \A m \in Members : memory'[m] = Nil
  BY DEF Restart
<1>2. \A n : ~Holding(n)'
  <2>1. \A n : ~\E w \in Workers : Took(call'[w], n)
    BY <1>1, IdleTook DEF Took
  <2> QED
    BY <2>1 DEF Holding, Took, Uncharged
<1>3. armed' = {}
  BY <1>2 DEF armed
<1>4. live' = [m \in Members |-> Nil]
  BY <1>1, LiveNext, LiveFunction DEF LiveFact
<1> QED
  BY <1>1, <1>3, <1>4, ChargedKept DEF Promise!Restart

LEMMA PromiseInit == Init => Promise!Init
<1> SUFFICES ASSUME Init PROVE Promise!Init
  OBVIOUS
<1>1. \A n : ~Holding(n)
  BY HoldingIs, IdleTook DEF Init, Took
<1>2. live = [m \in Members |-> Nil]
  BY LiveIs, LiveFunction DEF LiveFact, Init
<1>3. armed = {} /\ charged = {} /\ used = {}
  BY <1>1 DEF armed, charged, Init
<1> QED
  BY <1>2, <1>3 DEF Promise!Init

LEMMA PromiseStep ==
  TypeInv /\ NonceInv /\ ChargeInv /\ DeliveredOnce /\ [Next]_vars => [Promise!Next]_Seen
<1>1. TypeInv /\ UNCHANGED vars => UNCHANGED Seen
  BY SeenSame DEF vars
<1>2. TypeInv /\ Restart => Promise!Next
  BY PromiseRestart DEF Promise!Next
<1> QED
  BY <1>1, <1>2, PromiseCards, PromiseReset, PromisePay DEF Next

\* When every request of a second step is delivered once, the server implements
\* the promise about nonces: for any number of members and of concurrent
\* requests, with restarts and with calls that fail.
THEOREM PromiseSafe == ASSUME MaxDeliver = 1 PROVE Spec => KeepsPromise
<1> DEFINE All == TypeInv /\ NonceInv /\ ChargeInv /\ DeliveredOnce
<1>1. Init => All
  BY TypeInit, NonceInit, ChargeInit, DeliveredInit
<1>2. All /\ [Next]_vars => All'
  BY TypeStep, NonceStep, ChargeStep, DeliveredStep
<1>3. All /\ [Next]_vars => [Promise!Next]_Seen
  BY PromiseStep
<1> HIDE DEF All
<1>4. Spec => Promise!Init /\ [][Promise!Next]_Seen
  BY <1>1, <1>2, <1>3, PromiseInit, PTL DEF Spec
<1> QED
  BY <1>4 DEF KeepsPromise, Promise!Spec, Promise!promiseVars, Seen

=============================================================================
