-------------------------- MODULE SimplePayProofs --------------------------
(***************************************************************************)
(* Type correctness of SimplePay, then its cards and its nonces.  A billing  *)
(* key that KICC issued is never lost, and no payment gets past               *)
(* verifySecureKey with anything else.  A nonce that a payment removed from   *)
(* the memory is never there again, and the keys that a confirmed reset       *)
(* writes are the member's own.                                               *)
(***************************************************************************)
EXTENDS SimplePayInvariants, TLAPS

(***************************************************************************)
(* Types, with the control invariant they rest on.                         *)
(***************************************************************************)

\* An idle worker has no locals, so it has all that its control needs.
LEMMA IdleOK == Idle \in Call /\ HasLocals(Idle)
BY DEF Idle, Call, Steps, HasLocals, Resetting, Paying, Taken, Charging

\* The initial state is well typed and every worker is idle.
LEMMA TypeInit == Init => TypeInv
<1> SUFFICES ASSUME Init PROVE TypeInv
  OBVIOUS
<1>1. TypeOK
  BY IdleOK, NilAssumption, SimplePayAssumption
     DEF Init, TypeOK, Table, Ledger
<1>2. ControlOK
  BY IdleOK DEF Init, ControlOK
<1> QED
  BY <1>1, <1>2 DEF TypeInv

\* A worker that gets well-formed locals leaves the workers well formed.
LEMMA EnterOK ==
  ASSUME TypeInv, NEW w \in Workers, NEW c \in Call, HasLocals(c), Enter(w, c)
  PROVE  call' \in [Workers -> Call] /\ ControlOK'
BY DEF Enter, TypeInv, TypeOK, ControlOK

\* A worker that answers becomes idle.
LEMMA RespondOK ==
  ASSUME TypeInv, NEW w \in Workers, Respond(w)
  PROVE  call' \in [Workers -> Call] /\ ControlOK'
BY IdleOK, EnterOK DEF Respond, Enter

\* A worker that moves on keeps its locals.
LEMMA GotoOK ==
  ASSUME TypeInv, NEW w \in Workers, NEW pc \in Steps, Goto(w, pc),
         HasLocals([call[w] EXCEPT !.pc = pc])
  PROVE  call' \in [Workers -> Call] /\ ControlOK'
<1> DEFINE c == [call[w] EXCEPT !.pc = pc]
<1>1. c \in Call
  BY DEF TypeInv, TypeOK, Call
<1>2. Enter(w, c)
  BY DEF Goto, Enter, TypeInv, TypeOK
<1> QED
  BY <1>1, <1>2, EnterOK

-----------------------------------------------------------------------------
(* The card handlers. *)

\* A handler that reads a row and changes its copy within the type.
LEMMA TypeRead ==
  ASSUME TypeInv, NEW w \in Workers, NEW row \in Row,
         Enter(w, [Idle EXCEPT !.pc = "update", !.row = row]),
         UNCHANGED <<rows, history, memory, used, ticket, ledger,
                     consumed, vouched, crashes>>
  PROVE  TypeInv'
<1> DEFINE c == [Idle EXCEPT !.pc = "update", !.row = row]
<1>1. c \in Call /\ HasLocals(c)
  BY IdleOK, NilAssumption
     DEF Idle, Call, Steps, HasLocals, Resetting, Paying, Taken, Charging
<1> HIDE DEF c
<1>2. call' \in [Workers -> Call] /\ ControlOK'
  BY <1>1, EnterOK DEF c
<1> QED
  BY <1>2 DEF TypeInv, TypeOK

LEMMA TypeCards == TypeInv /\ CardNext => TypeInv'
<1> SUFFICES ASSUME TypeInv, CardNext PROVE TypeInv'
  OBVIOUS
<1>1. ASSUME NEW w \in Workers, NEW t \in Tokens, NEW m \in Members,
             NEW k \in Keys, NEW nick \in Nicks,
             RegistCardInsert(w, t, m, k, nick)
      PROVE  TypeInv'
  <2>1. rows' \in Table
    BY <1>1 DEF RegistCardInsert, TypeInv, TypeOK, Table, addCardInfo, Row,
                Bills, Flags
  <2>2. vouched' \in [Members -> SUBSET Keys]
    BY <1>1 DEF RegistCardInsert, TypeInv, TypeOK
  <2> QED
    BY <1>1, <2>1, <2>2 DEF RegistCardInsert, TypeInv, TypeOK, ControlOK
<1>3. ASSUME NEW w \in Workers, NEW t \in Tokens, RegistCardRead(w, t)
      PROVE  TypeInv'
  <2> DEFINE row == [rows[t] EXCEPT !.bill = "issued", !.flag = "Y"]
  <2>r. rows[t] \in Row
    BY <1>3 DEF RegistCardRead, ReadForUpdate, Stored, TypeInv, TypeOK, Table
  <2>1. row \in Row
    BY <2>r DEF Row, Bills, Flags
  <2> QED
    BY <1>3, <2>1, TypeRead DEF RegistCardRead, ReadForUpdate
<1>4. ASSUME NEW w \in Workers, NEW t \in Tokens, NEW m \in Members,
             DeleteCardRead(w, m, t)
      PROVE  TypeInv'
  <2> DEFINE row == [rows[t] EXCEPT !.flag = "D"]
  <2>1. row \in Row
    BY <1>4 DEF DeleteCardRead, ReadForUpdate, Stored, TypeInv, TypeOK, Table, Row,
                Flags
  <2> QED
    BY <1>4, <2>1, TypeRead DEF DeleteCardRead, ReadForUpdate
<1>5. ASSUME NEW w \in Workers, NEW t \in Tokens, NEW m \in Members,
             NEW nick \in Nicks, ChangeCardNickRead(w, m, t, nick)
      PROVE  TypeInv'
  <2> DEFINE row == [rows[t] EXCEPT !.nick = nick]
  <2>1. row \in Row
    BY <1>5 DEF ChangeCardNickRead, ReadForUpdate, Stored, TypeInv, TypeOK, Table,
                Row
  <2> QED
    BY <1>5, <2>1, TypeRead DEF ChangeCardNickRead, ReadForUpdate
<1>6. ASSUME NEW w \in Workers, UpdateCard(w)
      PROVE  TypeInv'
  <2>1. call[w].row \in Row
    BY <1>6 DEF UpdateCard, At, TypeInv, TypeOK, ControlOK, HasLocals, Call
  <2>2. rows' \in Table
    BY <1>6, <2>1
       DEF UpdateCard, updateCardInfo, TypeInv, TypeOK, Table, Row
  <2>3. call' \in [Workers -> Call] /\ ControlOK'
    BY <1>6, RespondOK DEF UpdateCard
  <2> QED
    BY <1>6, <2>2, <2>3 DEF UpdateCard, TypeInv, TypeOK
<1> QED
  BY <1>1, <1>3, <1>4, <1>5, <1>6 DEF CardNext

-----------------------------------------------------------------------------
(* The password reset. *)

\* The new locals of a reset: an entry of type ResetType and its member.
LEMMA ResetLocals ==
  ASSUME NEW m \in Members, NEW s \in Slot, s.type = ResetType,
         NEW pc \in Resetting, NEW c,
         c = [Idle EXCEPT !.pc = pc, !.member = m, !.slot = s]
  PROVE  c \in Call /\ HasLocals(c)
BY NilAssumption, SimplePayAssumption
   DEF Idle, Call, Steps, HasLocals, Resetting, Paying, Taken, Charging

\* A first step's entry becomes a ticket of the same type.
LEMMA IssueOK ==
  ASSUME TypeInv, NEW s \in Slot, NEW m \in Members, Issue(s, m)
  PROVE  ticket' \in [Nonces -> Ticket \cup {Nil}]
<1> DEFINE tk == [type |-> s.type, member |-> m, data |-> s.data,
                  left |-> MaxDeliver]
<1>1. tk \in Ticket
  BY SimplePayAssumption DEF Slot, Ticket
<1>2. s.nonce \in Nonces
  BY DEF Slot
<1> QED
  BY <1>1, <1>2 DEF Issue, TypeInv, TypeOK

\* A delivery uses up one of those that the ticket has left.
LEMMA DeliverOK ==
  ASSUME TypeInv, NEW n \in Nonces, NEW type, CanDeliver(n, type), Deliver(n)
  PROVE  ticket' \in [Nonces -> Ticket \cup {Nil}]
<1>1. ticket[n] \in Ticket /\ ticket[n].left > 0
  BY DEF CanDeliver, TypeInv, TypeOK
<1>2. [ticket[n] EXCEPT !.left = @ - 1] \in Ticket
  BY <1>1, SimplePayAssumption DEF Ticket
<1> QED
  BY <1>2 DEF Deliver, TypeInv, TypeOK

LEMMA TypeReset == TypeInv /\ ResetNext => TypeInv'
<1> SUFFICES ASSUME TypeInv, ResetNext PROVE TypeInv'
  OBVIOUS
<1>1. ASSUME NEW w \in Workers, NEW m \in Members, NEW k \in Keys,
             NEW n \in Nonces, InitializePasswordList(w, m, k, n)
      PROVE  TypeInv'
  <2> DEFINE s == [type |-> ResetType, nonce |-> n, data |-> k]
             c == [Idle EXCEPT !.pc = "resetPut", !.member = m, !.slot = s]
  <2>1. c \in Call /\ HasLocals(c)
    BY ResetLocals DEF Slot, Resetting
  <2>2. call' \in [Workers -> Call] /\ ControlOK'
    BY <1>1, <2>1, EnterOK DEF InitializePasswordList
  <2> QED
    BY <1>1, <2>2 DEF InitializePasswordList, FreshNonce, TypeInv, TypeOK
<1>2. ASSUME NEW w \in Workers, InitializePasswordPut(w)
      PROVE  TypeInv'
  <2>1. call[w].slot \in Slot /\ call[w].member \in Members
    BY <1>2 DEF InitializePasswordPut, At, TypeInv, TypeOK, ControlOK,
                HasLocals, Call, Resetting
  <2>2. call' \in [Workers -> Call] /\ ControlOK'
    BY <1>2, RespondOK DEF InitializePasswordPut
  <2>3. ticket' \in [Nonces -> Ticket \cup {Nil}]
    BY <1>2, <2>1, IssueOK DEF InitializePasswordPut
  <2> QED
    BY <1>2, <2>1, <2>2, <2>3
       DEF InitializePasswordPut, put, TypeInv, TypeOK
<1>3. ASSUME NEW w \in Workers, NEW n \in Nonces, InitializePasswordGet(w, n)
      PROVE  TypeInv'
  <2> DEFINE m == ticket[n].member
             c == [Idle EXCEPT !.pc = "resetUpdate", !.member = m,
                               !.slot = get(m)]
  <2>1. m \in Members /\ ticket[n].data \in Keys
    BY <1>3 DEF InitializePasswordGet, CanDeliver, TypeInv, TypeOK, Ticket,
                PayType, ResetType
  <2>2. call' \in [Workers -> Call] /\ ControlOK'
    <3>1. CASE Confirms(get(m), n)
      <4>1. get(m) \in Slot /\ get(m).type = ResetType
        BY <2>1, <3>1 DEF Confirms, get, TypeInv, TypeOK
      <4>2. c \in Call /\ HasLocals(c)
        BY <2>1, <4>1, ResetLocals DEF Resetting
      <4> QED
        BY <1>3, <3>1, <4>2, EnterOK DEF InitializePasswordGet
    <3>2. CASE ~Confirms(get(m), n)
      BY <1>3, <3>2 DEF InitializePasswordGet, TypeInv, TypeOK, ControlOK
    <3> QED
      BY <3>1, <3>2
  <2>3. ticket' \in [Nonces -> Ticket \cup {Nil}]
    BY <1>3, DeliverOK DEF InitializePasswordGet
  <2>4. vouched' \in [Members -> SUBSET Keys]
    BY <1>3, <2>1 DEF InitializePasswordGet, TypeInv, TypeOK
  <2> QED
    BY <1>3, <2>2, <2>3, <2>4 DEF InitializePasswordGet, TypeInv, TypeOK
<1>4. ASSUME NEW w \in Workers, InitializePasswordUpdate(w)
      PROVE  TypeInv'
  <2>1. call[w].slot.data \in Keys
    BY <1>4 DEF InitializePasswordUpdate, At, TypeInv, TypeOK, ControlOK,
                HasLocals, Call, Resetting, Slot, PayType, ResetType
  <2>2. rows' \in Table
    BY <1>4, <2>1 DEF InitializePasswordUpdate, changePwdSimplePay, TypeInv,
                      TypeOK, Table, Row
  <2>3. HasLocals([call[w] EXCEPT !.pc = "resetHistory"])
    BY <1>4 DEF InitializePasswordUpdate, At, TypeInv, TypeOK, ControlOK,
                HasLocals, Call, Resetting, Paying, Taken, Charging
  <2>4. call' \in [Workers -> Call] /\ ControlOK'
    BY <1>4, <2>3, GotoOK DEF InitializePasswordUpdate, Steps
  <2> QED
    BY <1>4, <2>2, <2>4 DEF InitializePasswordUpdate, TypeInv, TypeOK
<1>5. ASSUME NEW w \in Workers, InitializePasswordHistory(w)
      PROVE  TypeInv'
  <2>1. call' \in [Workers -> Call] /\ ControlOK'
    BY <1>5, RespondOK DEF InitializePasswordHistory
  <2>2. history' \in [Members -> Nat]
    BY <1>5 DEF InitializePasswordHistory, TypeInv, TypeOK
  <2> QED
    BY <1>5, <2>1, <2>2 DEF InitializePasswordHistory, TypeInv, TypeOK
<1> QED
  BY <1>1, <1>2, <1>3, <1>4, <1>5 DEF ResetNext

-----------------------------------------------------------------------------
(* The payment. *)

\* The locals of a payment's second step, by how far it came.
LEMMA PayLocals ==
  ASSUME TypeInv, NEW w \in Workers, call[w].pc \in Paying
  PROVE  /\ call[w].member \in Members
         /\ call[w].token \in Tokens
         /\ call[w].nonce \in Nonces
         /\ call[w].pc \in Taken => call[w].slot \in Slot
         /\ call[w].pc \in Charging => call[w].row \in Row
BY DEF TypeInv, TypeOK, ControlOK, HasLocals, Call, Paying, Taken, Charging

\* Within a payment a handler can only move on to a step whose locals it has.
LEMMA PayGoto ==
  ASSUME TypeInv, NEW w \in Workers, NEW pc, Goto(w, pc),
         \/ /\ call[w].pc = "payRemove"
            /\ call[w].slot # Nil
            /\ pc = "payVerify"
         \/ call[w].pc \in Charging /\ pc \in Charging
  PROVE  call' \in [Workers -> Call] /\ ControlOK'
<1>1. call[w] \in Call /\ HasLocals(call[w])
  BY DEF TypeInv, TypeOK, ControlOK
<1>2. pc \in Steps
  BY DEF Charging, Steps
<1>3. HasLocals([call[w] EXCEPT !.pc = pc])
  BY <1>1 DEF HasLocals, Call, Resetting, Paying, Taken, Charging
<1> QED
  BY <1>2, <1>3, GotoOK

\* What KICC and the B2C server were asked is counted in naturals.
LEMMA CountOK ==
  ASSUME TypeInv, NEW n \in Nonces,
         NEW what \in {"approved", "confirmed", "cancelled"}, Count(n, what)
  PROVE  ledger' \in [Nonces -> Ledger]
<1>1. ledger[n] \in Ledger
  BY DEF TypeInv, TypeOK
<1>2. [ledger[n] EXCEPT ![what] = @ + 1] \in Ledger
  BY <1>1 DEF Ledger
<1> QED
  BY <1>2 DEF Count, TypeInv, TypeOK

LEMMA TypePay == TypeInv /\ PayNext => TypeInv'
<1> SUFFICES ASSUME TypeInv, PayNext PROVE TypeInv'
  OBVIOUS
<1>1. ASSUME NEW w \in Workers, NEW m \in Members, NEW o \in Orders,
             NEW n \in Nonces, RequestPaymentPut(w, m, o, n)
      PROVE  TypeInv'
  <2> DEFINE s == [type |-> PayType, nonce |-> n, data |-> o]
             c == [Idle EXCEPT !.pc = "payEcho", !.member = m, !.slot = s]
  <2>1. s \in Slot
    BY DEF Slot
  <2>2. c \in Call /\ HasLocals(c)
    BY <2>1, NilAssumption, SimplePayAssumption
       DEF Idle, Call, Steps, HasLocals, Resetting, Paying, Taken, Charging
  <2>3. call' \in [Workers -> Call] /\ ControlOK'
    BY <1>1, <2>2, EnterOK DEF RequestPaymentPut
  <2>4. memory' \in [Members -> Slot \cup {Nil}]
    BY <1>1, <2>1 DEF RequestPaymentPut, put, TypeInv, TypeOK
  <2> QED
    BY <1>1, <2>3, <2>4 DEF RequestPaymentPut, FreshNonce, TypeInv, TypeOK
<1>2. ASSUME NEW w \in Workers, RequestPaymentEcho(w)
      PROVE  TypeInv'
  <2>1. call[w].slot \in Slot /\ call[w].member \in Members
    BY <1>2 DEF RequestPaymentEcho, At, TypeInv, TypeOK, ControlOK,
                HasLocals, Call
  <2>2. call' \in [Workers -> Call] /\ ControlOK'
    BY <1>2, RespondOK DEF RequestPaymentEcho
  <2>3. ticket' \in [Nonces -> Ticket \cup {Nil}]
    BY <1>2, <2>1, IssueOK DEF RequestPaymentEcho, TypeInv, TypeOK
  <2> QED
    BY <1>2, <2>2, <2>3 DEF RequestPaymentEcho, TypeInv, TypeOK
<1>3. ASSUME NEW w \in Workers, NEW n \in Nonces, NEW t \in Tokens,
             NEW k \in Keys, VerifyGet(w, n, t, k)
      PROVE  TypeInv'
  <2> DEFINE m == ticket[n].member
             c == [Idle EXCEPT !.pc = "payRemove", !.member = m,
                     !.slot = get(m), !.token = t, !.key = k, !.nonce = n]
  <2>1. m \in Members
    BY <1>3 DEF VerifyGet, CanDeliver, TypeInv, TypeOK, Ticket
  <2>2. get(m) \in Slot \cup {Nil}
    BY <2>1 DEF get, TypeInv, TypeOK
  <2>3. c \in Call /\ HasLocals(c)
    BY <2>1, <2>2, NilAssumption, SimplePayAssumption
       DEF Idle, Call, Steps, HasLocals, Resetting, Paying, Taken, Charging
  <2>4. call' \in [Workers -> Call] /\ ControlOK'
    BY <1>3, <2>3, EnterOK DEF VerifyGet
  <2>5. ticket' \in [Nonces -> Ticket \cup {Nil}]
    BY <1>3, DeliverOK DEF VerifyGet
  <2> QED
    BY <1>3, <2>4, <2>5 DEF VerifyGet, TypeInv, TypeOK
<1>4. ASSUME NEW w \in Workers, VerifyRemove(w)
      PROVE  TypeInv'
  <2>1. call[w].pc \in Paying /\ call[w] \in Call
    BY <1>4 DEF VerifyRemove, At, Paying, TypeInv, TypeOK
  <2>2. memory' \in [Members -> Slot \cup {Nil}]
    BY <1>4 DEF VerifyRemove, remove, TypeInv, TypeOK
  <2>3. /\ call' \in [Workers -> Call] /\ ControlOK'
        /\ consumed' \subseteq Nonces
    <3>1. CASE call[w].slot = Nil
      BY <1>4, <3>1, RespondOK DEF VerifyRemove, TypeInv, TypeOK
    <3>2. CASE call[w].slot # Nil
      <4>1. call[w].slot.nonce \in Nonces
        BY <2>1, <3>2 DEF Call, Slot
      <4> QED
        BY <1>4, <3>2, <4>1, PayGoto DEF VerifyRemove, At, TypeInv, TypeOK
    <3> QED
      BY <3>1, <3>2
  <2> QED
    BY <1>4, <2>2, <2>3 DEF VerifyRemove, TypeInv, TypeOK
<1>5. ASSUME NEW w \in Workers, VerifyCard(w)
      PROVE  TypeInv'
  <2> DEFINE r == rows[call[w].token]
             c == [call[w] EXCEPT !.pc = "payOrder", !.row = r]
  <2>1. call[w] \in Call /\ HasLocals(call[w]) /\ call[w].pc = "payVerify"
    BY <1>5 DEF VerifyCard, At, TypeInv, TypeOK, ControlOK
  <2>2. CASE r # Nil /\ SecureKeyMatches(call[w], r)
    <3>1. r \in Row
      BY <2>1, <2>2, PayLocals DEF Paying, Taken, TypeInv, TypeOK, Table
    <3>2. c \in Call
      BY <2>1, <3>1 DEF Call, Steps
    <3>3. HasLocals(c)
      BY <2>1, <3>1, NilAssumption
         DEF HasLocals, Call, Resetting, Paying, Taken, Charging
    <3> QED
      BY <1>5, <2>2, <3>2, <3>3, EnterOK DEF VerifyCard, TypeInv, TypeOK
  <2>3. CASE ~(r # Nil /\ SecureKeyMatches(call[w], r))
    BY <1>5, <2>3, RespondOK DEF VerifyCard, TypeInv, TypeOK
  <2> QED
    BY <2>2, <2>3
<1>6. ASSUME NEW w \in Workers,
             GetUserPayInfo(w) \/ KiccApproves(w) \/ KiccDeclines(w)
                \/ PayCallBack(w) \/ PayCancel(w)
      PROVE  TypeInv'
  <2>1. call[w].pc \in Charging
    BY <1>6 DEF GetUserPayInfo, KiccApproves, KiccDeclines, PayCallBack,
                PayCancel, At, Charging
  <2>2. call[w].nonce \in Nonces
    BY <2>1, PayLocals DEF Paying, Taken
  <2>3. ledger' \in [Nonces -> Ledger]
    BY <1>6, <2>2, CountOK
       DEF GetUserPayInfo, KiccApproves, KiccDeclines, PayCallBack,
           PayCancel, TypeInv, TypeOK
  <2>4. Respond(w) \/ Goto(w, "payKicc") \/ Goto(w, "payCallback")
          \/ Goto(w, "payCancel")
    BY <1>6 DEF GetUserPayInfo, KiccApproves, KiccDeclines, PayCallBack,
                PayCancel
  <2>5. call' \in [Workers -> Call] /\ ControlOK'
    BY <2>1, <2>4, RespondOK, PayGoto DEF Charging
  <2> QED
    BY <1>6, <2>3, <2>5
       DEF GetUserPayInfo, KiccApproves, KiccDeclines, PayCallBack,
           PayCancel, TypeInv, TypeOK
<1> QED
  BY <1>1, <1>2, <1>3, <1>4, <1>5, <1>6 DEF PayNext

-----------------------------------------------------------------------------
(* All steps. *)

LEMMA TypeRestart == TypeInv /\ Restart => TypeInv'
BY IdleOK, SimplePayAssumption DEF Restart, TypeInv, TypeOK, ControlOK

LEMMA TypeStep == TypeInv /\ [Next]_vars => TypeInv'
<1>1. TypeInv /\ UNCHANGED vars => TypeInv'
  BY DEF vars, TypeInv, TypeOK, ControlOK
<1> QED
  BY <1>1, TypeCards, TypeReset, TypePay, TypeRestart DEF Next

\* Every variable keeps its type and every handler finds the locals that its
\* next step reads, for any number of threads, members, cards and nonces.
THEOREM TypeCorrect == Spec => []TypeInv
BY TypeInit, TypeStep, PTL DEF Spec

\* In particular the type invariant that the runs check.
THEOREM TypeSafe == Spec => []TypeOK
<1>1. TypeInv => TypeOK
  BY DEF TypeInv
<1> QED
  BY <1>1, TypeCorrect, PTL

-----------------------------------------------------------------------------
(***************************************************************************)
(* Cards: the flag and the billing key of a row fit together, and what all *)
(* copies agree on stays.                                                  *)
(***************************************************************************)

LEMMA CardInit == Init => CardInv
BY DEF Init, CardInv, RowsBillable, CopyBillable, Idle, Charging

-----------------------------------------------------------------------------
(* What a step does to the table. *)

\* Row t after the step is what it was but for its key, or is new, or is the
\* copy that a handler was about to write.
RowsFrom ==
    \A t \in Tokens :
        \/ rows'[t] = rows[t]
        \/ /\ rows[t] # Nil /\ rows'[t] # Nil
           /\ rows'[t].token = rows[t].token
           /\ rows'[t].bill = rows[t].bill /\ rows'[t].flag = rows[t].flag
        \/ rows[t] = Nil /\ rows'[t].token = t /\ rows'[t].flag = "N"
        \/ rows'[t] \in Copies(t) /\ rows'[t].token = t

LEMMA RowsCards == TypeInv /\ CardNext => RowsFrom
<1> SUFFICES ASSUME TypeInv, CardNext PROVE RowsFrom
  OBVIOUS
<1>1. ASSUME NEW w \in Workers, NEW t \in Tokens, NEW m \in Members,
             NEW k \in Keys, NEW nick \in Nicks,
             RegistCardInsert(w, t, m, k, nick)
      PROVE  RowsFrom
  BY <1>1 DEF RegistCardInsert, addCardInfo, TypeInv, TypeOK, Table, RowsFrom
<1>2. ASSUME NEW w \in Workers, UpdateCard(w)
      PROVE  RowsFrom
  <2>1. CASE UNCHANGED rows
    BY <2>1 DEF RowsFrom
  <2>2. CASE rows' = updateCardInfo(rows, call[w].row)
    <3> DEFINE copy == call[w].row
    <3>1. copy \in Row /\ At(w, "update")
      BY <1>2 DEF UpdateCard, At, TypeInv, TypeOK, ControlOK, HasLocals, Call
    <3>2. copy.token \in Tokens /\ copy \in Copies(copy.token)
      BY <3>1 DEF Row, Copies
    <3>3. rows' = [rows EXCEPT ![copy.token] = copy]
      BY <2>2 DEF updateCardInfo
    <3> HIDE DEF copy
    <3> QED
      BY <3>2, <3>3 DEF TypeInv, TypeOK, Table, RowsFrom
  <2> QED
    BY <1>2, <2>1, <2>2 DEF UpdateCard
<1>3. ASSUME UNCHANGED rows
      PROVE  RowsFrom
  BY <1>3 DEF RowsFrom
<1> QED
  BY <1>1, <1>2, <1>3
     DEF CardNext, RegistCardRead, DeleteCardRead, ChangeCardNickRead,
         ReadForUpdate

LEMMA RowsReset == TypeInv /\ ResetNext => RowsFrom
<1> SUFFICES ASSUME TypeInv, ResetNext PROVE RowsFrom
  OBVIOUS
<1>1. ASSUME NEW w \in Workers, InitializePasswordUpdate(w),
             rows' = changePwdSimplePay(rows, call[w].member,
                                        call[w].slot.data)
      PROVE  RowsFrom
  <2>1. call[w].slot.data \in Keys
    BY <1>1 DEF InitializePasswordUpdate, At, TypeInv, TypeOK, ControlOK,
                HasLocals, Call, Resetting, Slot, PayType, ResetType
  <2>2. ASSUME NEW t \in Tokens, rows'[t] # rows[t]
        PROVE  /\ rows[t] # Nil /\ rows'[t] # Nil
               /\ rows'[t].token = rows[t].token
               /\ rows'[t].bill = rows[t].bill
               /\ rows'[t].flag = rows[t].flag
    <3>1. /\ rows[t] # Nil
          /\ rows'[t] = [rows[t] EXCEPT !.key = call[w].slot.data]
      BY <1>1, <2>2 DEF changePwdSimplePay
    <3>2. rows[t] \in Row
      BY <3>1 DEF TypeInv, TypeOK, Table
    <3>3. rows'[t] \in Row
      BY <2>1, <3>1, <3>2 DEF Row
    <3> QED
      BY <3>1, <3>2, <3>3, NilAssumption DEF Row
  <2> QED
    BY <2>2 DEF RowsFrom
<1>2. ASSUME UNCHANGED rows
      PROVE  RowsFrom
  BY <1>2 DEF RowsFrom
<1> QED
  BY <1>1, <1>2
     DEF ResetNext, InitializePasswordList, InitializePasswordPut,
         InitializePasswordGet, InitializePasswordUpdate,
         InitializePasswordHistory

LEMMA RowsStep == TypeInv /\ [Next]_vars => RowsFrom
<1> SUFFICES ASSUME TypeInv, [Next]_vars PROVE RowsFrom
  OBVIOUS
<1>1. CASE PayNext \/ Restart \/ UNCHANGED vars
  <2>1. UNCHANGED rows
    BY <1>1 DEF PayNext, Restart, vars, RequestPaymentPut,
       RequestPaymentEcho, VerifyGet, VerifyRemove, VerifyCard,
       GetUserPayInfo, KiccApproves, KiccDeclines, PayCallBack, PayCancel
  <2> QED
    BY <2>1 DEF RowsFrom
<1> QED
  BY <1>1, RowsCards, RowsReset DEF Next

-----------------------------------------------------------------------------
(* What a step does to the copies that handlers carry. *)

\* Every copy after the step is one from before it, or was read just now, or
\* was read by a handler that bound or deleted it.
CopyFrom(w) ==
    \/ call'[w].pc \notin {"update"} \cup Charging
    \/ /\ call'[w].row = call[w].row
       /\ call'[w].pc = "update" <=> call[w].pc = "update"
       /\ call'[w].pc \in Charging => call[w].pc \in Charging
    \/ \E t \in Tokens :
          /\ rows[t] # Nil
          /\ call'[w].row.token = rows[t].token
          /\ \/ /\ call'[w].row.bill = rows[t].bill
                /\ call'[w].row.flag = rows[t].flag
             \/ /\ call'[w].row.bill = rows[t].bill
                /\ call'[w].row.flag = "D"
             \/ /\ rows[t].flag = "N"
                /\ call'[w].row.bill = "issued" /\ call'[w].row.flag = "Y"

CopiesFrom == \A w \in Workers : CopyFrom(w)

LEMMA CopyStays ==
  ASSUME NEW w \in Workers, call'[w] = call[w]
  PROVE  CopyFrom(w)
BY DEF CopyFrom

\* A step of one worker with a copy that comes from somewhere.
LEMMA CopiesMoves ==
  ASSUME TypeInv, NEW w \in Workers, NEW c, Enter(w, c),
         call'[w] = c => CopyFrom(w)
  PROVE  CopiesFrom
<1>1. call'[w] = c
  BY DEF Enter, TypeInv, TypeOK
<1>2. \A v \in Workers \ {w} : CopyFrom(v)
  BY CopyStays DEF Enter, TypeInv, TypeOK
<1> QED
  BY <1>1, <1>2 DEF CopiesFrom

\* A step that leaves a worker without a copy.
LEMMA CopiesGone ==
  ASSUME TypeInv, NEW w \in Workers, NEW c, Enter(w, c),
         c.pc \notin {"update"} \cup Charging
  PROVE  CopiesFrom
BY CopiesMoves DEF CopyFrom

LEMMA CopiesRespond ==
  ASSUME TypeInv, NEW w \in Workers, Respond(w)
  PROVE  CopiesFrom
<1>1. Idle.pc \notin {"update"} \cup Charging
  BY DEF Idle, Charging
<1> QED
  BY <1>1, CopiesGone DEF Respond, Enter

LEMMA CopiesSteady == ASSUME UNCHANGED call PROVE CopiesFrom
BY CopyStays DEF CopiesFrom

\* A handler goes to a step with a row only with the row that it has.
LEMMA CopiesGoto ==
  ASSUME TypeInv, NEW w \in Workers, NEW pc, Goto(w, pc),
         pc \in Charging => call[w].pc \in Charging, pc # "update"
  PROVE  CopiesFrom
<1> DEFINE c == [call[w] EXCEPT !.pc = pc]
<1>1. Enter(w, c)
  BY DEF Goto, Enter
<1>2. c.pc = pc /\ c.row = call[w].row
  BY DEF TypeInv, TypeOK, Call
<1>3. "update" \notin Charging
  BY DEF Charging
<1> HIDE DEF c
<1>4. call'[w] = c => CopyFrom(w)
  BY <1>2, <1>3 DEF CopyFrom
<1> QED
  BY <1>1, <1>4, CopiesMoves

LEMMA CopiesCards == TypeInv /\ CardNext => CopiesFrom
<1> SUFFICES ASSUME TypeInv, CardNext PROVE CopiesFrom
  OBVIOUS
<1>1. ASSUME NEW w \in Workers, NEW t \in Tokens, RegistCardRead(w, t)
      PROVE  CopiesFrom
  <2> DEFINE row == [rows[t] EXCEPT !.bill = "issued", !.flag = "Y"]
             c == [Idle EXCEPT !.pc = "update", !.row = row]
  <2>1. rows[t] \in Row /\ rows[t] # Nil /\ rows[t].flag = "N"
    BY <1>1 DEF RegistCardRead, Stored, TypeInv, TypeOK, Table
  <2>2. row.token = rows[t].token /\ row.bill = "issued" /\ row.flag = "Y"
    BY <2>1 DEF Row
  <2>3. Enter(w, c) /\ c.row = row
    BY <1>1 DEF RegistCardRead, ReadForUpdate, Idle
  <2> HIDE DEF c, row
  <2>4. call'[w] = c => CopyFrom(w)
    BY <2>1, <2>2, <2>3 DEF CopyFrom
  <2> QED
    BY <2>3, <2>4, CopiesMoves
<1>2. ASSUME NEW w \in Workers, NEW t \in Tokens, NEW m \in Members,
             DeleteCardRead(w, m, t)
      PROVE  CopiesFrom
  <2> DEFINE row == [rows[t] EXCEPT !.flag = "D"]
             c == [Idle EXCEPT !.pc = "update", !.row = row]
  <2>1. rows[t] \in Row /\ rows[t] # Nil
    BY <1>2 DEF DeleteCardRead, Stored, TypeInv, TypeOK, Table
  <2>2. row.token = rows[t].token /\ row.bill = rows[t].bill /\ row.flag = "D"
    BY <2>1 DEF Row
  <2>3. Enter(w, c) /\ c.row = row
    BY <1>2 DEF DeleteCardRead, ReadForUpdate, Idle
  <2> HIDE DEF c, row
  <2>4. call'[w] = c => CopyFrom(w)
    BY <2>1, <2>2, <2>3 DEF CopyFrom
  <2> QED
    BY <2>3, <2>4, CopiesMoves
<1>3. ASSUME NEW w \in Workers, NEW t \in Tokens, NEW m \in Members,
             NEW nick \in Nicks, ChangeCardNickRead(w, m, t, nick)
      PROVE  CopiesFrom
  <2> DEFINE row == [rows[t] EXCEPT !.nick = nick]
             c == [Idle EXCEPT !.pc = "update", !.row = row]
  <2>1. rows[t] \in Row /\ rows[t] # Nil
    BY <1>3 DEF ChangeCardNickRead, Stored, TypeInv, TypeOK, Table
  <2>2. /\ row.token = rows[t].token
        /\ row.bill = rows[t].bill /\ row.flag = rows[t].flag
    BY <2>1 DEF Row
  <2>3. Enter(w, c) /\ c.row = row
    BY <1>3 DEF ChangeCardNickRead, ReadForUpdate, Idle
  <2> HIDE DEF c, row
  <2>4. call'[w] = c => CopyFrom(w)
    BY <2>1, <2>2, <2>3 DEF CopyFrom
  <2> QED
    BY <2>3, <2>4, CopiesMoves
<1> QED
  BY <1>1, <1>2, <1>3, CopiesRespond, CopiesSteady
     DEF CardNext, RegistCardInsert, UpdateCard

LEMMA CopiesReset == TypeInv /\ ResetNext => CopiesFrom
<1> SUFFICES ASSUME TypeInv, ResetNext PROVE CopiesFrom
  OBVIOUS
<1>0. Resetting \cap ({"update"} \cup Charging) = {}
  BY DEF Resetting, Charging
<1>1. ASSUME NEW w \in Workers, NEW m \in Members, NEW k \in Keys,
             NEW n \in Nonces, InitializePasswordList(w, m, k, n)
      PROVE  CopiesFrom
  BY <1>0, <1>1, CopiesGone DEF InitializePasswordList, Idle, Resetting
<1>2. ASSUME NEW w \in Workers, NEW n \in Nonces, InitializePasswordGet(w, n)
      PROVE  CopiesFrom
  BY <1>0, <1>2, CopiesGone, CopiesSteady
     DEF InitializePasswordGet, Idle, Resetting
<1>3. ASSUME NEW w \in Workers, InitializePasswordUpdate(w)
      PROVE  CopiesFrom
  BY <1>0, <1>3, CopiesGoto DEF InitializePasswordUpdate, Resetting
<1> QED
  BY <1>1, <1>2, <1>3, CopiesRespond
     DEF ResetNext, InitializePasswordPut, InitializePasswordHistory

LEMMA CopiesPay == TypeInv /\ PayNext => CopiesFrom
<1> SUFFICES ASSUME TypeInv, PayNext PROVE CopiesFrom
  OBVIOUS
<1>1. ASSUME NEW w \in Workers, NEW m \in Members, NEW o \in Orders,
             NEW n \in Nonces, RequestPaymentPut(w, m, o, n)
      PROVE  CopiesFrom
  BY <1>1, CopiesGone DEF RequestPaymentPut, Idle, Charging
<1>2. ASSUME NEW w \in Workers, NEW n \in Nonces, NEW t \in Tokens,
             NEW k \in Keys, VerifyGet(w, n, t, k)
      PROVE  CopiesFrom
  BY <1>2, CopiesGone DEF VerifyGet, Idle, Charging
<1>3. ASSUME NEW w \in Workers, VerifyRemove(w)
      PROVE  CopiesFrom
  BY <1>3, CopiesGoto, CopiesRespond DEF VerifyRemove, Charging
<1>4. ASSUME NEW w \in Workers, VerifyCard(w)
      PROVE  CopiesFrom
  <2> DEFINE r == rows[call[w].token]
             c == [call[w] EXCEPT !.pc = "payOrder", !.row = r]
  <2>1. CASE Respond(w)
    BY <2>1, CopiesRespond
  <2>2. CASE r # Nil /\ Enter(w, c)
    <3>1. call[w].token \in Tokens
      BY <1>4, PayLocals DEF VerifyCard, At, Paying, Taken
    <3>2. c.row = r
      BY DEF TypeInv, TypeOK, Call
    <3> HIDE DEF c
    <3>3. call'[w] = c => CopyFrom(w)
      BY <2>2, <3>1, <3>2 DEF CopyFrom
    <3> QED
      BY <2>2, <3>3, CopiesMoves
  <2> QED
    BY <1>4, <2>1, <2>2 DEF VerifyCard
<1>5. ASSUME NEW w \in Workers,
             GetUserPayInfo(w) \/ KiccApproves(w) \/ PayCallBack(w)
      PROVE  CopiesFrom
  <2>1. call[w].pc \in Charging
    BY <1>5 DEF GetUserPayInfo, KiccApproves, PayCallBack, At, Charging
  <2> QED
    BY <1>5, <2>1, CopiesGoto, CopiesRespond
       DEF GetUserPayInfo, KiccApproves, PayCallBack
<1> QED
  BY <1>1, <1>2, <1>3, <1>4, <1>5, CopiesRespond
     DEF PayNext, RequestPaymentEcho, KiccDeclines, PayCancel

LEMMA CopiesStep == TypeInv /\ [Next]_vars => CopiesFrom
<1> SUFFICES ASSUME TypeInv, [Next]_vars PROVE CopiesFrom
  OBVIOUS
<1>1. CASE Restart
  BY <1>1 DEF Restart, CopiesFrom, CopyFrom, Idle, Charging
<1>2. CASE UNCHANGED vars
  BY <1>2, CopiesSteady DEF vars
<1> QED
  BY <1>1, <1>2, CopiesCards, CopiesReset, CopiesPay DEF Next

-----------------------------------------------------------------------------

LEMMA CardStep == TypeInv /\ CardInv /\ [Next]_vars => CardInv'
<1> SUFFICES ASSUME TypeInv, CardInv, [Next]_vars PROVE CardInv'
  OBVIOUS
<1>1. RowsFrom /\ CopiesFrom
  BY RowsStep, CopiesStep
<1>2. RowsBillable'
  <2> SUFFICES ASSUME NEW t \in Tokens, rows'[t] # Nil
               PROVE  rows'[t].token = t /\ Billable(rows'[t])
    BY DEF RowsBillable, Billable
  <2>1. CASE rows'[t] \in Copies(t) /\ rows'[t].token = t
    BY <2>1 DEF Copies, At, CardInv, CopyBillable
  <2>2. CASE rows[t] = Nil /\ rows'[t].token = t /\ rows'[t].flag = "N"
    BY <2>2 DEF Billable
  <2> QED
    BY <1>1, <2>1, <2>2 DEF RowsFrom, CardInv, RowsBillable, Billable
<1>3. ASSUME NEW w \in Workers PROVE CopyBillable(call'[w])
  BY <1>1 DEF CopiesFrom, CopyFrom, CardInv, CopyBillable, RowsBillable, Billable
<1> QED
  BY <1>2, <1>3 DEF CardInv

LEMMA CardsCorrect == Spec => [](TypeInv /\ CardInv)
<1>1. Init => TypeInv /\ CardInv
  BY TypeInit, CardInit
<1>2. TypeInv /\ CardInv /\ [Next]_vars => (TypeInv /\ CardInv)'
  BY TypeStep, CardStep
<1> QED
  BY <1>1, <1>2, PTL DEF Spec

\* A card in use has a billing key that KICC issued, and so has every payment
\* that read it in use, for any number of concurrent requests.
THEOREM BillableSafe == Spec => []InUseBillable
<1>1. CardInv => InUseBillable
  BY DEF CardInv, RowsBillable, CopyBillable, Billable, InUseBillable, Stored
<1> QED
  BY <1>1, CardsCorrect, PTL

\* What every copy agrees on stays: a bound or deleted card of which no older
\* copy is under way stays bound or deleted, for any number of requests.
THEOREM StatusSafe == Spec => StatusSettles
<1> DEFINE Settles ==
      \A t \in Stored(rows) : /\ BoundForGood(t) => BoundForGood(t)'
                              /\ DeletedForGood(t) => DeletedForGood(t)'
<1>1. TypeInv /\ CardInv /\ [Next]_vars => Settles
  <2> SUFFICES ASSUME TypeInv, CardInv, [Next]_vars, NEW t \in Tokens,
                      rows[t] # Nil
               PROVE  /\ BoundForGood(t) => BoundForGood(t)'
                      /\ DeletedForGood(t) => DeletedForGood(t)'
    BY DEF Stored
  <2>1. RowsFrom /\ CopiesFrom
    BY RowsStep, CopiesStep
  \* A copy that will be written to row t comes from an older one or from it.
  <2>2. ASSUME NEW row \in Copies(t)'
        PROVE  \/ row \in Copies(t)
               \/ row.bill = rows[t].bill
                     /\ (row.flag = rows[t].flag \/ row.flag = "D")
               \/ rows[t].flag = "N" /\ row.bill = "issued"
    <3>1. PICK w \in Workers : /\ call'[w].pc = "update"
                               /\ call'[w].row = row /\ row.token = t
      BY DEF Copies, At
    <3>2. \A s \in Tokens : rows[s] # Nil => rows[s].token = s
      BY DEF CardInv, RowsBillable
    <3> QED
      BY <2>1, <3>1, <3>2 DEF CopiesFrom, CopyFrom, Copies, At
  <2>3. \/ rows'[t] \in Copies(t)
        \/ rows'[t].bill = rows[t].bill /\ rows'[t].flag = rows[t].flag
    BY <2>1 DEF RowsFrom
  <2>4. BoundForGood(t) => BoundForGood(t)'
    BY <2>2, <2>3 DEF BoundForGood
  <2>5. DeletedForGood(t) => DeletedForGood(t)'
    BY <2>2, <2>3 DEF DeletedForGood
  <2> QED
    BY <2>4, <2>5
<1>2. TypeInv /\ CardInv /\ [Next]_vars => [Settles]_vars
  BY <1>1
<1> QED
  BY <1>2, CardsCorrect, PTL DEF Spec, StatusSettles

-----------------------------------------------------------------------------
(***************************************************************************)
(* Nonces: at any moment all the places that hold a nonce agree on the      *)
(* member, the purpose and the data it stands for.                         *)
(***************************************************************************)

LEMMA NonceInit == Init => NonceInv
<1> SUFFICES ASSUME Init PROVE NonceInv
  OBVIOUS
<1>1. ASSUME NEW m \in Members, NEW s \in Slot
      PROVE  ~Holds(m, s)
  BY SimplePayAssumption
     DEF Init, Holds, Remembered, Carried, Ticketed, Idle, Slot
<1> QED
  BY <1>1 DEF Init, NonceInv, Agree, HeldUsed, PreparedApart,
              ConsumedNonceGone, Idle

-----------------------------------------------------------------------------
(* How a step changes who holds what. *)

\* Entries are only copied from where they are ...
HeldKept ==
    \A m \in Members, s \in Slot : Holds(m, s)' => Holds(m, s)

\* ... except for the one that a first step makes under a fresh nonce.
HeldFresh(o, e) ==
    \A m \in Members, s \in Slot :
        Holds(m, s)' => Holds(m, s) \/ (m = o /\ s = e)

LEMMA AgreeKept ==
  ASSUME NonceInv, HeldKept, UNCHANGED used
  PROVE  Agree' /\ HeldUsed'
BY DEF NonceInv, Agree, HeldUsed, HeldKept

LEMMA AgreeFresh ==
  ASSUME NonceInv, NEW o \in Members, NEW e \in Slot, HeldFresh(o, e),
         FreshNonce(e.nonce)
  PROVE  Agree' /\ HeldUsed'
<1>1. Agree'
  BY DEF NonceInv, Agree, HeldUsed, HeldFresh, FreshNonce
<1>2. HeldUsed'
  BY DEF NonceInv, HeldUsed, HeldFresh, FreshNonce
<1> QED
  BY <1>1, <1>2

\* A worker's own entry is held by the member it works for.
LEMMA OwnHeld ==
  ASSUME TypeInv, NEW w \in Workers, call[w].slot # Nil
  PROVE  /\ call[w].member \in Members
         /\ call[w].slot \in Slot
         /\ Holds(call[w].member, call[w].slot)
BY DEF TypeInv, TypeOK, ControlOK, HasLocals, Call, Holds, Carried

\* What is remembered is held.
LEMMA MemoryHeld ==
  ASSUME TypeInv, NEW m \in Members, memory[m] # Nil
  PROVE  memory[m] \in Slot /\ Holds(m, memory[m])
BY DEF TypeInv, TypeOK, Holds, Remembered

\* A step that gives a worker an entry which is held already, or none.
LEMMA CarriedKept ==
  ASSUME TypeInv, NEW w \in Workers, NEW c, Enter(w, c),
         c.slot # Nil => Holds(c.member, c.slot),
         NEW m \in Members, NEW s \in Slot, Carried(m, s)'
  PROVE  Holds(m, s)
<1>1. s # Nil
  BY SimplePayAssumption
<1>2. PICK v \in Workers : call'[v].member = m /\ call'[v].slot = s
  BY DEF Carried
<1>3. CASE v = w
  BY <1>1, <1>2, <1>3 DEF Enter, TypeInv, TypeOK
<1>4. CASE v # w
  BY <1>2, <1>4 DEF Enter, TypeInv, TypeOK, Holds, Carried
<1> QED
  BY <1>3, <1>4

\* A ticket is issued for an entry that its worker holds.
LEMMA IssuedKept ==
  ASSUME TypeInv, NEW w \in Workers, call[w].slot # Nil,
         Issue(call[w].slot, call[w].member),
         NEW m \in Members, NEW s \in Slot, Ticketed(m, s)'
  PROVE  Holds(m, s)
<1> DEFINE e == call[w].slot
<1>1. e \in Slot /\ call[w].member \in Members /\ Holds(call[w].member, e)
  BY OwnHeld
<1>2. s.nonce \in Nonces /\ e.nonce \in Nonces
  BY <1>1 DEF Slot
<1>3. CASE s.nonce = e.nonce
  <2>1. m = call[w].member /\ s.type = e.type /\ s.data = e.data
    BY <1>2, <1>3 DEF Ticketed, Issue, TypeInv, TypeOK
  <2>2. s = e
    BY <1>1, <1>3, <2>1 DEF Slot
  <2> QED
    BY <1>1, <2>1, <2>2
<1>4. CASE s.nonce # e.nonce
  BY <1>2, <1>4 DEF Ticketed, Issue, Holds, TypeInv, TypeOK
<1> QED
  BY <1>3, <1>4

\* A delivery changes nothing about whose a ticket is and what for.
LEMMA DeliveredKept ==
  ASSUME TypeInv, NEW n \in Nonces, NEW type, CanDeliver(n, type), Deliver(n),
         NEW m \in Members, NEW s \in Slot, Ticketed(m, s)'
  PROVE  Holds(m, s)
<1>1. ticket[n] \in Ticket /\ ticket[n] # Nil
  BY DEF CanDeliver, TypeInv, TypeOK
<1>2. s.nonce \in Nonces
  BY DEF Slot
<1>3. CASE s.nonce = n
  BY <1>1, <1>3 DEF Ticketed, Deliver, Holds, TypeInv, TypeOK, Ticket
<1>4. CASE s.nonce # n
  BY <1>2, <1>4 DEF Ticketed, Deliver, Holds, TypeInv, TypeOK
<1> QED
  BY <1>3, <1>4

-----------------------------------------------------------------------------
(* What a step does to the memory and to the prepared entries. *)

\* A step that puts nothing into the memory, consumes nothing and gives its
\* worker no entry, the one it has, or one from the memory.
LEMMA ApartMove ==
  ASSUME TypeInv, NonceInv, UNCHANGED <<memory, used, consumed>>,
         NEW w \in Workers, NEW c, Enter(w, c), c.pc # "resetPut",
         \/ c.slot = Nil
         \/ c.slot = call[w].slot
         \/ \E m \in Members : c.slot = memory[m]
  PROVE  PreparedApart' /\ ConsumedNonceGone' /\ (consumed \subseteq used)'
<1>1. call' = [call EXCEPT ![w] = c] /\ call \in [Workers -> Call]
  BY DEF Enter, TypeInv, TypeOK
<1>2. ASSUME NEW v \in Workers, call'[v].pc = "resetPut"
      PROVE  v # w /\ call'[v] = call[v] /\ call[v].slot # Nil
  BY <1>1, <1>2 DEF TypeInv, ControlOK, HasLocals, Resetting
<1>3. PreparedApart'
  BY <1>1, <1>2 DEF NonceInv, PreparedApart
<1> QED
  BY <1>3 DEF NonceInv, ConsumedNonceGone

\* A step that only moves a worker, with the entry it has or with none.
LEMMA NonceMove ==
  ASSUME TypeInv, NonceInv, UNCHANGED <<memory, used, ticket, consumed>>,
         NEW w \in Workers, NEW c, Enter(w, c), c.pc # "resetPut",
         \/ c.slot = Nil
         \/ c.slot = call[w].slot /\ c.member = call[w].member
  PROVE  NonceInv'
<1>1. c.slot # Nil => Holds(c.member, c.slot)
  BY OwnHeld
<1>2. HeldKept
  BY <1>1, CarriedKept DEF HeldKept, Holds, Remembered, Ticketed
<1> QED
  BY <1>2, AgreeKept, ApartMove DEF NonceInv

LEMMA NonceRespond ==
  ASSUME TypeInv, NonceInv, UNCHANGED <<memory, used, ticket, consumed>>,
         NEW w \in Workers, Respond(w)
  PROVE  NonceInv'
<1>1. Enter(w, Idle) /\ Idle.pc = "idle" /\ Idle.slot = Nil
  BY DEF Respond, Enter, Idle
<1> QED
  BY <1>1, NonceMove

LEMMA NonceCards == TypeInv /\ NonceInv /\ CardNext => NonceInv'
<1> SUFFICES ASSUME TypeInv, NonceInv, CardNext PROVE NonceInv'
  OBVIOUS
<1>1. ASSUME UNCHANGED <<memory, call, used, ticket, consumed>>
      PROVE  NonceInv'
  BY <1>1 DEF NonceInv, Agree, HeldUsed, PreparedApart, ConsumedNonceGone,
              Holds, Remembered, Carried, Ticketed
<1>3. ASSUME NEW w \in Workers, UpdateCard(w)
      PROVE  NonceInv'
  BY <1>3, NonceRespond DEF UpdateCard
<1>4. ASSUME NEW w \in Workers, NEW t \in Tokens,
             RegistCardRead(w, t)
                \/ \E m \in Members :
                      \/ DeleteCardRead(w, m, t)
                      \/ \E nick \in Nicks : ChangeCardNickRead(w, m, t, nick)
      PROVE  NonceInv'
  <2>1. PICK row : Enter(w, [Idle EXCEPT !.pc = "update", !.row = row])
    BY <1>4 DEF RegistCardRead, DeleteCardRead, ChangeCardNickRead,
                ReadForUpdate
  <2> DEFINE c == [Idle EXCEPT !.pc = "update", !.row = row]
  <2>2. UNCHANGED <<memory, used, ticket, consumed>>
    BY <1>4 DEF RegistCardRead, DeleteCardRead, ChangeCardNickRead,
                ReadForUpdate
  <2>3. c.pc = "update" /\ c.slot = Nil
    BY DEF Idle
  <2> QED
    BY <2>1, <2>2, <2>3, NonceMove
<1> QED
  BY <1>1, <1>3, <1>4 DEF CardNext, RegistCardInsert

LEMMA NonceReset == TypeInv /\ NonceInv /\ ResetNext => NonceInv'
<1> SUFFICES ASSUME TypeInv, NonceInv, ResetNext PROVE NonceInv'
  OBVIOUS
<1>1. ASSUME NEW w \in Workers, NEW m \in Members, NEW k \in Keys,
             NEW n \in Nonces, InitializePasswordList(w, m, k, n)
      PROVE  NonceInv'
  <2> DEFINE e == [type |-> ResetType, nonce |-> n, data |-> k]
             c == [Idle EXCEPT !.pc = "resetPut", !.member = m, !.slot = e]
  <2>1. e \in Slot /\ e.nonce = n /\ e # Nil
    BY SimplePayAssumption DEF Slot
  <2>c. c.pc = "resetPut" /\ c.member = m /\ c.slot = e
    BY DEF Idle
  <2> HIDE DEF e
  <2>2. /\ call' = [call EXCEPT ![w] = c] /\ call \in [Workers -> Call]
        /\ UNCHANGED <<memory, ticket, consumed>> /\ FreshNonce(n)
    BY <1>1 DEF InitializePasswordList, Enter, TypeInv, TypeOK, e
  <2> HIDE DEF c
  <2>3. HeldFresh(m, e)
    BY <2>c, <2>2 DEF HeldFresh, Holds, Remembered, Carried, Ticketed
  <2>4. Agree' /\ HeldUsed'
    BY <2>1, <2>2, <2>3, AgreeFresh
  <2>5. /\ \A o \in Members : memory[o] # Nil => memory[o].nonce # n
        /\ \A v \in Workers : call[v].slot # Nil => call[v].slot.nonce # n
        /\ n \notin consumed
    BY <2>2, OwnHeld, MemoryHeld DEF NonceInv, HeldUsed, FreshNonce
  <2>6. PreparedApart'
    <3> SUFFICES ASSUME NEW v \in Workers, call'[v].pc = "resetPut"
                 PROVE  /\ call'[v].slot.nonce \notin consumed'
                        /\ \A o \in Members : memory'[o] # Nil =>
                              memory'[o].nonce # call'[v].slot.nonce
                        /\ \A u \in Workers \ {v} : call'[u].slot # Nil =>
                              call'[u].slot.nonce # call'[v].slot.nonce
      BY DEF PreparedApart
    <3>1. CASE v = w
      BY <2>1, <2>c, <2>2, <2>5, <3>1
    <3>2. CASE v # w
      <4>1. call'[v] = call[v] /\ call[v].slot # Nil
        BY <2>2, <3>2 DEF TypeInv, ControlOK, HasLocals, Resetting
      <4> QED
        BY <2>1, <2>c, <2>2, <2>5, <4>1 DEF NonceInv, PreparedApart
    <3> QED
      BY <3>1, <3>2
  <2> QED
    BY <2>2, <2>4, <2>6 DEF NonceInv, ConsumedNonceGone, FreshNonce
<1>2. ASSUME NEW w \in Workers, InitializePasswordPut(w)
      PROVE  NonceInv'
  <2> DEFINE e == call[w].slot
             o == call[w].member
  <2>1. call[w].pc = "resetPut" /\ e # Nil
    BY <1>2 DEF InitializePasswordPut, At, TypeInv, ControlOK, HasLocals,
                Resetting
  <2>2. e \in Slot /\ o \in Members /\ Holds(o, e)
    BY <2>1, OwnHeld
  <2>3. /\ memory' = [memory EXCEPT ![o] = e]
        /\ memory \in [Members -> Slot \cup {Nil}]
        /\ call' = [call EXCEPT ![w] = Idle] /\ call \in [Workers -> Call]
        /\ Issue(e, o) /\ UNCHANGED <<used, consumed>>
    BY <1>2 DEF InitializePasswordPut, put, Respond, TypeInv, TypeOK
  <2>4. HeldKept
    <3> SUFFICES ASSUME NEW m \in Members, NEW s \in Slot, Holds(m, s)'
                 PROVE  Holds(m, s)
      BY DEF HeldKept
    <3>1. CASE Remembered(m, s)'
      BY <2>2, <2>3, <3>1 DEF Remembered, Holds
    <3>2. CASE Carried(m, s)'
      BY <2>3, <3>2, CarriedKept DEF Enter, Idle
    <3>3. CASE Ticketed(m, s)'
      BY <2>1, <2>3, <3>3, IssuedKept
    <3> QED
      BY <3>1, <3>2, <3>3 DEF Holds
  <2>5. PreparedApart'
    <3>1. ASSUME NEW v \in Workers, call'[v].pc = "resetPut"
          PROVE  v # w /\ call'[v] = call[v] /\ call[v].slot # Nil
      BY <2>3, <3>1 DEF Idle, TypeInv, ControlOK, HasLocals, Resetting
    <3> QED
      BY <2>1, <2>3, <3>1 DEF Idle, NonceInv, PreparedApart
  <2>6. ConsumedNonceGone'
    BY <2>1, <2>2, <2>3 DEF NonceInv, PreparedApart, ConsumedNonceGone
  <2> QED
    BY <2>3, <2>4, <2>5, <2>6, AgreeKept DEF NonceInv
<1>3. ASSUME NEW w \in Workers, NEW n \in Nonces, InitializePasswordGet(w, n)
      PROVE  NonceInv'
  <2> DEFINE m == ticket[n].member
             c == [Idle EXCEPT !.pc = "resetUpdate", !.member = m,
                               !.slot = get(m)]
  <2>1. m \in Members
    BY <1>3 DEF InitializePasswordGet, CanDeliver, TypeInv, TypeOK, Ticket
  <2>c. c.pc = "resetUpdate" /\ c.member = m /\ c.slot = memory[m]
    BY DEF Idle, get
  <2>2. /\ CanDeliver(n, ResetType) /\ Deliver(n)
        /\ UNCHANGED <<memory, used, consumed>>
    BY <1>3 DEF InitializePasswordGet
  <2>3. CASE UNCHANGED call
    <3>1. HeldKept
      BY <2>2, <2>3, DeliveredKept DEF HeldKept, Holds, Remembered, Carried
    <3> QED
      BY <2>2, <2>3, <3>1, AgreeKept
         DEF NonceInv, PreparedApart, ConsumedNonceGone
  <2>4. CASE Enter(w, c)
    <3> HIDE DEF c
    <3>1. HeldKept
      <4>1. c.slot # Nil => Holds(c.member, c.slot)
        BY <2>1, <2>c, MemoryHeld
      <4> QED
        BY <2>2, <2>4, <4>1, CarriedKept, DeliveredKept
           DEF HeldKept, Holds, Remembered
    <3> QED
      BY <2>1, <2>c, <2>2, <2>4, <3>1, AgreeKept, ApartMove DEF NonceInv
  <2> QED
    BY <1>3, <2>3, <2>4 DEF InitializePasswordGet
<1>5. ASSUME NEW w \in Workers, InitializePasswordUpdate(w)
      PROVE  NonceInv'
  <2> DEFINE c == [call[w] EXCEPT !.pc = "resetHistory"]
  <2>1. c.pc = "resetHistory" /\ c.slot = call[w].slot
          /\ c.member = call[w].member
    BY DEF TypeInv, TypeOK, Call
  <2> QED
    BY <1>5, <2>1, NonceMove DEF InitializePasswordUpdate, Goto, Enter
<1>6. ASSUME NEW w \in Workers, InitializePasswordHistory(w)
      PROVE  NonceInv'
  BY <1>6, NonceRespond DEF InitializePasswordHistory
<1> QED
  BY <1>1, <1>2, <1>3, <1>5, <1>6 DEF ResetNext

LEMMA NoncePay == TypeInv /\ NonceInv /\ PayNext => NonceInv'
<1> SUFFICES ASSUME TypeInv, NonceInv, PayNext PROVE NonceInv'
  OBVIOUS
<1>1. ASSUME NEW w \in Workers, NEW m \in Members, NEW o \in Orders,
             NEW n \in Nonces, RequestPaymentPut(w, m, o, n)
      PROVE  NonceInv'
  <2> DEFINE e == [type |-> PayType, nonce |-> n, data |-> o]
             c == [Idle EXCEPT !.pc = "payEcho", !.member = m, !.slot = e]
  <2>1. e \in Slot /\ e.nonce = n /\ e # Nil
    BY SimplePayAssumption DEF Slot
  <2>c. c.pc = "payEcho" /\ c.member = m /\ c.slot = e
    BY DEF Idle
  <2> HIDE DEF e
  <2>2. /\ call' = [call EXCEPT ![w] = c] /\ call \in [Workers -> Call]
        /\ memory' = [memory EXCEPT ![m] = e]
        /\ memory \in [Members -> Slot \cup {Nil}]
        /\ UNCHANGED <<ticket, consumed>> /\ FreshNonce(n)
    BY <1>1 DEF RequestPaymentPut, put, Enter, TypeInv, TypeOK, e
  <2> HIDE DEF c
  <2>3. HeldFresh(m, e)
    BY <2>c, <2>2 DEF HeldFresh, Holds, Remembered, Carried, Ticketed
  <2>4. Agree' /\ HeldUsed'
    BY <2>1, <2>2, <2>3, AgreeFresh
  <2>5. /\ \A v \in Workers : call[v].slot # Nil => call[v].slot.nonce # n
        /\ n \notin consumed
    BY <2>2, OwnHeld DEF NonceInv, HeldUsed, FreshNonce
  <2>6. ASSUME NEW v \in Workers, call'[v].pc = "resetPut"
        PROVE  v # w /\ call'[v] = call[v] /\ call[v].slot # Nil
    BY <2>c, <2>2, <2>6 DEF TypeInv, ControlOK, HasLocals, Resetting
  <2>7. PreparedApart'
    BY <2>1, <2>c, <2>2, <2>5, <2>6 DEF NonceInv, PreparedApart
  <2> QED
    BY <2>1, <2>2, <2>4, <2>5, <2>7
       DEF NonceInv, ConsumedNonceGone, FreshNonce
<1>2. ASSUME NEW w \in Workers, RequestPaymentEcho(w)
      PROVE  NonceInv'
  <2>1. CASE UNCHANGED ticket
    BY <1>2, <2>1, NonceRespond DEF RequestPaymentEcho
  <2>2. CASE Issue(call[w].slot, call[w].member)
    <3>1. Enter(w, Idle) /\ Idle.pc = "idle" /\ Idle.slot = Nil
            /\ UNCHANGED <<memory, used, consumed>>
      BY <1>2 DEF RequestPaymentEcho, Respond, Enter, Idle
    <3>2. call[w].slot # Nil
      BY <1>2 DEF RequestPaymentEcho, At, TypeInv, ControlOK, HasLocals
    <3>3. HeldKept
      BY <2>2, <3>1, <3>2, CarriedKept, IssuedKept
         DEF HeldKept, Holds, Remembered
    <3> QED
      BY <3>1, <3>3, AgreeKept, ApartMove DEF NonceInv
  <2> QED
    BY <1>2, <2>1, <2>2 DEF RequestPaymentEcho
<1>3. ASSUME NEW w \in Workers, NEW n \in Nonces, NEW t \in Tokens,
             NEW k \in Keys, VerifyGet(w, n, t, k)
      PROVE  NonceInv'
  <2> DEFINE m == ticket[n].member
             c == [Idle EXCEPT !.pc = "payRemove", !.member = m,
                     !.slot = get(m), !.token = t, !.key = k, !.nonce = n]
  <2>1. m \in Members
    BY <1>3 DEF VerifyGet, CanDeliver, TypeInv, TypeOK, Ticket
  <2>c. c.pc = "payRemove" /\ c.member = m /\ c.slot = memory[m]
    BY DEF Idle, get
  <2>2. /\ CanDeliver(n, PayType) /\ Deliver(n) /\ Enter(w, c)
        /\ UNCHANGED <<memory, used, consumed>>
    BY <1>3 DEF VerifyGet
  <2> HIDE DEF c
  <2>3. c.slot # Nil => Holds(c.member, c.slot)
    BY <2>1, <2>c, MemoryHeld
  <2>4. HeldKept
    BY <2>2, <2>3, CarriedKept, DeliveredKept DEF HeldKept, Holds, Remembered
  <2> QED
    BY <2>1, <2>c, <2>2, <2>4, AgreeKept, ApartMove DEF NonceInv
<1>4. ASSUME NEW w \in Workers, VerifyRemove(w)
      PROVE  NonceInv'
  <2> DEFINE o == call[w].member
             e == call[w].slot
  <2>1. /\ call[w].pc = "payRemove" /\ o \in Members
        /\ call \in [Workers -> Call]
        /\ memory \in [Members -> Slot \cup {Nil}]
        /\ memory' = [memory EXCEPT ![o] = Nil] /\ UNCHANGED <<used, ticket>>
    BY <1>4, PayLocals DEF VerifyRemove, At, remove, Paying, TypeInv, TypeOK
  <2>2. PICK c : /\ Enter(w, c) /\ c.pc # "resetPut"
                 /\ \/ /\ c.slot = Nil /\ UNCHANGED consumed
                    \/ /\ c.slot = e /\ c.member = o /\ e # Nil
                       /\ consumed' = consumed \cup {e.nonce}
    <3>1. CASE e = Nil
      <4>1. Enter(w, Idle) /\ UNCHANGED consumed
        BY <1>4, <3>1 DEF VerifyRemove, Respond, Enter
      <4>2. Idle.pc # "resetPut" /\ Idle.slot = Nil
        BY DEF Idle
      <4> QED
        BY <4>1, <4>2
    <3>2. CASE e # Nil
      <4> DEFINE c == [call[w] EXCEPT !.pc = "payVerify"]
      <4>1. c.pc = "payVerify" /\ c.slot = e /\ c.member = o
        BY <2>1 DEF Call
      <4>2. Enter(w, c) /\ consumed' = consumed \cup {e.nonce}
        BY <1>4, <3>2 DEF VerifyRemove, Goto, Enter
      <4> QED
        BY <3>2, <4>1, <4>2
    <3> QED
      BY <3>1, <3>2
  <2>3. call' = [call EXCEPT ![w] = c]
    BY <2>2 DEF Enter
  <2>4. e # Nil => e \in Slot /\ Holds(o, e) /\ e.nonce \in used
    BY OwnHeld DEF NonceInv, HeldUsed
  <2>5. HeldKept
    <3> SUFFICES ASSUME NEW m \in Members, NEW s \in Slot, Holds(m, s)'
                 PROVE  Holds(m, s)
      BY DEF HeldKept
    <3>1. CASE Remembered(m, s)'
      BY <2>1, <3>1, SimplePayAssumption DEF Remembered, Holds
    <3>2. CASE Carried(m, s)'
      BY <2>2, <2>4, <3>2, CarriedKept
    <3>3. CASE Ticketed(m, s)'
      BY <2>1, <3>3 DEF Ticketed, Holds
    <3> QED
      BY <3>1, <3>2, <3>3 DEF Holds
  <2>6. Agree' /\ HeldUsed'
    BY <2>1, <2>5, AgreeKept
  <2>7. PreparedApart'
    <3>1. ASSUME NEW v \in Workers, call'[v].pc = "resetPut"
          PROVE  v # w /\ call'[v] = call[v] /\ call[v].slot # Nil
      BY <2>1, <2>2, <2>3, <3>1 DEF TypeInv, ControlOK, HasLocals, Resetting
    <3> QED
      BY <2>1, <2>2, <2>3, <3>1 DEF NonceInv, PreparedApart
  \* Another member's entry under this nonce would have to be the same entry.
  <2>8. ConsumedNonceGone'
    <3> SUFFICES ASSUME NEW m \in Members, memory'[m] # Nil
                 PROVE  memory'[m].nonce \notin consumed'
      BY DEF ConsumedNonceGone
    <3>1. m # o /\ memory'[m] = memory[m] /\ memory[m] # Nil
      BY <2>1
    <3>2. memory[m].nonce \notin consumed
      BY <3>1 DEF NonceInv, ConsumedNonceGone
    <3>3. e # Nil => memory[m].nonce # e.nonce
      BY <2>1, <2>4, <3>1, MemoryHeld DEF NonceInv, Agree
    <3> QED
      BY <2>2, <3>1, <3>2, <3>3
  <2> QED
    BY <2>1, <2>2, <2>4, <2>6, <2>7, <2>8 DEF NonceInv
<1>5. ASSUME NEW w \in Workers, VerifyCard(w)
      PROVE  NonceInv'
  <2> DEFINE r == rows[call[w].token]
             c == [call[w] EXCEPT !.pc = "payOrder", !.row = r]
  <2>1. c.pc = "payOrder" /\ c.slot = call[w].slot
          /\ c.member = call[w].member
    BY DEF TypeInv, TypeOK, Call
  <2>2. UNCHANGED <<memory, used, ticket, consumed>>
          /\ (Respond(w) \/ Enter(w, c))
    BY <1>5 DEF VerifyCard
  <2> QED
    BY <2>1, <2>2, NonceMove, NonceRespond
<1>6. ASSUME NEW w \in Workers,
             GetUserPayInfo(w) \/ KiccApproves(w) \/ KiccDeclines(w)
                \/ PayCallBack(w) \/ PayCancel(w)
      PROVE  NonceInv'
  <2>1. UNCHANGED <<memory, used, ticket, consumed>>
    BY <1>6 DEF GetUserPayInfo, KiccApproves, KiccDeclines, PayCallBack,
                PayCancel
  <2>2. ASSUME NEW pc, pc # "resetPut", Goto(w, pc)
        PROVE  NonceInv'
    <3> DEFINE c == [call[w] EXCEPT !.pc = pc]
    <3>1. c.pc = pc /\ c.slot = call[w].slot /\ c.member = call[w].member
      BY DEF TypeInv, TypeOK, Call
    <3>2. Enter(w, c)
      BY <2>2 DEF Goto, Enter
    <3> QED
      BY <2>1, <2>2, <3>1, <3>2, NonceMove
  <2> QED
    BY <1>6, <2>1, <2>2, NonceRespond
       DEF GetUserPayInfo, KiccApproves, KiccDeclines, PayCallBack, PayCancel
<1> QED
  BY <1>1, <1>2, <1>3, <1>4, <1>5, <1>6 DEF PayNext

\* A restart forgets entries; the tickets stay.
LEMMA NonceRestart == TypeInv /\ NonceInv /\ Restart => NonceInv'
<1> SUFFICES ASSUME TypeInv, NonceInv, Restart PROVE NonceInv'
  OBVIOUS
<1>1. HeldKept
  BY SimplePayAssumption DEF Restart, HeldKept, Holds, Remembered, Carried,
                             Ticketed, Idle
<1>2. Agree' /\ HeldUsed'
  BY <1>1, AgreeKept DEF Restart
<1> QED
  BY <1>2 DEF Restart, NonceInv, PreparedApart, ConsumedNonceGone, Idle

LEMMA NonceStep == TypeInv /\ NonceInv /\ [Next]_vars => NonceInv'
<1>1. TypeInv /\ NonceInv /\ UNCHANGED vars => NonceInv'
  BY DEF vars, NonceInv, Agree, HeldUsed, PreparedApart, ConsumedNonceGone,
         Holds, Remembered, Carried, Ticketed
<1> QED
  BY <1>1, NonceCards, NonceReset, NoncePay, NonceRestart DEF Next

LEMMA NoncesCorrect == Spec => [](TypeInv /\ NonceInv)
<1>1. Init => TypeInv /\ NonceInv
  BY TypeInit, NonceInit
<1>2. TypeInv /\ NonceInv /\ [Next]_vars => (TypeInv /\ NonceInv)'
  BY TypeStep, NonceStep
<1> QED
  BY <1>1, <1>2, PTL DEF Spec

\* A nonce that a payment removed is in no member's memory entry again, for
\* any number of members and of concurrent requests.
THEOREM ConsumedSafe == Spec => []ConsumedNonceGone
<1>1. NonceInv => ConsumedNonceGone
  BY DEF NonceInv
<1> QED
  BY <1>1, NoncesCorrect, PTL

-----------------------------------------------------------------------------
(* Keys. *)

LEMMA KeyInit == Init => KeyInv
BY DEF Init, KeyInv, KeyProvenance, CopiesVouched, ResetsVouched, Stored, Idle

\* What a member vouched for once counts for ever.
VouchedGrows == \A m \in Members : vouched[m] \subseteq vouched'[m]

\* Rows that keep their member and key, or get a vouched one, stay vouched.
LEMMA KeysKept ==
  ASSUME TypeInv, KeyInv, VouchedGrows, UNCHANGED rows
  PROVE  KeyProvenance'
<1>1. \A t \in Stored(rows) : rows[t].member \in Members
  BY DEF Stored, TypeInv, TypeOK, Table, Row
<1> QED
  BY <1>1 DEF KeyInv, KeyProvenance, VouchedGrows, Stored

\* A worker that stays as it is keeps vouched copies.
LEMMA CopiesStay ==
  ASSUME TypeInv, KeyInv, VouchedGrows, UNCHANGED call
  PROVE  CopiesVouched' /\ ResetsVouched'
<1>1. ASSUME NEW w \in Workers
      PROVE  /\ call[w].pc = "update" => call[w].row.member \in Members
             /\ call[w].pc = "resetUpdate" => call[w].member \in Members
  BY DEF TypeInv, TypeOK, ControlOK, HasLocals, Call, Row, Resetting
<1> QED
  BY <1>1 DEF KeyInv, CopiesVouched, ResetsVouched, VouchedGrows

\* One worker moves, and its own copy is vouched.
LEMMA CopiesMove ==
  ASSUME TypeInv, KeyInv, VouchedGrows, NEW w \in Workers, NEW c, Enter(w, c),
         c.pc = "update" => c.row.key \in vouched'[c.row.member],
         c.pc = "resetUpdate" => c.slot.data \in vouched'[c.member]
  PROVE  CopiesVouched' /\ ResetsVouched'
<1>1. call' = [call EXCEPT ![w] = c] /\ call \in [Workers -> Call]
  BY DEF Enter, TypeInv, TypeOK
<1>2. ASSUME NEW v \in Workers
      PROVE  /\ call[v].pc = "update" => call[v].row.member \in Members
             /\ call[v].pc = "resetUpdate" => call[v].member \in Members
  BY DEF TypeInv, TypeOK, ControlOK, HasLocals, Call, Row, Resetting
<1> QED
  BY <1>1, <1>2 DEF KeyInv, CopiesVouched, ResetsVouched, VouchedGrows

\* A step that touches no row and no key and moves a worker elsewhere.
LEMMA KeyMove ==
  ASSUME TypeInv, KeyInv, UNCHANGED <<rows, vouched>>,
         NEW w \in Workers, NEW c, Enter(w, c), c.pc # "update",
         c.pc # "resetUpdate"
  PROVE  KeyInv'
<1>1. VouchedGrows
  BY DEF VouchedGrows
<1> QED
  BY <1>1, KeysKept, CopiesMove DEF KeyInv

LEMMA KeyCards == TypeInv /\ KeyInv /\ CardNext => KeyInv'
<1> SUFFICES ASSUME TypeInv, KeyInv, CardNext PROVE KeyInv'
  OBVIOUS
<1>1. ASSUME NEW w \in Workers, NEW t \in Tokens, NEW m \in Members,
             NEW k \in Keys, NEW nick \in Nicks,
             RegistCardInsert(w, t, m, k, nick)
      PROVE  KeyInv'
  <2>1. VouchedGrows /\ k \in vouched'[m] /\ UNCHANGED call
    BY <1>1 DEF RegistCardInsert, VouchedGrows, TypeInv, TypeOK
  <2>2. KeyProvenance'
    <3> SUFFICES ASSUME NEW u \in Tokens, rows'[u] # Nil
                 PROVE  rows'[u].key \in vouched'[rows'[u].member]
      BY DEF KeyProvenance, Stored
    <3>1. CASE u = t
      BY <1>1, <2>1, <3>1 DEF RegistCardInsert, addCardInfo, TypeInv, TypeOK,
                              Table
    <3>2. CASE u # t
      <4>1. rows'[u] = rows[u] /\ rows[u] \in Row
        BY <1>1, <3>2 DEF RegistCardInsert, addCardInfo, TypeInv, TypeOK,
                          Table
      <4> QED
        BY <2>1, <4>1 DEF KeyInv, KeyProvenance, Stored, VouchedGrows, Row
    <3> QED
      BY <3>1, <3>2
  <2> QED
    BY <2>1, <2>2, CopiesStay DEF KeyInv
\* The three readers change neither the key nor the member of their copy.
<1>2. ASSUME NEW w \in Workers, NEW t \in Tokens, rows[t] # Nil,
             NEW row, row.key = rows[t].key, row.member = rows[t].member,
             Enter(w, [Idle EXCEPT !.pc = "update", !.row = row]),
             UNCHANGED <<rows, vouched>>
      PROVE  KeyInv'
  <2> DEFINE c == [Idle EXCEPT !.pc = "update", !.row = row]
  <2>1. c.pc = "update" /\ c.row = row
    BY DEF Idle
  <2>2. row.key \in vouched[row.member]
    BY <1>2 DEF KeyInv, KeyProvenance, Stored
  <2>3. VouchedGrows
    BY <1>2 DEF VouchedGrows
  <2> HIDE DEF c
  <2>4. CopiesVouched' /\ ResetsVouched'
    BY <1>2, <2>1, <2>2, <2>3, CopiesMove DEF c
  <2> QED
    BY <1>2, <2>3, <2>4, KeysKept DEF KeyInv
<1>3. ASSUME NEW w \in Workers, NEW t \in Tokens, RegistCardRead(w, t)
      PROVE  KeyInv'
  <2> DEFINE row == [rows[t] EXCEPT !.bill = "issued", !.flag = "Y"]
  <2>1. rows[t] \in Row /\ rows[t] # Nil
    BY <1>3 DEF RegistCardRead, ReadForUpdate, Stored, TypeInv, TypeOK, Table
  <2>2. row.key = rows[t].key /\ row.member = rows[t].member
    BY <2>1 DEF Row
  <2> QED
    BY <1>2, <1>3, <2>1, <2>2 DEF RegistCardRead, ReadForUpdate
<1>4. ASSUME NEW w \in Workers, NEW t \in Tokens, NEW m \in Members,
             DeleteCardRead(w, m, t)
      PROVE  KeyInv'
  <2> DEFINE row == [rows[t] EXCEPT !.flag = "D"]
  <2>1. rows[t] \in Row /\ rows[t] # Nil
    BY <1>4 DEF DeleteCardRead, ReadForUpdate, Stored, TypeInv, TypeOK, Table
  <2>2. row.key = rows[t].key /\ row.member = rows[t].member
    BY <2>1 DEF Row
  <2> QED
    BY <1>2, <1>4, <2>1, <2>2 DEF DeleteCardRead, ReadForUpdate
<1>5. ASSUME NEW w \in Workers, NEW t \in Tokens, NEW m \in Members,
             NEW nick \in Nicks, ChangeCardNickRead(w, m, t, nick)
      PROVE  KeyInv'
  <2> DEFINE row == [rows[t] EXCEPT !.nick = nick]
  <2>1. rows[t] \in Row /\ rows[t] # Nil
    BY <1>5 DEF ChangeCardNickRead, ReadForUpdate, Stored, TypeInv, TypeOK, Table
  <2>2. row.key = rows[t].key /\ row.member = rows[t].member
    BY <2>1 DEF Row
  <2> QED
    BY <1>2, <1>5, <2>1, <2>2 DEF ChangeCardNickRead, ReadForUpdate
<1>6. ASSUME NEW w \in Workers, UpdateCard(w)
      PROVE  KeyInv'
  <2> DEFINE copy == call[w].row
  <2>1. copy \in Row /\ copy.key \in vouched[copy.member]
    BY <1>6 DEF UpdateCard, At, TypeInv, TypeOK, ControlOK, HasLocals, Call,
                KeyInv, CopiesVouched
  <2>2. Enter(w, Idle) /\ Idle.pc = "idle" /\ UNCHANGED vouched
    BY <1>6 DEF UpdateCard, Respond, Enter, Idle
  <2>3. CASE UNCHANGED rows
    BY <2>2, <2>3, KeyMove
  <2>4. CASE rows' = updateCardInfo(rows, copy)
    <3>1. ASSUME NEW u \in Tokens
          PROVE  rows'[u] = rows[u] \/ rows'[u] = copy
      BY <2>1, <2>4 DEF updateCardInfo, TypeInv, TypeOK, Table
    <3>2. KeyProvenance'
      BY <2>1, <2>2, <3>1 DEF KeyInv, KeyProvenance, Stored
    <3> QED
      BY <2>2, <3>2, CopiesMove DEF KeyInv, VouchedGrows
  <2> QED
    BY <1>6, <2>3, <2>4 DEF UpdateCard
<1> QED
  BY <1>1, <1>3, <1>4, <1>5, <1>6 DEF CardNext

\* The entry that a delivered reset finds under its nonce is the one that
\* its ticket stands for.
LEMMA ConfirmedIsTicketed ==
  ASSUME TypeInv, NonceInv, NEW n \in Nonces, CanDeliver(n, ResetType),
         Confirms(get(ticket[n].member), n)
  PROVE  get(ticket[n].member).data = ticket[n].data
<1> DEFINE m == ticket[n].member
           s == [type |-> ResetType, nonce |-> n, data |-> ticket[n].data]
<1>1. /\ ticket[n] \in Ticket /\ ticket[n] # Nil /\ ticket[n].type = ResetType
      /\ m \in Members /\ ticket[n].data \in Keys
  BY DEF CanDeliver, TypeInv, TypeOK, Ticket, PayType, ResetType
<1>2. s \in Slot /\ Holds(m, s)
  BY <1>1 DEF Slot, Holds, Ticketed
<1>3. memory[m] \in Slot /\ Holds(m, memory[m]) /\ memory[m].nonce = n
  BY <1>1, MemoryHeld DEF Confirms, get
<1>4. memory[m] = s
  BY <1>1, <1>2, <1>3 DEF NonceInv, Agree
<1> QED
  BY <1>4 DEF get

LEMMA KeyReset == TypeInv /\ NonceInv /\ KeyInv /\ ResetNext => KeyInv'
<1> SUFFICES ASSUME TypeInv, NonceInv, KeyInv, ResetNext PROVE KeyInv'
  OBVIOUS
<1>1. ASSUME NEW w \in Workers, NEW m \in Members, NEW k \in Keys,
             NEW n \in Nonces, InitializePasswordList(w, m, k, n)
      PROVE  KeyInv'
  <2> DEFINE e == [type |-> ResetType, nonce |-> n, data |-> k]
             c == [Idle EXCEPT !.pc = "resetPut", !.member = m, !.slot = e]
  <2>1. c.pc = "resetPut"
    BY DEF Idle
  <2> QED
    BY <1>1, <2>1, KeyMove DEF InitializePasswordList
<1>2. ASSUME NEW w \in Workers,
             InitializePasswordPut(w) \/ InitializePasswordHistory(w)
      PROVE  KeyInv'
  <2>1. Enter(w, Idle) /\ Idle.pc = "idle" /\ UNCHANGED <<rows, vouched>>
    BY <1>2 DEF InitializePasswordPut, InitializePasswordHistory, Respond,
                Enter, Idle
  <2> QED
    BY <2>1, KeyMove
<1>3. ASSUME NEW w \in Workers, NEW n \in Nonces, InitializePasswordGet(w, n)
      PROVE  KeyInv'
  <2> DEFINE m == ticket[n].member
             c == [Idle EXCEPT !.pc = "resetUpdate", !.member = m,
                               !.slot = get(m)]
  <2>1. VouchedGrows /\ ticket[n].data \in vouched'[m] /\ UNCHANGED rows
    BY <1>3 DEF InitializePasswordGet, VouchedGrows, CanDeliver, TypeInv,
                TypeOK, Ticket
  <2>2. CASE UNCHANGED call
    BY <2>1, <2>2, KeysKept, CopiesStay DEF KeyInv
  <2>3. CASE Confirms(get(m), n) /\ Enter(w, c)
    <3>1. c.pc = "resetUpdate" /\ c.member = m /\ c.slot = get(m)
      BY DEF Idle
    <3>2. c.slot.data \in vouched'[c.member]
      BY <1>3, <2>1, <2>3, <3>1, ConfirmedIsTicketed
         DEF InitializePasswordGet
    <3> HIDE DEF c
    <3> QED
      BY <2>1, <2>3, <3>1, <3>2, KeysKept, CopiesMove DEF KeyInv
  <2> QED
    BY <1>3, <2>2, <2>3 DEF InitializePasswordGet
<1>4. ASSUME NEW w \in Workers, InitializePasswordUpdate(w)
      PROVE  KeyInv'
  <2> DEFINE c == [call[w] EXCEPT !.pc = "resetHistory"]
             k == call[w].slot.data
             m == call[w].member
  <2>1. Enter(w, c) /\ c.pc = "resetHistory" /\ UNCHANGED vouched
    BY <1>4 DEF InitializePasswordUpdate, Goto, Enter, TypeInv, TypeOK, Call
  <2>2. k \in vouched[m]
    BY <1>4 DEF InitializePasswordUpdate, At, KeyInv, ResetsVouched
  <2>3. CASE UNCHANGED rows
    BY <2>1, <2>3, KeyMove
  <2>4. CASE rows' = changePwdSimplePay(rows, m, k)
    <3>1. ASSUME NEW t \in Tokens, rows'[t] # Nil
          PROVE  rows'[t].key \in vouched[rows'[t].member]
      <4>1. CASE rows[t] # Nil /\ rows[t].member = m
        <5>1. rows[t] \in Row /\ rows'[t] = [rows[t] EXCEPT !.key = k]
          BY <2>4, <4>1 DEF changePwdSimplePay, TypeInv, TypeOK, Table
        <5> QED
          BY <2>2, <4>1, <5>1 DEF Row
      <4>2. CASE ~(rows[t] # Nil /\ rows[t].member = m)
        <5>1. rows'[t] = rows[t]
          BY <2>4, <4>2 DEF changePwdSimplePay
        <5> QED
          BY <3>1, <5>1 DEF KeyInv, KeyProvenance, Stored
      <4> QED
        BY <4>1, <4>2
    <3>2. KeyProvenance'
      BY <2>1, <3>1 DEF KeyProvenance, Stored
    <3> QED
      BY <2>1, <3>2, CopiesMove DEF KeyInv, VouchedGrows
  <2> QED
    BY <1>4, <2>3, <2>4 DEF InitializePasswordUpdate
<1> QED
  BY <1>1, <1>2, <1>3, <1>4 DEF ResetNext

LEMMA KeyPay == TypeInv /\ KeyInv /\ PayNext => KeyInv'
<1> SUFFICES ASSUME TypeInv, KeyInv, PayNext PROVE KeyInv'
  OBVIOUS
<1>1. UNCHANGED <<rows, vouched>>
  BY DEF PayNext, RequestPaymentPut, RequestPaymentEcho, VerifyGet,
         VerifyRemove, VerifyCard, GetUserPayInfo, KiccApproves,
         KiccDeclines, PayCallBack, PayCancel
<1> DEFINE Elsewhere(w) ==
        \E c : Enter(w, c) /\ c.pc # "update" /\ c.pc # "resetUpdate"
<1>2. \E w \in Workers : Elsewhere(w)
  <2>1. ASSUME NEW w \in Workers, Respond(w)
        PROVE  Elsewhere(w)
    <3>1. Enter(w, Idle) /\ Idle.pc = "idle"
      BY <2>1 DEF Respond, Enter, Idle
    <3> QED
      BY <3>1
  <2>2. ASSUME NEW w \in Workers, NEW pc, Goto(w, pc), pc # "update",
               pc # "resetUpdate"
        PROVE  Elsewhere(w)
    <3> DEFINE c == [call[w] EXCEPT !.pc = pc]
    <3>1. Enter(w, c) /\ c.pc = pc
      BY <2>2 DEF Goto, Enter, TypeInv, TypeOK, Call
    <3> QED
      BY <2>2, <3>1
  <2>3. ASSUME NEW w \in Workers, VerifyCard(w)
        PROVE  Elsewhere(w)
    <3> DEFINE c == [call[w] EXCEPT !.pc = "payOrder",
                                    !.row = rows[call[w].token]]
    <3>1. c.pc = "payOrder"
      BY DEF TypeInv, TypeOK, Call
    <3> QED
      BY <2>1, <2>3, <3>1 DEF VerifyCard
  <2>4. ASSUME NEW w \in Workers, NEW m \in Members, NEW o \in Orders,
               NEW n \in Nonces, RequestPaymentPut(w, m, o, n)
        PROVE  Elsewhere(w)
    <3> DEFINE e == [type |-> PayType, nonce |-> n, data |-> o]
               c == [Idle EXCEPT !.pc = "payEcho", !.member = m, !.slot = e]
    <3>1. c.pc = "payEcho"
      BY DEF Idle
    <3> QED
      BY <2>4, <3>1 DEF RequestPaymentPut
  <2>5. ASSUME NEW w \in Workers, NEW n \in Nonces, NEW t \in Tokens,
               NEW k \in Keys, VerifyGet(w, n, t, k)
        PROVE  Elsewhere(w)
    <3> DEFINE m == ticket[n].member
               c == [Idle EXCEPT !.pc = "payRemove", !.member = m,
                       !.slot = get(m), !.token = t, !.key = k, !.nonce = n]
    <3>1. c.pc = "payRemove"
      BY DEF Idle
    <3> QED
      BY <2>5, <3>1 DEF VerifyGet
  <2>6. ASSUME NEW w \in Workers,
               RequestPaymentEcho(w) \/ VerifyRemove(w) \/ GetUserPayInfo(w)
                 \/ KiccApproves(w) \/ KiccDeclines(w) \/ PayCallBack(w)
                 \/ PayCancel(w)
        PROVE  Elsewhere(w)
    <3>1. Respond(w) \/ Goto(w, "payVerify") \/ Goto(w, "payKicc")
            \/ Goto(w, "payCallback") \/ Goto(w, "payCancel")
      BY <2>6 DEF RequestPaymentEcho, VerifyRemove, GetUserPayInfo,
                  KiccApproves, KiccDeclines, PayCallBack, PayCancel
    <3> QED
      BY <2>1, <2>2, <3>1
  <2> HIDE DEF Elsewhere
  <2> QED
    BY <2>3, <2>4, <2>5, <2>6 DEF PayNext
<1> QED
  BY <1>1, <1>2, KeyMove

LEMMA KeyStep == TypeInv /\ NonceInv /\ KeyInv /\ [Next]_vars => KeyInv'
<1>1. TypeInv /\ KeyInv /\ UNCHANGED vars => KeyInv'
  BY DEF vars, KeyInv, KeyProvenance, CopiesVouched, ResetsVouched, Stored
<1>2. TypeInv /\ KeyInv /\ Restart => KeyInv'
  BY DEF Restart, KeyInv, KeyProvenance, CopiesVouched, ResetsVouched,
         Stored, Idle
<1> QED
  BY <1>1, <1>2, KeyCards, KeyReset, KeyPay DEF Next

\* A card's SECRET_KEY is one that its member gave at a registration or
\* confirmed in a password reset, whatever stale copies are written back and
\* however often first and second steps overtake each other.
THEOREM KeysSafe == Spec => []KeyProvenance
<1>1. Init => KeyInv
  BY KeyInit
<1>2. TypeInv /\ NonceInv /\ KeyInv /\ [Next]_vars => KeyInv'
  BY KeyStep
<1>3. KeyInv => KeyProvenance
  BY DEF KeyInv
<1> QED
  BY <1>1, <1>2, <1>3, NoncesCorrect, PTL DEF Spec
=============================================================================
