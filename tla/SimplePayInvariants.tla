------------------------- MODULE SimplePayInvariants -------------------------
(***************************************************************************)
(* The inductive invariants behind the safety properties of SimplePay.     *)
(* The properties alone are not inductive: what a handler may do at its    *)
(* next step depends on what it read steps ago, so each invariant speaks   *)
(* of the shared state and of the copies that handlers carry.              *)
(***************************************************************************)
EXTENDS SimplePay

\* The second step of a payment; after the removal; after verifySecureKey.
Taken == {"payVerify"} \cup Charging
Paying == {"payRemove"} \cup Taken
Resetting == {"resetPut", "resetUpdate", "resetHistory"}

-----------------------------------------------------------------------------
(* Control: at every step a handler has the locals that the step reads. *)

HasLocals(c) ==
    /\ c.slot # Nil => c.member # Nil
    /\ c.pc = "update" => c.row # Nil
    /\ c.pc \in Resetting =>
          c.member # Nil /\ c.slot # Nil /\ c.slot.type = ResetType
    /\ c.pc = "payEcho" =>
          c.member # Nil /\ c.slot # Nil /\ c.slot.type = PayType
    /\ c.pc \in Paying =>
          c.member # Nil /\ c.token # Nil /\ c.key # Nil /\ c.nonce # Nil
    /\ c.pc \in Taken => c.slot # Nil
    /\ c.pc \in Charging => c.row # Nil

ControlOK == \A w \in Workers : HasLocals(call[w])

TypeInv == TypeOK /\ ControlOK

-----------------------------------------------------------------------------
(* Cards: a row whose USE_FLAG is Y has an issued billing key, and so has    *)
(* every copy of a row.  A copy is written to the row that it was read from. *)

Billable(row) == row.flag = "Y" => row.bill = "issued"

RowsBillable ==
    \A t \in Tokens : rows[t] # Nil => rows[t].token = t /\ Billable(rows[t])

CopyBillable(c) == c.pc \in {"update"} \cup Charging => Billable(c.row)

CardInv ==
    /\ RowsBillable
    /\ \A w \in Workers : CopyBillable(call[w])

-----------------------------------------------------------------------------
(* Nonces: whatever holds a nonce agrees on whose it is and what for. *)

\* Entry s belongs to member m: in the memory, in a handler that read or
\* prepared it, or in a ticket.
Remembered(m, s) == memory[m] = s
Carried(m, s) == \E w \in Workers : call[w].member = m /\ call[w].slot = s
Ticketed(m, s) ==
    LET tk == ticket[s.nonce] IN
    tk # Nil /\ tk.member = m /\ tk.type = s.type /\ tk.data = s.data

Holds(m, s) == Remembered(m, s) \/ Carried(m, s) \/ Ticketed(m, s)

Agree ==
    \A m, o \in Members, s, r \in Slot :
        Holds(m, s) /\ Holds(o, r) /\ s.nonce = r.nonce => m = o /\ s = r

HeldUsed == \A m \in Members, s \in Slot : Holds(m, s) => s.nonce \in used

\* The entry that initializePassword is about to store is nowhere else yet.
PreparedApart ==
    \A w \in Workers : call[w].pc = "resetPut" =>
        /\ call[w].slot.nonce \notin consumed
        /\ \A m \in Members : memory[m] # Nil =>
              memory[m].nonce # call[w].slot.nonce
        /\ \A v \in Workers \ {w} : call[v].slot # Nil =>
              call[v].slot.nonce # call[w].slot.nonce

NonceInv ==
    /\ Agree
    /\ HeldUsed
    /\ consumed \subseteq used
    /\ PreparedApart
    /\ ConsumedNonceGone

-----------------------------------------------------------------------------
(* Keys: every copy of a row and every confirmed reset carries a key that  *)
(* the member it belongs to vouched for.                                   *)

CopiesVouched ==
    \A w \in Workers : call[w].pc = "update" =>
        call[w].row.key \in vouched[call[w].row.member]

ResetsVouched ==
    \A w \in Workers : call[w].pc = "resetUpdate" =>
        call[w].slot.data \in vouched[call[w].member]

KeyInv == KeyProvenance /\ CopiesVouched /\ ResetsVouched

-----------------------------------------------------------------------------
(* Charges: a handler that charges holds the entry of its own request, and *)
(* the entry's nonce was consumed.                                         *)

\* The ticket of a payment's nonce, which is never issued again.
Paid(n) == ticket[n] # Nil /\ ticket[n].type = PayType

OwnEntry ==
    \A w \in Workers :
        /\ call[w].pc \in Paying => Paid(call[w].nonce)
        /\ call[w].pc \in Taken => call[w].slot.nonce \in consumed
        /\ call[w].pc \in Charging => call[w].slot.nonce = call[w].nonce

ChargedPaid ==
    \A n \in Nonces : ledger[n].approved > 0 => n \in consumed /\ Paid(n)

ChargeInv == OwnEntry /\ ChargedPaid

\* Counting what is in flight needs finitely many handlers in flight, which
\* holds because they set out one at a time.
SettleInv == Settled /\ \A n \in Nonces : IsFiniteSet(InFlight(n))

-----------------------------------------------------------------------------
(* One request at a time: with a single thread a handler finds at its next *)
(* step what it read at the one before.                                    *)

OneAtATime == \E w \in Workers : Workers = {w}

Uncharged == {"payRemove", "payVerify", "payOrder", "payKicc"}

OnceInv ==
    /\ \A w \in Workers :
          /\ call[w].pc = "payRemove" /\ call[w].slot # Nil =>
                memory[call[w].member] = call[w].slot
          /\ call[w].pc \in Uncharged \ {"payRemove"} =>
                ledger[call[w].slot.nonce].approved = 0
    /\ ChargedOncePerNonce

\* The copy of a deleted row is deleted.
CopiesCurrent ==
    \A w \in Workers : \A t \in Stored(rows) :
        call[w].pc = "update" /\ call[w].row.token = t /\ rows[t].flag = "D" =>
            call[w].row.flag = "D"

\* Between the two statements of a reset every card has the new key.
ResetDone ==
    \A w \in Workers : \A t \in Stored(rows) :
        call[w].pc = "resetHistory" /\ rows[t].member = call[w].member =>
            rows[t].key = call[w].slot.data

-----------------------------------------------------------------------------
(* One delivery: no two handlers work on the same nonce.                   *)

Preparing == {"payEcho", "resetPut"}

DeliveredOnce ==
    /\ \A w \in Workers :
          /\ call[w].pc \in Paying => ticket[call[w].nonce].left = 0
          /\ call[w].pc \in Preparing => ticket[call[w].slot.nonce] = Nil
    /\ \A w \in Workers : \A v \in Workers \ {w} :
          /\ call[w].pc \in Paying /\ call[v].pc \in Paying =>
                call[w].nonce # call[v].nonce
          /\ call[w].pc \in Preparing /\ call[v].pc \in Preparing =>
                call[w].slot.nonce # call[v].slot.nonce

=============================================================================
