------------------------------- MODULE Payment -------------------------------
(***************************************************************************)
(* requestPayment: step 1 stores the order under a fresh nonce in the      *)
(* member's memory entry; step 2 takes the entry, checks the secure key    *)
(* against it and against the card, asks the B2C server for the order,     *)
(* sends the charge to KICC, and lets the B2C server either confirm the    *)
(* charge or cancel it (KiccTransaction.easypayRun).                       *)
(***************************************************************************)
EXTENDS SimplePayState

RequestPaymentPut(w, m, o, n) ==
    /\ "RequestPay" \in Requests
    /\ IsIdle(w)
    /\ FreshNonce(n)
    /\ LET slot == [type |-> PayType, nonce |-> n, data |-> o]
       IN  /\ put(m, slot)
           /\ Enter(w, [Idle EXCEPT !.pc = "payEcho", !.member = m,
                                    !.slot = slot])
    /\ UNCHANGED <<rows, history, ticket, ledger, consumed, vouched,
                   crashes>>

\* Step 1 reads the entry back to print it: if another request removed it
\* meanwhile, the null pointer exception turns the answer into an error and
\* the client never learns the nonce.
RequestPaymentEcho(w) ==
    /\ At(w, "payEcho")
    /\ IF get(call[w].member) = Nil
       THEN UNCHANGED ticket
       ELSE Issue(call[w].slot, call[w].member)
    /\ Respond(w)
    /\ UNCHANGED <<rows, history, memory, used, ledger, consumed,
                   vouched, crashes>>

\* Step 2, verifySecureKey.  The request names a card and has the key that
\* the member typed; it may be delivered more than once.  Nothing asks whose
\* card it is or whether it is in use.
VerifyGet(w, n, t, k) ==
    LET m == ticket[n].member IN
    /\ IsIdle(w)
    /\ CanDeliver(n, PayType)
    /\ Deliver(n)
    /\ Enter(w, [Idle EXCEPT !.pc = "payRemove", !.member = m,
                   !.slot = get(m), !.token = t, !.key = k, !.nonce = n])
    /\ UNCHANGED <<rows, history, memory, used, ledger, consumed,
                   vouched, crashes>>

\* The entry is removed whatever it is by now; with no entry read, the next
\* line raises a null pointer exception.
VerifyRemove(w) ==
    LET c == call[w] IN
    /\ At(w, "payRemove")
    /\ remove(c.member)
    /\ IF c.slot = Nil
       THEN Respond(w) /\ UNCHANGED consumed
       ELSE Goto(w, "payVerify") /\ consumed' = consumed \cup {c.slot.nonce}
    /\ UNCHANGED <<rows, history, used, ticket, ledger, vouched,
                   crashes>>

\* A mistaken digest that leaves the nonce out.
SecureKeyWithoutNonce(c, r) ==
    /\ c.key = r.key
    /\ c.slot.data = ticket[c.nonce].data

\* The digest covers nonce, member, order and key: the client's and the
\* server's are equal when these are.
SecureKeyMatches(c, r) ==
    /\ c.key = r.key
    /\ c.slot.nonce = c.nonce
    /\ c.slot.data = ticket[c.nonce].data

\* A mistaken handler that answers only when the check succeeds.
VerifyCardOrHang(w) ==
    LET c == call[w]
        r == rows[c.token]
    IN
    /\ At(w, "payVerify")
    /\ r # Nil /\ SecureKeyMatches(c, r)
    /\ Enter(w, [c EXCEPT !.pc = "payOrder", !.row = r])
    /\ UNCHANGED <<rows, history, memory, used, ticket, ledger,
                   consumed, vouched, crashes>>

\* The key check that fails, and a card that is missing, answer an error.
VerifyCard(w) ==
    LET c == call[w]
        r == rows[c.token]
    IN
    /\ At(w, "payVerify")
    /\ IF r # Nil /\ SecureKeyMatches(c, r)
       THEN Enter(w, [c EXCEPT !.pc = "payOrder", !.row = r])
       ELSE Respond(w)
    /\ UNCHANGED <<rows, history, memory, used, ticket, ledger,
                   consumed, vouched, crashes>>

\* getKiccTranSendVo: the B2C server knows the order and allows it, or not.
GetUserPayInfo(w) ==
    /\ At(w, "payOrder")
    /\ \/ Goto(w, "payKicc")
       \/ Respond(w)
    /\ UNCHANGED <<rows, history, memory, used, ticket, ledger,
                   consumed, vouched, crashes>>

Count(n, what) == ledger' = [ledger EXCEPT ![n][what] = @ + 1]

\* easypay_run: KICC approves the charge or declines it.  Under the fault
\* "kicc" it approves and the server reads a result code other than "0000".
KiccApproves(w) ==
    /\ At(w, "payKicc")
    /\ Count(call[w].nonce, "approved")
    /\ \/ Goto(w, "payCallback")
       \/ "kicc" \in Faults /\ Respond(w)
    /\ UNCHANGED <<rows, history, memory, used, ticket, consumed,
                   vouched, crashes>>

KiccDeclines(w) ==
    /\ At(w, "payKicc")
    /\ Respond(w)
    /\ UNCHANGED <<rows, history, memory, used, ticket, ledger,
                   consumed, vouched, crashes>>

\* A mistaken handler that does not cancel what the B2C server refused.
PayCallBackNoCancel(w) ==
    /\ At(w, "payCallback")
    /\ \/ Count(call[w].nonce, "confirmed")
       \/ UNCHANGED ledger
    /\ Respond(w)
    /\ UNCHANGED <<rows, history, memory, used, ticket, consumed,
                   vouched, crashes>>

\* payCallBack: at least 1 and the payment is answered 200, less and the
\* charge must be cancelled, or an exception that ends the request.
PayCallBack(w) ==
    /\ At(w, "payCallback")
    /\ \/ Count(call[w].nonce, "confirmed") /\ Respond(w)
       \/ Goto(w, "payCancel") /\ UNCHANGED ledger
       \/ "b2c" \in Faults /\ Respond(w) /\ UNCHANGED ledger
    /\ UNCHANGED <<rows, history, memory, used, ticket, consumed,
                   vouched, crashes>>

\* cancle(order, client ip); its result is ignored, the answer is an error.
PayCancel(w) ==
    /\ At(w, "payCancel")
    /\ Count(call[w].nonce, "cancelled")
    /\ Respond(w)
    /\ UNCHANGED <<rows, history, memory, used, ticket, consumed,
                   vouched, crashes>>

PayNext ==
    \/ \E w \in Workers, m \in Members, o \in Orders, n \in Nonces :
          RequestPaymentPut(w, m, o, n)
    \/ \E w \in Workers, n \in Nonces, t \in Tokens, k \in Keys :
          VerifyGet(w, n, t, k)
    \/ \E w \in Workers :
          \/ RequestPaymentEcho(w) \/ VerifyRemove(w) \/ VerifyCard(w)
          \/ GetUserPayInfo(w) \/ KiccApproves(w) \/ KiccDeclines(w)
          \/ PayCallBack(w) \/ PayCancel(w)

=============================================================================
