---------------------------- MODULE CardHandlers ----------------------------
(***************************************************************************)
(* The handlers of ActionHandlerImpl that manage registered cards.  Steps  *)
(* 2 of registCard, changeCardNick and deleteCardOne read one row, check   *)
(* it, change the copy and write the whole copy back; the row may change   *)
(* in between.                                                             *)
(***************************************************************************)
EXTENDS SimplePayState

\* registCard step 1: one INSERT; if it fails nothing happened.  The answer
\* gives the client the token, so every action below takes the token of any
\* card there is, bound or not.
RegistCardInsert(w, t, m, k, nick) ==
    /\ "CardRegist" \in Requests
    /\ IsIdle(w)
    /\ rows[t] = Nil
    /\ rows' = addCardInfo(rows, t, m, k, nick)
    /\ vouched' = [vouched EXCEPT ![m] = @ \cup {k}]
    /\ UNCHANGED <<history, memory, call, used, ticket, ledger,
                   consumed, crashes>>

\* A handler that read a row goes on with a changed copy to write back.
ReadForUpdate(w, copy) ==
    /\ IsIdle(w)
    /\ Enter(w, [Idle EXCEPT !.pc = "update", !.row = copy])
    /\ UNCHANGED <<rows, history, memory, used, ticket, ledger,
                   consumed, vouched, crashes>>

\* A mistaken step 2: the check of USE_FLAG is missing.
RegistCardReadAnyFlag(w, t) ==
    /\ "CardRegist" \in Requests
    /\ t \in Stored(rows)
    /\ ReadForUpdate(w, [rows[t] EXCEPT !.bill = "issued", !.flag = "Y"])

\* registCard step 2, called by KICC with the billing key it issued.
RegistCardRead(w, t) ==
    /\ "CardRegist" \in Requests
    /\ t \in Stored(rows)
    /\ rows[t].flag = "N"
    /\ ReadForUpdate(w, [rows[t] EXCEPT !.bill = "issued", !.flag = "Y"])

\* Whatever the card's USE_FLAG.
ChangeCardNickRead(w, m, t, nick) ==
    /\ "ChangeCardNickname" \in Requests
    /\ t \in Stored(rows)
    /\ rows[t].member = m
    /\ ReadForUpdate(w, [rows[t] EXCEPT !.nick = nick])

\* A card that is not bound yet can be deleted, too.
DeleteCardRead(w, m, t) ==
    /\ "DeleteCardOne" \in Requests
    /\ t \in Stored(rows)
    /\ rows[t].member = m
    /\ rows[t].flag # "D"
    /\ ReadForUpdate(w, [rows[t] EXCEPT !.flag = "D"])

\* updateUserCardInfoOne: the copy replaces the row, or the UPDATE fails and
\* the handler answers 400.
UpdateCard(w) ==
    /\ At(w, "update")
    /\ \/ rows' = updateCardInfo(rows, call[w].row)
       \/ "db" \in Faults /\ UNCHANGED rows
    /\ Respond(w)
    /\ UNCHANGED <<history, memory, used, ticket, ledger, consumed,
                   vouched, crashes>>

CardNext ==
    \/ \E w \in Workers, t \in Tokens, m \in Members,
         k \in Keys, nick \in Nicks : RegistCardInsert(w, t, m, k, nick)
    \/ \E w \in Workers, t \in Tokens : RegistCardRead(w, t)
    \/ \E w \in Workers, t \in Tokens, m \in Members :
          \/ DeleteCardRead(w, m, t)
          \/ \E nick \in Nicks : ChangeCardNickRead(w, m, t, nick)
    \/ \E w \in Workers : UpdateCard(w)

=============================================================================
