---------------------------- MODULE PasswordReset ----------------------------
(***************************************************************************)
(* initializePassword: step 1 leaves the new key in the member's memory    *)
(* entry under a nonce; the mobile authentication server later sends the   *)
(* nonce to initializePasswordStep2 (directly, or as step "ini"), which    *)
(* rewrites the key of every card of the member and adds a history row.    *)
(* The entry stays in the memory.                                          *)
(***************************************************************************)
EXTENDS SimplePayState

\* Step 1 needs a card in use; the nonce and the entry are local so far.
InitializePasswordList(w, m, k, n) ==
    /\ ResetType \in Requests
    /\ IsIdle(w)
    /\ getUserCardList(rows, m) # {}
    /\ FreshNonce(n)
    /\ Enter(w, [Idle EXCEPT !.pc = "resetPut", !.member = m,
                   !.slot = [type |-> ResetType, nonce |-> n, data |-> k]])
    /\ UNCHANGED <<rows, history, memory, ticket, ledger, consumed,
                   vouched, crashes>>

InitializePasswordPut(w) ==
    /\ At(w, "resetPut")
    /\ put(call[w].member, call[w].slot)
    /\ Issue(call[w].slot, call[w].member)
    /\ Respond(w)
    /\ UNCHANGED <<rows, history, used, ledger, consumed, vouched,
                   crashes>>

\* A mistaken check: any pending reset of the member will do.
ConfirmsAnyNonce(slot, n) == slot # Nil /\ slot.type = ResetType

\* The entry must be a password reset under the same nonce.
Confirms(slot, n) ==
    /\ slot # Nil
    /\ slot.type = ResetType
    /\ slot.nonce = n

\* initializePasswordStep2 reads the entry.  A missing entry (a null pointer
\* exception) or a wrong one ends the request with nothing changed.
InitializePasswordGet(w, n) ==
    LET m == ticket[n].member IN
    /\ IsIdle(w)
    /\ CanDeliver(n, ResetType)
    /\ Deliver(n)
    /\ vouched' = [vouched EXCEPT ![m] = @ \cup {ticket[n].data}]
    /\ IF Confirms(get(m), n)
       THEN Enter(w, [Idle EXCEPT !.pc = "resetUpdate", !.member = m,
                                  !.slot = get(m)])
       ELSE UNCHANGED call
    /\ UNCHANGED <<rows, history, memory, used, ledger, consumed,
                   crashes>>

\* changeUserCardPwd: an exception is swallowed and its -1 ignored.
InitializePasswordUpdate(w) ==
    /\ At(w, "resetUpdate")
    /\ \/ rows' = changePwdSimplePay(rows, call[w].member, call[w].slot.data)
       \/ "db" \in Faults /\ UNCHANGED rows
    /\ Goto(w, "resetHistory")
    /\ UNCHANGED <<history, memory, used, ticket, ledger, consumed,
                   vouched, crashes>>

\* addCardChgPwdHis, ignored in the same way; the answer is always 200.
InitializePasswordHistory(w) ==
    /\ At(w, "resetHistory")
    /\ \/ history' = [history EXCEPT ![call[w].member] = @ + 1]
       \/ "db" \in Faults /\ UNCHANGED history
    /\ Respond(w)
    /\ UNCHANGED <<rows, memory, used, ticket, ledger, consumed,
                   vouched, crashes>>

ResetNext ==
    \/ \E w \in Workers, m \in Members, k \in Keys, n \in Nonces :
          InitializePasswordList(w, m, k, n)
    \/ \E w \in Workers, n \in Nonces : InitializePasswordGet(w, n)
    \/ \E w \in Workers :
          \/ InitializePasswordPut(w)
          \/ InitializePasswordUpdate(w)
          \/ InitializePasswordHistory(w)

=============================================================================
