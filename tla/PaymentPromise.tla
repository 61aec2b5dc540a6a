---------------------------- MODULE PaymentPromise ----------------------------
(***************************************************************************)
(* What the two-step payment promises about its nonces: a member has at    *)
(* most one live nonce, starting another payment kills it, taking it arms  *)
(* one charge, and an armed nonce is charged once or fails, never again.   *)
(***************************************************************************)
CONSTANTS Members, Nonces, Nil

VARIABLES
    issued,    \* nonces that were generated
    live,      \* per member, the nonce that a payment can still use
    armed,     \* nonces taken by a payment that is under way
    charged    \* nonces on which a charge was approved

promiseVars == <<issued, live, armed, charged>>

Init ==
    /\ issued = {}
    /\ live = [m \in Members |-> Nil]
    /\ armed = {}
    /\ charged = {}

Start(m, n) ==
    /\ n \notin issued
    /\ issued' = issued \cup {n}
    /\ live' = [live EXCEPT ![m] = n]
    /\ UNCHANGED <<armed, charged>>

\* The generator is shared: a nonce may go to something else than a payment.
Reserve(n) ==
    /\ issued' = issued \cup {n}
    /\ UNCHANGED <<live, armed, charged>>

Drop(m) ==
    /\ live' = [live EXCEPT ![m] = Nil]
    /\ UNCHANGED <<issued, armed, charged>>

Take(m, n) ==
    /\ live[m] = n
    /\ live' = [live EXCEPT ![m] = Nil]
    /\ armed' = armed \cup {n}
    /\ UNCHANGED <<issued, charged>>

Charge(n) ==
    /\ n \in armed
    /\ armed' = armed \ {n}
    /\ charged' = charged \cup {n}
    /\ UNCHANGED <<issued, live>>

Fail(n) ==
    /\ n \in armed
    /\ armed' = armed \ {n}
    /\ UNCHANGED <<issued, live, charged>>

\* A restart forgets the live nonces and the payments under way.
Restart ==
    /\ live' = [m \in Members |-> Nil]
    /\ armed' = {}
    /\ UNCHANGED <<issued, charged>>

Next ==
    \/ \E m \in Members, n \in Nonces : Start(m, n) \/ Take(m, n)
    \/ \E m \in Members : Drop(m)
    \/ \E n \in Nonces : Reserve(n) \/ Charge(n) \/ Fail(n)
    \/ Restart

Spec == Init /\ [][Next]_promiseVars

=============================================================================
