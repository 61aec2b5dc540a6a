----------------------------- MODULE AuthRegistry -----------------------------
(***************************************************************************)
(* What the record file promises when no rewrite overlaps a registration or  *)
(* another rewrite: a registration adds one record, a removal removes the    *)
(* records of one id, and nothing else, no crash and no failing file         *)
(* operation, changes what is registered.  Once a rewrite was overlapped     *)
(* nothing is promised.                                                      *)
(***************************************************************************)
CONSTANTS Ids, Records
VARIABLES registered, overlapped

vars == <<registered, overlapped>>

Init == /\ registered \in SUBSET Records
        /\ overlapped = FALSE

Register == \E r \in Records : registered' = registered \cup {r}

Unregister == \E id \in Ids : registered' = {r \in registered : r.id # id}

Kept == /\ ~overlapped
        /\ Register \/ Unregister
        /\ UNCHANGED overlapped

Overlap == /\ overlapped' = TRUE
           /\ registered' \in SUBSET Records

Next == Kept \/ Overlap
Spec == Init /\ [][Next]_vars
=============================================================================
