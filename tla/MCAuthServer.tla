----------------------------- MODULE MCAuthServer -----------------------------
(* Instances of AuthServer for TLC. *)
EXTENDS AuthServer, TLC

CONSTANTS a, b, p, q, w1, w2

Interchangeable == Permutations(Ids) \cup Permutations(Psws) \cup Permutations(Workers)
=============================================================================
