----------------------------- MODULE MCSimplePay -----------------------------
(* Instances of SimplePay for TLC. *)
EXTENDS SimplePay, TLC

CONSTANTS m1, m2, t1, t2, k1, k2, c1, c2, w1, w2, n1, n2, n3, o1, o2

AllRequests == ActionTypes
CardRequests == {"CardRegist", "DeleteCardOne", "ChangeCardNickname"}
ResetRequests == {"CardRegist", "InitializePwdSimplePay"}
PayRequests == {"CardRegist", "RequestPay"}

\* Threads, nonces and cards are interchangeable (safety runs only).
Interchangeable == Permutations(Workers) \cup Permutations(Nonces)
                     \cup Permutations(Tokens)

=============================================================================
