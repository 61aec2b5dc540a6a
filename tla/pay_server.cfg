CONSTANTS
  Nil = Nil
  m1 = m1  m2 = m2  t1 = t1  t2 = t2  k1 = k1  k2 = k2  c1 = c1  c2 = c2
  w1 = w1  w2 = w2  n1 = n1  n2 = n2  n3 = n3  o1 = o1  o2 = o2
  Members = {m1}
  Tokens = {t1}
  Keys = {k1, k2}
  Nicks = {c1}
  Workers = {w1, w2}
  Nonces = {n1, n2}
  Orders = {o1}
  Requests <- AllRequests
  Faults = {"db"}
  MaxDeliver = 2
  MaxCrashes = 1
SPECIFICATION Spec
SYMMETRY Interchangeable
INVARIANTS TypeOK InUseBillable KeyProvenance ConsumedNonceGone ChargedAfterConsumed Settled
PROPERTIES StatusSettles
