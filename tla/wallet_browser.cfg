SPECIFICATION Spec
CONSTANTS
    k1 = k1  k2 = k2  u = u  s1 = s1  s2 = s2  p1 = p1  p2 = p2  d1 = d1  d2 = d2
    Keys = {k1, k2}
    Psws = {s1, s2}
    PukSize = 2
    HmacSize = 1
    SaltSize = 1
    Pages = {p1, p2}
    Devices = {d1, d2}
    Ids = {u}
    MaxRequests = 2
    Closed = Closed
SYMMETRY Interchangeable
INVARIANTS TypeOK SignatureVerifies WalletConsistent
PROPERTIES KeepsWallets
CHECK_DEADLOCK FALSE
