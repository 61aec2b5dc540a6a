SPECIFICATION Spec
CONSTANTS
    Psws = {p1, p2}
    MaxCalls = 5
    MaxFaults = 2
SYMMETRY Symmetry
INVARIANTS
    TypeOK
    WalletOpens
    KeyKept
    NeverLost
CHECK_DEADLOCK FALSE
