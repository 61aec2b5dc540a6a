SPECIFICATION Spec
CONSTANTS
    Psws = {p1, p2}
    NoPsw = none
    MaxCalls = 2
    MaxFaults = 2
SYMMETRY Symmetry
INVARIANTS
    TypeOK
    WalletOpens
    UpdateKeepsWallet
    PasswordCleared
PROPERTIES
    CreatedAsAsked
CHECK_DEADLOCK FALSE
