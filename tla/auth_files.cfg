SPECIFICATION Spec
CONSTANTS
    a = a  b = b  p = p  q = q  w1 = w1  w2 = w2
    Ids = {a, b}
    Psws = {p, q}
    Workers = {w1, w2}
    Platform = "windows"
    NoFile = NoFile
    Faults = {"delete", "rename"}
    MaxWrites = 2
    MaxRemovals = 2
    MaxNonces = 2
    MaxCrashes = 1
SYMMETRY Interchangeable
INVARIANTS TypeOK LoginOnce FoundUntilRewritten
PROPERTIES LoginSound KeepsRegistry
CHECK_DEADLOCK FALSE
