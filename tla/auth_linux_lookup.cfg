SPECIFICATION Spec
CONSTANTS
    a = a  b = b  p = p  q = q  w1 = w1  w2 = w2
    Ids = {a, b}
    Psws = {p, q}
    Workers = {w1}
    Platform = "linux"
    NoFile = NoFile
    Faults = {}
    MaxWrites = 2
    MaxRemovals = 0
    MaxNonces = 2
    MaxCrashes = 0
INVARIANTS RegisteredFound
CHECK_DEADLOCK FALSE
