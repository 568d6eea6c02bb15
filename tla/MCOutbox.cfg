CONSTANTS
    c1 = c1
    c2 = c2
    c3 = c3
    k1 = k1
    k2 = k2
    Calls = {c1, c2, c3}
    Keys = {k1, k2}
    KeyOf <- SharedKey
    Worker = worker
    Admins = {admin}
    MaxAttempts = 2
    BatchSize = 2
    MaxStops = 1
    MaxCrashes = 0
    StoreMayFail = TRUE
SPECIFICATION Spec
SYMMETRY SameKey
CHECK_DEADLOCK FALSE
INVARIANTS
    NoLoss
    SoleWriter
PROPERTIES
    NoOvertake
