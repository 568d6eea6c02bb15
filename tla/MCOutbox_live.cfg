CONSTANTS
    c1 = c1
    c2 = c2
    c3 = c3
    k1 = k1
    k2 = k2
    Calls = {c1, c2}
    Keys = {k1, k2}
    KeyOf <- OwnKeys
    Worker = worker
    Admins = {admin}
    MaxAttempts = 2
    BatchSize = 2
    MaxStops = 0
    MaxCrashes = 1
    StoreMayFail = FALSE
SPECIFICATION FairSpec
CHECK_DEADLOCK FALSE
INVARIANTS
    InFlightOwned
PROPERTIES
    DrainFIFO
    QueuedSettles
