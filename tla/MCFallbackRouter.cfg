SPECIFICATION FairSpec
CONSTANTS
    Clients = {a, b}
    NumCaches = 2  Threshold = 2  MaxWrites = 2  MaxRaises = 1
INVARIANTS BreakerCoherent OneTrial
PROPERTIES Recovers
