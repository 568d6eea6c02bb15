SPECIFICATION FairSpec
CHECK_DEADLOCK FALSE
CONSTANTS
    c1 = c1  c2 = c2  t1 = t1  t2 = t2  svc = svc
    Service = svc  Bg = Bg  Nobody = Nobody
    Calls = {c1, c2}  Procs = {svc}  ProcOf <- OneProcess
    Targets = {t1, t2}  TargetOf <- OwnHost
    MaxAttempts = 2  MaxTroubles = 2
ACTION_CONSTRAINT FirstIsC1
INVARIANTS NoLoss
PROPERTIES FIFO DuplicatesExplained StoredSettles
