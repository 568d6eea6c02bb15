SPECIFICATION Spec
CONSTANTS
    c1 = c1  c2 = c2  t1 = t1  t2 = t2  svc = svc
    Service = svc  Bg = Bg  Nobody = Nobody
    Calls = {c1}  Procs = {svc}  ProcOf <- OneProcess
    Targets = {t1, t2}  TargetOf <- OwnHost
    MaxAttempts = 2  MaxTroubles = 1
INVARIANTS BackgroundRuns
