SPECIFICATION ServicesSpec
CONSTANTS
    p1 = p1  p2 = p2
    Providers = {p1, p2}  Configured = {p1, p2}  Chain <- ChainOfTwo
    Requests = {r1, r2}  Threshold = 2  Retries = 1

    Modules = {m1}  Failing = {m1}  MaxTriggers = 2  MaxPending = 4

    Callers = {c1, c2}  NumVersions = 2  MaxAttempts = 2
    FailureThreshold = 2  HalfOpenMax = 1  MaxLost = 1

    Senders = {s1, s2, s3}  MaxRetries = 1

    None = None  ann = ann  bob = bob  a = a  b = b
    EmailOf <- FirstEmails
    Users = {ann, bob}  Emails = {a, b}  FirstAdmins = {ann}
    HttpRequests = {h1, h2}  MaxTurns = 1

    UserIds = {u1, u2}  Passwords = {weak, good, better}  Weak = {weak}

    Nodes = {n1, n2}  Operators = {n1}  MaxOps = 3  MaxBreaks = 2

    db = db  auth = auth  web = web
    DependsOn <- Dependencies
    Guarded = {db, auth, web}  Tasks = {t1, t2}
    MaxAnomalies = 1  ProbeSuccesses = 1  MaxCancels = 1  MaxReleased = 1

    Window = 1  MaxRequests = 2  MaxBad = 1  Quarantine = 1  MaxQuarantine = 2
    Idle = 2  MaxStrikes = 2  MaxOpen = 2

    Calls = {k1, k2, k3}  MAX_CONCURRENT_EXECUTIONS_PER_TOOL = 1
    Required = {"n"}  Properties <- Schema  Arguments <- SomeArguments

    max_scan_depth = 2  Payloads <- SmallPayloads  Numbers = {"0"}  Odd = {"sup2"}

    MaxDeployments = 3  require_human_approval = FALSE

    Vectors <- Embeddings
    Namespaces = {u}  Ids = {i, j}  default_top_k = 2  MaxRecords = 2

    d1 = d1  d2 = d2
    Devices = {d1, d2}  Related <- RelatedDevices  MaxChanges = 3  MaxDeaths = 1

    Categories = {"soft", "hard"}  HARD_BLOCK_CATEGORIES = {"hard"}
    thresholds <- Thresholds
    Scores = {6, 8}  MaxHits = 2  check_output = TRUE
INVARIANTS
    TrialUnderWay
    RowsConsistent
    BanReaches
    Contained
    AdmittedWithinLimit
    AnonymizedWell
    FullIsSoaked
    AnswersBest
    PromisesKept
    ModeratedWell
PROPERTIES
    EveryCallEnds
    ImplementsCompletion
    RevivedOnlyByLateReply
CHECK_DEADLOCK FALSE
