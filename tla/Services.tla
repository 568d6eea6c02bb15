------------------------------ MODULE Services ------------------------------
(***************************************************************************)
(* The backend's services side by side, each of them a module of its own.  *)
(* They share no state and call each other nowhere in the tree: the        *)
(* initial state picks a part, and only that part takes steps.             *)
(***************************************************************************)
EXTENDS AIGateway, Integers

CONSTANTS
    Modules, Failing, MaxTriggers, MaxPending,                      \* NexusBridge
    Callers, NumVersions, MaxAttempts, FailureThreshold, HalfOpenMax, MaxLost,
    Senders, MaxRetries,                                            \* ChatService
    None, Users, Emails, EmailOf, FirstAdmins, HttpRequests, MaxTurns, \* ApiTransactions
    UserIds, Passwords, Weak,                                       \* UserService
    Nodes, Operators, MaxOps, MaxBreaks,                            \* BlackholeSync
    Guarded, DependsOn, Tasks, MaxAnomalies, ProbeSuccesses, MaxCancels, MaxReleased,
    Window, MaxRequests, MaxBad, Quarantine, MaxQuarantine, Idle, MaxStrikes, MaxOpen,
    Calls, MAX_CONCURRENT_EXECUTIONS_PER_TOOL,                      \* Toolkit
    Properties, Required, Arguments,
    Namespaces, Ids, Vectors, default_top_k, MaxRecords,            \* VectorSearch
    Devices, Related, MaxChanges, MaxDeaths,                        \* DeviceBans
    Categories, HARD_BLOCK_CATEGORIES, thresholds, Scores, MaxHits, check_output,
    Payloads, max_scan_depth, Numbers, Odd,                         \* ComplianceGuard
    MaxDeployments, require_human_approval                          \* Deployment

VARIABLES
    part,
    handlers, wrapper, active, cooling, was_up, activation, starting, closing, stopping, pending,
    circuit, failure_count, half_open_calls, recovered, trials, token, fetching, negotiated,
    phase, tries, tried, known, lost,
    stored, idle, sending, retries, over, late,
    account, turns, tx,
    by_id, by_email, drawn, issued,
    local, key, op, listener, found, inbox, silent, ops, breaks,
    health, cooled, anomalies, probe_ok, calling, doing, cascade, seen, released, cancels,
    request_times, bad_times, quarantined, quarantine_strikes, open, admitted,
    tool, value, waiting, serving, result,
    payload, legal_basis, allowed, copy,
    step, latest, full, share, verdict, soaked,
    data, job, answer,
    bans, file, saves, replaced, promise, changes, deaths,
    screening, text, rules, heard

Nexus      == INSTANCE NexusBridge
Agents     == INSTANCE ExternalAgent
Chat       == INSTANCE ChatService
Api        == INSTANCE ApiTransactions WITH Requests <- HttpRequests
Accounts   == INSTANCE UserService
Blackhole  == INSTANCE BlackholeSync
Immune     == INSTANCE ImmuneSystem
Guard      == INSTANCE Sentinel
Tools      == INSTANCE Toolkit
Compliance == INSTANCE ComplianceGuard
Deploy     == INSTANCE Deployment
Search     == INSTANCE VectorSearch
Bans       == INSTANCE DeviceBans
Moderator  == INSTANCE Moderation WITH stage <- screening

nexusVars == <<handlers, wrapper, active, cooling, was_up, activation, starting, closing,
               stopping, pending>>
agentVars == <<circuit, failure_count, half_open_calls, recovered, trials, token, fetching,
               negotiated, phase, tries, tried, known, lost>>
chatVars == <<stored, idle, sending, retries, over, late>>
apiVars == <<account, turns, tx>>
accountVars == <<by_id, by_email, drawn, issued>>
holeVars == <<local, key, op, listener, found, inbox, silent, ops, breaks>>
immuneVars == <<health, cooled, anomalies, probe_ok, calling, doing, cascade, seen, released,
                cancels>>
sentinelVars == <<request_times, bad_times, quarantined, quarantine_strikes, open, admitted>>
toolVars == <<tool, value, waiting, serving, result>>
guardVars == <<payload, legal_basis, allowed, copy>>
deployVars == <<step, latest, full, share, verdict, soaked>>
searchVars == <<data, job, answer>>
banVars == <<bans, file, saves, replaced, promise, changes, deaths>>
modVars == <<screening, text, rules, heard>>

Parts == {"gateway", "nexus", "agents", "chat", "api", "accounts", "blackhole", "immune",
          "sentinel", "toolkit", "compliance", "deployment", "search", "bans", "moderation"}

ServicesInit ==
    /\ part \in Parts
    /\ Init /\ Nexus!Init /\ Agents!Init /\ Chat!Init /\ Api!Init /\ Accounts!Init
    /\ Blackhole!Init /\ Immune!Init /\ Guard!Init /\ Tools!Init /\ Deploy!Init
    /\ Search!Init /\ Bans!Init
    /\ IF part = "moderation" THEN Moderator!Init
       ELSE /\ screening = "screen" /\ text = "prompt"
            /\ rules = Moderator!Nothing({}) /\ heard = Moderator!Nothing(<<>>)
    /\ IF part = "compliance" THEN Compliance!Init
       ELSE payload = <<>> /\ legal_basis = FALSE /\ allowed = "unknown" /\ copy = <<>>

ServicesNext ==
    /\ \/ part = "gateway" /\ Next
       \/ part = "nexus" /\ Nexus!Next
       \/ part = "agents" /\ Agents!Next
       \/ part = "chat" /\ Chat!Next
       \/ part = "api" /\ Api!Next
       \/ part = "accounts" /\ Accounts!Next
       \/ part = "blackhole" /\ Blackhole!Next
       \/ part = "immune" /\ Immune!Next
       \/ part = "sentinel" /\ Guard!Next
       \/ part = "toolkit" /\ Tools!Next
       \/ part = "compliance" /\ Compliance!evaluate
       \/ part = "deployment" /\ Deploy!Next
       \/ part = "search" /\ Search!Next
       \/ part = "bans" /\ Bans!Next
       \/ part = "moderation" /\ Moderator!Next
    /\ UNCHANGED part
    /\ IF part = "gateway" THEN TRUE ELSE UNCHANGED vars
    /\ IF part = "nexus" THEN TRUE ELSE UNCHANGED nexusVars
    /\ IF part = "agents" THEN TRUE ELSE UNCHANGED agentVars
    /\ IF part = "chat" THEN TRUE ELSE UNCHANGED chatVars
    /\ IF part = "api" THEN TRUE ELSE UNCHANGED apiVars
    /\ IF part = "accounts" THEN TRUE ELSE UNCHANGED accountVars
    /\ IF part = "blackhole" THEN TRUE ELSE UNCHANGED holeVars
    /\ IF part = "immune" THEN TRUE ELSE UNCHANGED immuneVars
    /\ IF part = "sentinel" THEN TRUE ELSE UNCHANGED sentinelVars
    /\ IF part = "toolkit" THEN TRUE ELSE UNCHANGED toolVars
    /\ IF part = "compliance" THEN TRUE ELSE UNCHANGED guardVars
    /\ IF part = "deployment" THEN TRUE ELSE UNCHANGED deployVars
    /\ IF part = "search" THEN TRUE ELSE UNCHANGED searchVars
    /\ IF part = "bans" THEN TRUE ELSE UNCHANGED banVars
    /\ IF part = "moderation" THEN TRUE ELSE UNCHANGED modVars

allVars ==
    <<part, vars, nexusVars, agentVars, chatVars, apiVars, accountVars, holeVars,
      immuneVars, sentinelVars, toolVars, guardVars,
      deployVars, searchVars, banVars, modVars>>
\* A part that does not step has nothing to be fair about: what its fairness speaks
\* of is not enabled in its initial state.
ServicesSpec ==
    ServicesInit /\ [][ServicesNext]_allVars /\ Fairness /\ Nexus!Fairness /\ Tools!Fairness

-----------------------------------------------------------------------------
(* The properties of the parts, under names of this module; each is stated  *)
(* and explained in its own.                                                *)

\* Every variable of the part that steps keeps its type.
ServicesTypeOK ==
    CASE part = "gateway"    -> TypeOK
      [] part = "nexus"      -> Nexus!TypeOK
      [] part = "agents"     -> Agents!TypeOK
      [] part = "chat"       -> Chat!TypeOK
      [] part = "api"        -> Api!TypeOK
      [] part = "accounts"   -> Accounts!TypeOK
      [] part = "blackhole"  -> Blackhole!TypeOK
      [] part = "immune"     -> Immune!TypeOK
      [] part = "sentinel"   -> Guard!TypeOK
      [] part = "toolkit"    -> Tools!TypeOK
      [] part = "compliance" -> Compliance!TypeOK
      [] part = "deployment" -> Deploy!TypeOK
      [] part = "search"     -> Search!TypeOK
      [] part = "bans"       -> Bans!TypeOK
      [] part = "moderation" -> Moderator!TypeOK

\* A half-open breaker at capacity waits for trials that will report.
TrialUnderWay == Agents!TrialUnderWay
\* A cleared chat session returns only through a reply under way when it was cleared.
RevivedOnlyByLateReply == Chat!RevivedOnlyByLateReply
\* Emails stay unique and questions have answers, however requests interleave; the
\* two dictionaries of the in-memory repository of accounts agree.
RowsConsistent == Api!RowsConsistent /\ Accounts!IndexAgrees
\* A ban in Redis is applied by every node that listens and has caught up.
BanReaches == Blackhole!BanReaches
\* What depends on a module that is not healthy is quarantined.
Contained == Immune!Contained
\* No window sees more requests of a client let through than the limit.
AdmittedWithinLimit == Guard!AdmittedWithinLimit
\* The anonymized copy holds no personal data the scan reached, and all else.
AnonymizedWell == Compliance!AnonymizedWell
\* Traffic moves to a revision only after it was observed.
FullIsSoaked == Deploy!FullIsSoaked
\* A query is answered with the most similar records of its namespace.
AnswersBest == ServicesTypeOK /\ Search!AnswersBest
\* What ban() and unban() of a device have promised survives saves and restarts.
PromisesKept == Bans!PromisesKept
\* Nothing objectionable passes moderation, and nothing else is stopped.
ModeratedWell == Moderator!ModeratedWell
\* Activations and shutdowns of the bridge end although a module's handlers raise,
\* and every call of a tool that was let in returns.
EveryCallEnds == Nexus!Completes /\ Tools!CallsReturn
=============================================================================
