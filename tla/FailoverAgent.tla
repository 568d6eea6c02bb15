--------------------------- MODULE FailoverAgent ----------------------------
(***************************************************************************)
(* The sync worker of backend/app/services/sync_manager.py composed with   *)
(* the connectivity monitor: who wakes the worker, and when.  Outbox       *)
(* models what a drain does and abstracts the wake-ups; this module keeps  *)
(* the wake-ups and abstracts a drain to what it leaves: an empty outbox,  *)
(* or a failure that is reported to the monitor.                           *)
(***************************************************************************)
EXTENDS NetworkMonitor

VARIABLES
    worker,     \* the task of SyncManager._run
    trigger,    \* its _trigger event
    listening,  \* _on_status_change is registered with the monitor
    backlog,    \* the outbox has pending rows
    owed        \* history: a reconnection, or a submit(), the worker must react to

workerVars == <<worker, trigger, listening, backlog, owed>>
agentVars == <<monVars, workerVars>>

AgentTypeOK ==
    /\ TypeOK
    /\ worker \in {"none", "top", "drain", "wait"}
    /\ trigger \in BOOLEAN /\ listening \in BOOLEAN
    /\ backlog \in BOOLEAN /\ owed \in BOOLEAN

AgentInit ==
    /\ Init
    /\ worker = "none" /\ trigger = FALSE /\ listening = FALSE
    /\ backlog \in BOOLEAN /\ owed = FALSE

Online == status = "online"

-----------------------------------------------------------------------------
(* The monitor's own steps.  The application stops the sync manager before   *)
(* the monitor, and starts it after.                                         *)

Reconnects == ~Online /\ status' = "online"

\* A step of the monitor: it owes the worker a drain when the link comes back.
OwnStep(Step) ==
    /\ Step
    /\ owed' = (status' = "online" /\ (owed \/ (Reconnects /\ backlog /\ listening)))
    /\ UNCHANGED <<worker, trigger, listening, backlog>>

MonCheckDone == OwnStep(CheckDone)
MonWakeUp == OwnStep(WakeUp)
MonTimeout == OwnStep(Timeout)
MonStartBegins == OwnStep(StartBegins)
MonStartDone == OwnStep(StartDone)
MonStop == worker = "none" /\ OwnStep(Stop)
LinkMoves == OwnStep(LinkChange)

\* _on_status_change: coming online sets the trigger.
\* Slip: the listener reacts to the wrong status.
ListenOffline ==
    /\ Notify
    /\ trigger' = (trigger \/ (listening /\ Head(notices) = "offline"))
    /\ UNCHANGED <<worker, listening, backlog, owed>>
Listen ==
    /\ Notify
    /\ trigger' = (trigger \/ (listening /\ Head(notices) = "online"))
    /\ UNCHANGED <<worker, listening, backlog, owed>>

-----------------------------------------------------------------------------
(* SyncManager.                                                             *)

\* submit() queues the request and wakes the worker.
SubmitQueued ==
    /\ backlog' = TRUE
    /\ trigger' = TRUE
    /\ owed' = (Online /\ worker # "none")
    /\ UNCHANGED <<monVars, worker, listening>>

\* submit() tried the cloud first and failed: it reports the failure too.
SubmitFailed ==
    /\ Online
    /\ ReportFailure
    /\ backlog' = TRUE
    /\ trigger' = TRUE
    /\ owed' = (worker # "none")
    /\ UNCHANGED <<worker, listening>>

WorkerStart ==
    /\ life = "running" /\ worker = "none"
    /\ worker' = "top" /\ listening' = TRUE /\ trigger' = TRUE
    /\ UNCHANGED <<monVars, backlog, owed>>

WorkerStop ==
    /\ worker # "none"
    /\ worker' = "none" /\ listening' = FALSE /\ trigger' = TRUE
    /\ owed' = FALSE
    /\ UNCHANGED <<monVars, backlog>>

\* The top of the loop: drain when online, else wait.
WorkerTop ==
    /\ worker = "top"
    /\ worker' = IF Online THEN "drain" ELSE "wait"
    /\ owed' = (owed /\ ~Online)
    /\ UNCHANGED <<monVars, trigger, listening, backlog>>

\* Slip: the trigger is cleared after the drain, not after the wait.
DrainDoneClears ==
    /\ worker = "drain"
    /\ worker' = "wait" /\ trigger' = FALSE
    /\ \/ backlog' = FALSE /\ UNCHANGED monVars
       \/ backlog /\ ReportFailure /\ UNCHANGED backlog
       \/ backlog /\ UNCHANGED <<backlog, monVars>>
    /\ owed' = (owed /\ backlog')
    /\ UNCHANGED listening
\* drain() peeked an empty outbox, or gave up: a transient failure is reported,
\* a store error, a back-off or the loss of the link is not.
DrainDone ==
    /\ worker = "drain"
    /\ worker' = "wait"
    /\ \/ backlog' = FALSE /\ UNCHANGED monVars
       \/ backlog /\ ReportFailure /\ UNCHANGED backlog
       \/ backlog /\ UNCHANGED <<backlog, monVars>>
    /\ owed' = (owed /\ backlog')
    /\ UNCHANGED <<trigger, listening>>

WorkerNext ==
    /\ worker = "wait"
    /\ worker' = "top"
    /\ trigger' = FALSE
    /\ UNCHANGED <<monVars, listening, backlog, owed>>

WorkerWakes == trigger /\ WorkerNext
WorkerPolls == WorkerNext

AgentNext ==
    \/ MonCheckDone \/ MonWakeUp \/ MonTimeout
    \/ MonStartBegins \/ MonStartDone \/ MonStop \/ LinkMoves \/ Listen
    \/ SubmitQueued \/ SubmitFailed
    \/ WorkerStart \/ WorkerStop \/ WorkerTop \/ DrainDone
    \/ WorkerWakes \/ WorkerPolls

\* Ready tasks run and the application starts the monitor; neither the monitor's
\* interval nor the worker's poll is relied on.
AgentFairness ==
    /\ WF_agentVars(MonCheckDone) /\ WF_agentVars(MonWakeUp)
    /\ WF_agentVars(MonStartBegins) /\ WF_agentVars(MonStartDone)
    /\ WF_agentVars(Listen)
    /\ WF_agentVars(WorkerTop) /\ WF_agentVars(DrainDone)
    /\ WF_agentVars(WorkerWakes)

AgentSpec == AgentInit /\ [][AgentNext]_agentVars /\ AgentFairness

-----------------------------------------------------------------------------
(* Properties.                                                              *)

\* A reconnection with requests in the outbox, and a request queued while
\* online, make the worker start a drain although it never polls: neither the
\* listener's task, nor the clearing of the trigger, nor a drain under way when
\* the request came can lose the wake-up.
PromptDrain == owed ~> ~owed

\* The worker sleeps on unsent work only with a reason to: it was told to wake,
\* a notification is on its way, or it has tried since the last event.
NoSleepOnWork ==
    /\ AgentTypeOK
    /\ worker = "wait" /\ owed => trigger \/ \E i \in 1..Len(notices) : notices[i] = "online"

=============================================================================
