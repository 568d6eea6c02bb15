--------------------------- MODULE NetworkMonitor ---------------------------
(***************************************************************************)
(* The connectivity monitor backend/app/services/network_monitor.py: a     *)
(* periodic check of a few TCP endpoints, a status with hysteresis, and a  *)
(* notification of every change of it.                                     *)
(*                                                                         *)
(* Concurrency.  One asyncio loop: an action is the code between two       *)
(* awaits.  The task awaits its probes ("check") and its wake-up ("wait"); *)
(* each notification is a task of its own, run in the order of creation.   *)
(*                                                                         *)
(* Abstractions.  The link is up when any probe can succeed; a check whose *)
(* link changed meanwhile may see either.  Intervals are not kept.         *)
(***************************************************************************)
EXTENDS Naturals, Sequences

CONSTANTS
    FailureThreshold,   \* MonitorConfig.failure_threshold
    RecoveryThreshold,  \* MonitorConfig.recovery_threshold
    MaxNotices,         \* bound: notifications waiting to run
    MaxRestarts         \* bound: how often stop() is called

ASSUME MonitorAssumption ==
    /\ FailureThreshold \in Nat \ {0}
    /\ RecoveryThreshold \in Nat \ {0}
    /\ MaxNotices \in Nat \ {0}
    /\ MaxRestarts \in Nat

VARIABLES
    link,       \* whether a probe can succeed
    flapped,    \* the link changed while the current check was under way
    status,     \* _status
    okStreak, failStreak,
    event,      \* _online_event
    wake,       \* _wake
    life,       \* where the owner stands: stopped, in start(), running
    task,       \* the task of _run
    notices,    \* _notify_tasks: the new status each will report
    asked,      \* history: report_failure() was called and no check began since
    results,    \* history: the latest results, oldest first
    restarts    \* bound

monitorVars == <<status, okStreak, failStreak, event, notices, results>>
runVars == <<wake, life, task, asked, restarts>>
monVars == <<link, flapped, status, okStreak, failStreak, event, wake, life,
             task, notices, asked, results, restarts>>

Status == {"online", "offline", "unknown"}
Longest == IF FailureThreshold > RecoveryThreshold
           THEN FailureThreshold ELSE RecoveryThreshold

TypeOK ==
    /\ link \in BOOLEAN /\ flapped \in BOOLEAN
    /\ status \in Status
    /\ okStreak \in 0..RecoveryThreshold
    /\ failStreak \in 0..FailureThreshold
    /\ event \in BOOLEAN /\ wake \in BOOLEAN /\ asked \in BOOLEAN
    /\ life \in {"stopped", "starting", "running"}
    /\ task \in {"none", "check", "wait"}
    /\ notices \in Seq(Status) /\ Len(notices) <= MaxNotices
    /\ results \in Seq(BOOLEAN) /\ Len(results) <= Longest
    /\ restarts \in 0..MaxRestarts

Init ==
    /\ link \in BOOLEAN /\ flapped = FALSE
    /\ status = "unknown"
    /\ okStreak = 0 /\ failStreak = 0
    /\ event = FALSE /\ wake = FALSE /\ asked = FALSE
    /\ life = "stopped" /\ task = "none"
    /\ notices = <<>> /\ results = <<>>
    /\ restarts = 0

-----------------------------------------------------------------------------
(* check_once() and _apply_result().                                        *)

Outcome == IF flapped THEN BOOLEAN ELSE {link}

\* Streaks are only compared with their thresholds, so they stop there.
Bump(n, threshold) == IF n < threshold THEN n + 1 ELSE n
\* Slip: a failure does not reset the streak.
OkAfterKept(ok) == IF ok THEN Bump(okStreak, RecoveryThreshold) ELSE okStreak
OkAfter(ok) == IF ok THEN Bump(okStreak, RecoveryThreshold) ELSE 0
FailAfter(ok) == IF ok THEN 0 ELSE Bump(failStreak, FailureThreshold)

\* Slip: only the unknown status can become online.
NewStatusOnce(ok, initial) ==
    CASE initial -> IF ok THEN "online" ELSE "offline"
      [] ~initial /\ status = "unknown" /\ OkAfter(ok) >= RecoveryThreshold -> "online"
      [] ~initial /\ status # "offline" /\ FailAfter(ok) >= FailureThreshold -> "offline"
      [] OTHER -> status
NewStatus(ok, initial) ==
    CASE initial -> IF ok THEN "online" ELSE "offline"
      [] ~initial /\ status # "online" /\ OkAfter(ok) >= RecoveryThreshold -> "online"
      [] ~initial /\ status # "offline" /\ FailAfter(ok) >= FailureThreshold -> "offline"
      [] OTHER -> status

Latest(s) == IF Len(s) > Longest THEN Tail(s) ELSE s

SetStatus(new) ==
    /\ status' = new
    /\ event' = IF new = status THEN event ELSE new = "online"
    /\ notices' = IF new = status THEN notices ELSE Append(notices, new)
    /\ Len(notices') <= MaxNotices

ApplyResult(ok, initial) ==
    /\ okStreak' = OkAfter(ok)
    /\ failStreak' = FailAfter(ok)
    /\ SetStatus(NewStatus(ok, initial))
    /\ results' = Latest(Append(results, ok))

-----------------------------------------------------------------------------
(* The task, start() and stop().                                            *)

\* Slip: the event is cleared before the wait instead of after it.
CheckDoneClears ==
    /\ task = "check"
    /\ \E ok \in Outcome : ApplyResult(ok, FALSE)
    /\ task' = "wait" /\ wake' = FALSE
    /\ UNCHANGED <<link, flapped, life, asked, restarts>>
CheckDone ==
    /\ task = "check"
    /\ \E ok \in Outcome : ApplyResult(ok, FALSE)
    /\ task' = "wait"
    /\ UNCHANGED <<link, flapped, wake, life, asked, restarts>>

\* The wait ends by a report or by its timeout; the event is cleared and the
\* loop checks again.
NextCheck ==
    /\ task = "wait"
    /\ task' = "check"
    /\ wake' = FALSE /\ asked' = FALSE /\ flapped' = FALSE
    /\ UNCHANGED <<link, monitorVars, life, restarts>>

WakeUp == wake /\ NextCheck
Timeout == NextCheck

ReportFailure ==
    /\ wake' = TRUE
    /\ asked' = (task # "none")
    /\ UNCHANGED <<link, flapped, monitorVars, life, task, restarts>>

StartBegins ==
    /\ life = "stopped"
    /\ life' = "starting"
    /\ flapped' = FALSE
    /\ UNCHANGED <<link, monitorVars, wake, task, asked, restarts>>

StartDone ==
    /\ life = "starting"
    /\ \E ok \in Outcome : ApplyResult(ok, TRUE)
    /\ life' = "running" /\ task' = "check" /\ flapped' = FALSE
    /\ UNCHANGED <<link, wake, asked, restarts>>

\* The task and every notification still waiting are cancelled.
Stop ==
    /\ life = "running" /\ restarts < MaxRestarts
    /\ restarts' = restarts + 1
    /\ life' = "stopped" /\ task' = "none"
    /\ wake' = TRUE /\ asked' = FALSE
    /\ notices' = <<>>
    /\ UNCHANGED <<link, flapped, status, okStreak, failStreak, event, results>>

LinkChange ==
    /\ link' = ~link
    /\ flapped' = TRUE
    /\ UNCHANGED <<monitorVars, runVars>>

\* A notification runs: what the listener does with it is the listener's.
Notify ==
    /\ notices # <<>>
    /\ notices' = Tail(notices)
    /\ UNCHANGED <<link, flapped, status, okStreak, failStreak, event, results, runVars>>

MonitorStep ==
    \/ CheckDone \/ WakeUp \/ Timeout \/ ReportFailure
    \/ StartBegins \/ StartDone \/ Stop \/ LinkChange

Next == MonitorStep \/ Notify

MonSpec == Init /\ [][Next]_monVars

-----------------------------------------------------------------------------
(* Properties.                                                              *)

LastAre(s, n, ok) ==
    Len(s) >= n /\ \A i \in (Len(s) - n + 1)..Len(s) : s[i] = ok

\* The status is never behind what hysteresis has seen, and whoever waits for
\* the online event is let through exactly while the monitor says online.
StatusCurrent ==
    /\ event = (status = "online")
    /\ life = "running" =>
         /\ LastAre(results, RecoveryThreshold, TRUE) => status = "online"
         /\ LastAre(results, FailureThreshold, FALSE) => status = "offline"

\* Hysteresis: outside start() the status flips only after as many equal
\* results in a row as the threshold says, and then it does, whatever restarts
\* and flaps came before; one bad check never flips it.
Hysteresis ==
    /\ []StatusCurrent
    /\ [][life = "running" /\ status' # status =>
             \/ status' = "online" /\ LastAre(results', RecoveryThreshold, TRUE)
             \/ status' = "offline" /\ LastAre(results', FailureThreshold, FALSE)]_monVars

\* A reported failure leads to a check that began after it, however the report
\* races the end of the previous wait, and without help from the timer.
ReportRechecks == asked ~> (~asked \/ task = "none")

\* The monitor finds out: as long as checks keep being made, a link that stays
\* up (down) is reported online (offline) for good, whatever flapping, reports
\* and restarts came before.
FindsOut ==
    []<>(task = "check") =>
      /\ <>[](link /\ life = "running") => <>[](status = "online")
      /\ <>[](~link /\ life = "running") => <>[](status = "offline")

=============================================================================
