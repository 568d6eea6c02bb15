------------------------ MODULE FailoverAgentProofs -------------------------
(***************************************************************************)
(* What TLAPS proves of the connectivity monitor and of the sync worker it *)
(* wakes, for any thresholds.  The monitor's invariant is proved of the    *)
(* monitor alone, and holds in the composition because every step of       *)
(* FailoverAgent is a step of the monitor or leaves it alone.              *)
(***************************************************************************)
EXTENDS FailoverAgent, TLAPS

-----------------------------------------------------------------------------
(* The history of results, and what the streaks know of it.                  *)

LEMMA LongestBound ==
    /\ Longest \in Nat \ {0}
    /\ RecoveryThreshold <= Longest /\ FailureThreshold <= Longest
BY MonitorAssumption DEF Longest

LEMMA LatestType ==
    ASSUME NEW s \in Seq(BOOLEAN), Len(s) <= Longest, NEW b \in BOOLEAN
    PROVE  /\ Latest(Append(s, b)) \in Seq(BOOLEAN)
           /\ Len(Latest(Append(s, b))) <= Longest
<1> DEFINE t == Append(s, b)
<1>1. t \in Seq(BOOLEAN) /\ Len(t) = Len(s) + 1
  OBVIOUS
<1>2. Longest \in Nat \ {0} /\ Len(s) \in Nat
  BY LongestBound
<1>3. CASE Len(t) > Longest
  <2>1. t # <<>> /\ Latest(t) = Tail(t)
    BY <1>1, <1>2, <1>3 DEF Latest
  <2>2. Tail(t) \in Seq(BOOLEAN) /\ Len(Tail(t)) = Len(t) - 1
    BY <1>1, <2>1
  <2>3. QED
    BY <1>1, <1>2, <2>1, <2>2
<1>4. CASE ~(Len(t) > Longest)
  BY <1>1, <1>2, <1>4 DEF Latest
<1>5. QED
  BY <1>3, <1>4

\* The latest n results are v when the new one is, and the n - 1 before it.
LEMMA LatestLast ==
    ASSUME NEW s \in Seq(BOOLEAN), Len(s) <= Longest, NEW b \in BOOLEAN,
           NEW v \in BOOLEAN, NEW n \in 1..Longest
    PROVE  LastAre(Latest(Append(s, b)), n, v) <=> b = v /\ LastAre(s, n - 1, v)
<1> DEFINE t == Append(s, b)
           k == Len(s)
<1>0. k \in Nat /\ Longest \in Nat /\ n \in Nat /\ n >= 1
  BY LongestBound
<1>1. /\ t \in Seq(BOOLEAN) /\ Len(t) = k + 1 /\ t[k + 1] = b
      /\ \A i \in 1..k : t[i] = s[i]
  OBVIOUS
<1>2. LastAre(t, n, v) <=> b = v /\ LastAre(s, n - 1, v)
  <2>1. ASSUME LastAre(t, n, v) PROVE b = v /\ LastAre(s, n - 1, v)
    <3>1. k + 1 >= n /\ \A i \in (k + 1 - n + 1)..(k + 1) : t[i] = v
      BY <1>1, <2>1 DEF LastAre
    <3>2. b = v
      BY <1>0, <1>1, <3>1
    <3>3. \A i \in (k - (n - 1) + 1)..k : s[i] = v
      BY <1>0, <1>1, <3>1
    <3>4. QED
      BY <1>0, <3>1, <3>2, <3>3 DEF LastAre
  <2>2. ASSUME b = v, LastAre(s, n - 1, v) PROVE LastAre(t, n, v)
    <3>1. k >= n - 1 /\ \A i \in (k - (n - 1) + 1)..k : s[i] = v
      BY <2>2 DEF LastAre
    <3>2. \A i \in (k + 1 - n + 1)..(k + 1) : t[i] = v
      BY <1>0, <1>1, <2>2, <3>1
    <3>3. QED
      BY <1>0, <1>1, <3>1, <3>2 DEF LastAre
  <2>3. QED
    BY <2>1, <2>2
<1>3. CASE Len(t) <= Longest
  BY <1>0, <1>1, <1>2, <1>3 DEF Latest
<1>4. CASE Len(t) > Longest
  <2> DEFINE u == Tail(t)
  <2>1. /\ Latest(t) = u /\ k = Longest /\ n <= k
        /\ Len(u) = k /\ \A i \in 1..k : u[i] = t[i + 1]
    BY <1>0, <1>1, <1>4 DEF Latest
  <2>2. ASSUME LastAre(t, n, v) PROVE LastAre(u, n, v)
    <3>1. \A i \in (k + 1 - n + 1)..(k + 1) : t[i] = v
      BY <1>1, <2>2 DEF LastAre
    <3>2. \A i \in (k - n + 1)..k : u[i] = v
      BY <1>0, <2>1, <3>1
    <3>3. QED
      BY <1>0, <2>1, <3>2 DEF LastAre
  <2>3. ASSUME LastAre(u, n, v) PROVE LastAre(t, n, v)
    <3>1. \A i \in (k - n + 1)..k : u[i] = v
      BY <2>1, <2>3 DEF LastAre
    <3>2. \A i \in (k + 1 - n + 1)..(k + 1) : i - 1 \in (k - n + 1)..k /\ t[i] = u[i - 1]
      BY <1>0, <2>1
    <3>3. \A i \in (k + 1 - n + 1)..(k + 1) : t[i] = v
      BY <3>1, <3>2
    <3>4. QED
      BY <1>0, <1>1, <2>1, <3>3 DEF LastAre
  <2>4. QED
    BY <1>2, <2>1, <2>2, <2>3
<1>5. QED
  BY <1>0, <1>1, <1>3, <1>4

\* A streak counts the latest equal results, up to its threshold.
StreaksCount ==
    /\ \A n \in 1..RecoveryThreshold : LastAre(results, n, TRUE) <=> n <= okStreak
    /\ \A n \in 1..FailureThreshold : LastAre(results, n, FALSE) <=> n <= failStreak

LEMMA ApplyResultStreaks ==
    ASSUME TypeOK, StreaksCount, NEW ok \in BOOLEAN, NEW initial \in BOOLEAN,
           ApplyResult(ok, initial)
    PROVE  StreaksCount'
<1> USE MonitorAssumption, LongestBound DEF TypeOK
<1>1. results' = Latest(Append(results, ok))
  BY DEF ApplyResult
<1>2. ASSUME NEW n \in 1..RecoveryThreshold
      PROVE  LastAre(results', n, TRUE) <=> n <= okStreak'
  <2>0. n \in 1..Longest
    OBVIOUS
  <2>1. LastAre(results', n, TRUE) <=> ok = TRUE /\ LastAre(results, n - 1, TRUE)
    BY <1>1, <2>0, LatestLast
  <2>2. LastAre(results, n - 1, TRUE) <=> n - 1 <= okStreak
    <3>1. CASE n = 1
      BY <3>1 DEF LastAre
    <3>2. CASE n # 1
      <4>1. n - 1 \in 1..RecoveryThreshold
        BY <3>2
      <4>2. QED
        BY <4>1 DEF StreaksCount
    <3>3. QED
      BY <3>1, <3>2
  <2>3. CASE ok
    <3>1. okStreak' = Bump(okStreak, RecoveryThreshold)
      BY <2>3 DEF ApplyResult, OkAfter
    <3>2. n <= okStreak' <=> n - 1 <= okStreak
      BY <3>1 DEF Bump
    <3>3. QED
      BY <2>1, <2>2, <2>3, <3>2
  <2>4. CASE ~ok
    <3>1. okStreak' = 0
      BY <2>4 DEF ApplyResult, OkAfter
    <3>2. ~(n <= okStreak')
      BY <3>1
    <3>3. QED
      BY <2>1, <2>4, <3>2
  <2>5. QED
    BY <2>3, <2>4
<1>3. ASSUME NEW n \in 1..FailureThreshold
      PROVE  LastAre(results', n, FALSE) <=> n <= failStreak'
  <2>0. n \in 1..Longest
    OBVIOUS
  <2>1. LastAre(results', n, FALSE) <=> ok = FALSE /\ LastAre(results, n - 1, FALSE)
    BY <1>1, <2>0, LatestLast
  <2>2. LastAre(results, n - 1, FALSE) <=> n - 1 <= failStreak
    <3>1. CASE n = 1
      BY <3>1 DEF LastAre
    <3>2. CASE n # 1
      <4>1. n - 1 \in 1..FailureThreshold
        BY <3>2
      <4>2. QED
        BY <4>1 DEF StreaksCount
    <3>3. QED
      BY <3>1, <3>2
  <2>3. CASE ~ok
    <3>1. failStreak' = Bump(failStreak, FailureThreshold)
      BY <2>3 DEF ApplyResult, FailAfter
    <3>2. n <= failStreak' <=> n - 1 <= failStreak
      BY <3>1 DEF Bump
    <3>3. QED
      BY <2>1, <2>2, <2>3, <3>2
  <2>4. CASE ok
    <3>1. failStreak' = 0
      BY <2>4 DEF ApplyResult, FailAfter
    <3>2. ~(n <= failStreak')
      BY <3>1
    <3>3. QED
      BY <2>1, <2>4, <3>2
  <2>5. QED
    BY <2>3, <2>4
<1>4. QED
  BY <1>2, <1>3 DEF StreaksCount

-----------------------------------------------------------------------------
(* The monitor.                                                             *)

LEMMA NewStatusType ==
    ASSUME TypeOK, NEW ok \in BOOLEAN, NEW initial \in BOOLEAN
    PROVE  NewStatus(ok, initial) \in Status
BY DEF TypeOK, NewStatus, Status

LEMMA ApplyResultType ==
    ASSUME TypeOK, NEW ok \in BOOLEAN, NEW initial \in BOOLEAN,
           ApplyResult(ok, initial)
    PROVE  /\ okStreak' \in 0..RecoveryThreshold /\ failStreak' \in 0..FailureThreshold
           /\ status' \in Status /\ event' \in BOOLEAN
           /\ notices' \in Seq(Status) /\ Len(notices') <= MaxNotices
           /\ results' \in Seq(BOOLEAN) /\ Len(results') <= Longest
<1>1. /\ okStreak' \in 0..RecoveryThreshold /\ failStreak' \in 0..FailureThreshold
  BY MonitorAssumption DEF TypeOK, ApplyResult, OkAfter, FailAfter, Bump
<1>2. status' \in Status /\ event' \in BOOLEAN
  BY NewStatusType DEF TypeOK, ApplyResult, SetStatus
<1>3. notices' \in Seq(Status) /\ Len(notices') <= MaxNotices
  BY NewStatusType DEF TypeOK, ApplyResult, SetStatus
<1>4. results' \in Seq(BOOLEAN) /\ Len(results') <= Longest
  BY LatestType DEF TypeOK, ApplyResult
<1>5. QED
  BY <1>1, <1>2, <1>3, <1>4

\* The status a running monitor shows, in terms of the streaks.
StatusFollows ==
    /\ event = (status = "online")
    /\ life = "running" =>
         /\ okStreak = RecoveryThreshold => status = "online"
         /\ failStreak = FailureThreshold => status = "offline"

MonInv == TypeOK /\ StreaksCount /\ StatusFollows

\* The three ways a result decides the status.
LEMMA NewStatusCases ==
    ASSUME NEW ok, NEW initial \in BOOLEAN
    PROVE  /\ initial => NewStatus(ok, initial) = IF ok THEN "online" ELSE "offline"
           /\ ~initial /\ status # "online" /\ OkAfter(ok) >= RecoveryThreshold
                /\ ~(FailAfter(ok) >= FailureThreshold) => NewStatus(ok, initial) = "online"
           /\ ~initial /\ status # "offline" /\ FailAfter(ok) >= FailureThreshold
                /\ ~(OkAfter(ok) >= RecoveryThreshold) => NewStatus(ok, initial) = "offline"
           /\ ~initial /\ ~(FailAfter(ok) >= FailureThreshold) /\ status = "online"
                => NewStatus(ok, initial) = "online"
           /\ ~initial /\ ~(OkAfter(ok) >= RecoveryThreshold) /\ status = "offline"
                => NewStatus(ok, initial) = "offline"
BY Zenon DEF NewStatus

LEMMA ApplyResultFollows ==
    ASSUME MonInv, NEW ok \in BOOLEAN, NEW initial \in BOOLEAN,
           ApplyResult(ok, initial), life = "running" \/ initial
    PROVE  /\ event' = (status' = "online")
           /\ okStreak' = RecoveryThreshold => status' = "online"
           /\ failStreak' = FailureThreshold => status' = "offline"
<1>1. event' = (status' = "online")
  BY DEF MonInv, StatusFollows, ApplyResult, SetStatus
<1>2. /\ status' = NewStatus(ok, initial)
      /\ okStreak' = OkAfter(ok) /\ failStreak' = FailAfter(ok)
  BY DEF ApplyResult, SetStatus
<1>3. ASSUME okStreak' = RecoveryThreshold PROVE status' = "online"
  <2>1. ok /\ OkAfter(ok) >= RecoveryThreshold
    BY <1>2, <1>3, MonitorAssumption DEF OkAfter
  <2>2. ~(FailAfter(ok) >= FailureThreshold)
    BY <2>1, MonitorAssumption DEF FailAfter
  <2>3. QED
    BY <1>2, <2>1, <2>2, NewStatusCases
<1>4. ASSUME failStreak' = FailureThreshold PROVE status' = "offline"
  <2>1. ~ok /\ FailAfter(ok) >= FailureThreshold
    BY <1>2, <1>4, MonitorAssumption DEF FailAfter
  <2>2. ~(OkAfter(ok) >= RecoveryThreshold)
    BY <2>1, MonitorAssumption DEF OkAfter
  <2>3. QED
    BY <1>2, <2>1, <2>2, NewStatusCases
<1>5. QED
  BY <1>1, <1>3, <1>4

LEMMA InitMonInv == Init => MonInv
<1> SUFFICES ASSUME Init PROVE MonInv
  OBVIOUS
<1>1. TypeOK
  <2>1. /\ okStreak \in 0..RecoveryThreshold /\ failStreak \in 0..FailureThreshold
        /\ restarts \in 0..MaxRestarts
    BY MonitorAssumption DEF Init
  <2>2. /\ notices \in Seq(Status) /\ Len(notices) <= MaxNotices
        /\ results \in Seq(BOOLEAN) /\ Len(results) <= Longest
    BY MonitorAssumption, LongestBound DEF Init
  <2>3. QED
    BY <2>1, <2>2 DEF Init, TypeOK, Status
<1>2. StreaksCount
  BY MonitorAssumption DEF Init, StreaksCount, LastAre
<1>3. StatusFollows
  BY DEF Init, StatusFollows
<1>4. QED
  BY <1>1, <1>2, <1>3 DEF MonInv

LEMMA OutcomeType == TypeOK => Outcome \subseteq BOOLEAN
BY DEF TypeOK, Outcome

LEMMA NextMonInv == MonInv /\ [Next]_monVars => MonInv'
<1> SUFFICES ASSUME MonInv, [Next]_monVars PROVE MonInv'
  OBVIOUS
<1> USE DEF MonInv
<1>1. CASE CheckDone
  <2>1. PICK ok \in BOOLEAN : ApplyResult(ok, FALSE)
    BY <1>1, OutcomeType DEF CheckDone
  <2>2. TypeOK'
    BY <1>1, <2>1, ApplyResultType DEF CheckDone, TypeOK
  <2>3. StreaksCount'
    BY <2>1, ApplyResultStreaks
  <2>4. life' = life
    BY <1>1 DEF CheckDone
  <2>5. StatusFollows'
    <3>1. CASE life = "running"
      BY <2>1, <2>4, <3>1, ApplyResultFollows DEF StatusFollows
    <3>2. CASE life # "running"
      BY <2>1, <2>4, <3>2 DEF StatusFollows, ApplyResult, SetStatus
    <3>3. QED
      BY <3>1, <3>2
  <2>6. QED
    BY <2>2, <2>3, <2>5
<1>2. CASE StartDone
  <2>1. PICK ok \in BOOLEAN : ApplyResult(ok, TRUE)
    BY <1>2, OutcomeType DEF StartDone
  <2>2. TypeOK'
    BY <1>2, <2>1, ApplyResultType DEF StartDone, TypeOK
  <2>3. StreaksCount'
    BY <2>1, ApplyResultStreaks
  <2>4. StatusFollows'
    BY <2>1, ApplyResultFollows DEF StatusFollows
  <2>5. QED
    BY <2>2, <2>3, <2>4
<1>3. ASSUME UNCHANGED <<status, okStreak, failStreak, event, results>>,
             life' = life \/ life' # "running", TypeOK'
      PROVE  MonInv'
  BY <1>3 DEF StreaksCount, StatusFollows
<1>4. CASE WakeUp \/ Timeout
  BY <1>3, <1>4 DEF WakeUp, Timeout, NextCheck, monitorVars, TypeOK
<1>5. CASE ReportFailure
  BY <1>3, <1>5 DEF ReportFailure, monitorVars, TypeOK
<1>6. CASE StartBegins
  BY <1>3, <1>6 DEF StartBegins, monitorVars, TypeOK
<1>7. CASE Stop
  <2>1. restarts' \in 0..MaxRestarts
    BY <1>7, MonitorAssumption DEF Stop, TypeOK
  <2>2. notices' \in Seq(Status) /\ Len(notices') <= MaxNotices
    BY <1>7, MonitorAssumption DEF Stop
  <2>3. TypeOK'
    BY <1>7, <2>1, <2>2 DEF Stop, TypeOK
  <2>4. QED
    BY <1>3, <1>7, <2>3 DEF Stop
<1>8. CASE LinkChange
  BY <1>3, <1>8 DEF LinkChange, monitorVars, runVars, TypeOK
<1>9. CASE Notify
  <2>1. notices' \in Seq(Status) /\ Len(notices') <= MaxNotices
    BY <1>9, MonitorAssumption DEF Notify, TypeOK
  <2>2. QED
    BY <1>3, <1>9, <2>1 DEF Notify, runVars, TypeOK
<1>10. CASE UNCHANGED monVars
  BY <1>3, <1>10 DEF monVars, TypeOK
<1>11. QED
  BY <1>1, <1>2, <1>4, <1>5, <1>6, <1>7, <1>8, <1>9, <1>10 DEF Next, MonitorStep

-----------------------------------------------------------------------------
(* The composition: every step of the agent is a step of the monitor, or     *)
(* leaves it alone.                                                         *)

LEMMA AgentStepsMonitor == [AgentNext]_agentVars => [Next]_monVars
<1> SUFFICES ASSUME [AgentNext]_agentVars PROVE [Next]_monVars
  OBVIOUS
<1>1. CASE \/ MonCheckDone \/ MonWakeUp \/ MonTimeout \/ MonStartBegins
           \/ MonStartDone \/ MonStop \/ LinkMoves
  BY <1>1 DEF MonCheckDone, MonWakeUp, MonTimeout, MonStartBegins, MonStartDone,
              MonStop, LinkMoves, OwnStep, Next, MonitorStep
<1>2. CASE Listen
  BY <1>2 DEF Listen, Next
<1>3. CASE SubmitFailed \/ DrainDone
  BY <1>3 DEF SubmitFailed, DrainDone, Next, MonitorStep
<1>4. CASE \/ SubmitQueued \/ WorkerStart \/ WorkerStop \/ WorkerTop
           \/ WorkerWakes \/ WorkerPolls
  BY <1>4 DEF SubmitQueued, WorkerStart, WorkerStop, WorkerTop, WorkerWakes,
              WorkerPolls, WorkerNext
<1>5. CASE UNCHANGED agentVars
  BY <1>5 DEF agentVars
<1>6. QED
  BY <1>1, <1>2, <1>3, <1>4, <1>5 DEF AgentNext

\* The composition implements the monitor: whatever the worker and the callers
\* of submit() do, the monitor sees only its own operations.
THEOREM AgentImplementsMonitor == AgentSpec => MonSpec
<1>1. AgentInit => Init
  BY DEF AgentInit
<1>2. QED
  BY <1>1, AgentStepsMonitor, PTL DEF AgentSpec, MonSpec

LEMMA MonInvAlways == MonSpec => []MonInv
BY InitMonInv, NextMonInv, PTL DEF MonSpec

\* A flip outside start() is the work of CheckDone.
LEMMA FlipsAreEarned ==
    ASSUME MonInv, MonInv', [Next]_monVars, life = "running", status' # status
    PROVE  \/ status' = "online" /\ LastAre(results', RecoveryThreshold, TRUE)
           \/ status' = "offline" /\ LastAre(results', FailureThreshold, FALSE)
<1>1. CheckDone
  BY DEF Next, MonitorStep, WakeUp, Timeout, NextCheck, ReportFailure, StartBegins,
         StartDone, Stop, LinkChange, Notify, monitorVars, runVars, monVars
<1>2. PICK ok \in BOOLEAN : ApplyResult(ok, FALSE)
  BY <1>1, OutcomeType DEF CheckDone, MonInv
<1>3. status' = NewStatus(ok, FALSE)
  BY <1>2 DEF ApplyResult, SetStatus
<1>4. \/ status' = "online" /\ OkAfter(ok) >= RecoveryThreshold
      \/ status' = "offline" /\ FailAfter(ok) >= FailureThreshold
  BY <1>3 DEF NewStatus
<1>5. CASE status' = "online" /\ okStreak' >= RecoveryThreshold
  <2>1. RecoveryThreshold \in 1..RecoveryThreshold /\ RecoveryThreshold <= okStreak'
    BY <1>5, MonitorAssumption
  <2>2. QED
    BY <1>5, <2>1 DEF MonInv, StreaksCount
<1>6. CASE status' = "offline" /\ failStreak' >= FailureThreshold
  <2>1. FailureThreshold \in 1..FailureThreshold /\ FailureThreshold <= failStreak'
    BY <1>6, MonitorAssumption
  <2>2. QED
    BY <1>6, <2>1 DEF MonInv, StreaksCount
<1>7. QED
  BY <1>2, <1>4, <1>5, <1>6 DEF ApplyResult

\* The status of a running monitor is what hysteresis has seen, and outside
\* start() it flips only after as many equal results as the threshold says.
THEOREM StatusHasHysteresis == MonSpec => Hysteresis
<1>1. MonInv => StatusCurrent
  <2> SUFFICES ASSUME MonInv PROVE StatusCurrent
    OBVIOUS
  <2>1. /\ RecoveryThreshold \in 1..RecoveryThreshold
        /\ FailureThreshold \in 1..FailureThreshold
    BY MonitorAssumption
  <2>2. /\ LastAre(results, RecoveryThreshold, TRUE) => okStreak = RecoveryThreshold
        /\ LastAre(results, FailureThreshold, FALSE) => failStreak = FailureThreshold
    <3>1. okStreak \in 0..RecoveryThreshold /\ failStreak \in 0..FailureThreshold
      BY DEF MonInv, TypeOK
    <3>2. /\ LastAre(results, RecoveryThreshold, TRUE) => RecoveryThreshold <= okStreak
          /\ LastAre(results, FailureThreshold, FALSE) => FailureThreshold <= failStreak
      BY <2>1 DEF MonInv, StreaksCount
    <3>3. \A n \in Nat : \A k \in 0..n : n <= k => k = n
      OBVIOUS
    <3>4. QED
      BY <3>1, <3>2, <3>3, MonitorAssumption
  <2>3. QED
    BY <2>2 DEF MonInv, StatusFollows, StatusCurrent
<1>2. MonInv /\ MonInv' /\ [Next]_monVars =>
        [life = "running" /\ status' # status =>
             \/ status' = "online" /\ LastAre(results', RecoveryThreshold, TRUE)
             \/ status' = "offline" /\ LastAre(results', FailureThreshold, FALSE)]_monVars
  BY FlipsAreEarned
<1>3. QED
  BY <1>1, <1>2, MonInvAlways, PTL DEF MonSpec, Hysteresis

\* Nothing the sync worker does changes that.
COROLLARY AgentKeepsHysteresis == AgentSpec => Hysteresis
BY AgentImplementsMonitor, StatusHasHysteresis

-----------------------------------------------------------------------------
(* The worker.  Whoever owes it a drain has left it a wake-up: the trigger,  *)
(* or the notification that will set it.  That holds already during a drain, *)
(* which may end with the event it has not seen.                             *)

OnlineComing == \E i \in 1..Len(notices) : notices[i] = "online"

AgentInv ==
    /\ AgentTypeOK
    /\ listening <=> worker # "none"
    /\ owed => Online /\ worker # "none"
    /\ owed /\ worker \in {"drain", "wait"} => trigger \/ OnlineComing

LEMMA InitAgentInv == AgentInit => AgentInv
BY InitMonInv DEF AgentInit, MonInv, AgentInv, AgentTypeOK

\* A reconnection is announced, and what was announced stays so.
LEMMA OwnStepNotices ==
    ASSUME TypeOK,
           \/ CheckDone \/ WakeUp \/ Timeout \/ StartBegins \/ StartDone \/ LinkChange
    PROVE  /\ OnlineComing => OnlineComing'
           /\ Reconnects => OnlineComing'
<1> USE DEF TypeOK
<1>1. ASSUME NEW ok \in BOOLEAN, NEW initial \in BOOLEAN, ApplyResult(ok, initial)
      PROVE  /\ OnlineComing => OnlineComing'
             /\ Reconnects => OnlineComing'
  <2> DEFINE new == NewStatus(ok, initial)
  <2>0. new \in Status
    BY NewStatusType
  <2>1. CASE new = status
    BY <1>1, <2>1 DEF ApplyResult, SetStatus, OnlineComing, Reconnects, Online
  <2>2. CASE new # status
    <3>1. notices' = Append(notices, new) /\ status' = new
      BY <1>1, <2>2 DEF ApplyResult, SetStatus
    <3>2. /\ Len(notices') = Len(notices) + 1 /\ notices'[Len(notices) + 1] = new
          /\ \A i \in 1..Len(notices) : notices'[i] = notices[i]
      BY <2>0, <3>1
    <3>3. QED
      BY <3>1, <3>2 DEF OnlineComing, Reconnects, Online
  <2>3. QED
    BY <2>1, <2>2
<1>2. CASE CheckDone \/ StartDone
  BY <1>1, <1>2, OutcomeType DEF CheckDone, StartDone
<1>3. CASE WakeUp \/ Timeout \/ StartBegins \/ LinkChange
  BY <1>3 DEF WakeUp, Timeout, NextCheck, StartBegins, LinkChange, monitorVars,
              OnlineComing, Reconnects, Online
<1>4. QED
  BY <1>2, <1>3

LEMMA NextAgentInv == MonInv' /\ AgentInv /\ [AgentNext]_agentVars => AgentInv'
<1> SUFFICES ASSUME MonInv', AgentInv, [AgentNext]_agentVars PROVE AgentInv'
  OBVIOUS
<1> USE DEF AgentInv, AgentTypeOK
<1>0. TypeOK /\ TypeOK'
  BY DEF MonInv
<1>1. ASSUME ACTION S, OwnStep(S),
             S => \/ CheckDone \/ WakeUp \/ Timeout \/ StartBegins \/ StartDone
                  \/ LinkChange
      PROVE  AgentInv'
  <2>1. /\ OnlineComing => OnlineComing'
        /\ Reconnects => OnlineComing'
    BY <1>0, <1>1, OwnStepNotices DEF OwnStep
  <2>2. QED
    BY <1>0, <1>1, <2>1 DEF OwnStep, Online
<1>2. CASE \/ MonCheckDone \/ MonWakeUp \/ MonTimeout \/ MonStartBegins
           \/ MonStartDone \/ LinkMoves
  BY <1>1, <1>2 DEF MonCheckDone, MonWakeUp, MonTimeout, MonStartBegins,
                    MonStartDone, LinkMoves
<1>3. CASE MonStop
  BY <1>0, <1>3 DEF MonStop, OwnStep, Online, Reconnects
<1>4. CASE Listen
  <2>1. notices # <<>> /\ notices' = Tail(notices) /\ status' = status
    BY <1>4 DEF Listen, Notify
  <2>2. OnlineComing => Head(notices) = "online" \/ OnlineComing'
    <3>1. /\ notices \in Seq(Status) /\ Len(notices) > 0
          /\ Len(notices') = Len(notices) - 1
          /\ \A i \in 1..Len(notices') : notices'[i] = notices[i + 1]
      BY <1>0, <2>1 DEF TypeOK
    <3>2. ASSUME NEW i \in 1..Len(notices), notices[i] = "online", i # 1
          PROVE  i - 1 \in 1..Len(notices') /\ notices'[i - 1] = "online"
      BY <3>1, <3>2
    <3>3. QED
      BY <3>1, <3>2 DEF OnlineComing
  <2>3. QED
    BY <1>0, <1>4, <2>1, <2>2 DEF Listen, Online
<1>5. CASE SubmitQueued
  BY <1>0, <1>5 DEF SubmitQueued, Online, monVars
<1>6. CASE SubmitFailed
  BY <1>0, <1>6 DEF SubmitFailed, ReportFailure, Online, monitorVars
<1>7. CASE WorkerStart \/ WorkerStop \/ WorkerTop \/ WorkerWakes \/ WorkerPolls
  <2>1. CASE WorkerStart
    BY <1>0, <2>1 DEF WorkerStart, Online, monVars
  <2>2. CASE WorkerStop
    BY <1>0, <2>2 DEF WorkerStop, Online, monVars
  <2>3. CASE WorkerTop
    BY <1>0, <2>3 DEF WorkerTop, Online, monVars
  <2>4. CASE WorkerNext
    BY <1>0, <2>4 DEF WorkerNext, Online, monVars
  <2>5. QED
    BY <1>7, <2>1, <2>2, <2>3, <2>4 DEF WorkerWakes, WorkerPolls
<1>8. CASE DrainDone
  <2>1. UNCHANGED <<notices, status, trigger, listening>>
    BY <1>8 DEF DrainDone, ReportFailure, monitorVars, monVars
  <2>2. worker = "drain" /\ worker' = "wait" /\ owed' = (owed /\ backlog')
        /\ backlog' \in BOOLEAN
    BY <1>8 DEF DrainDone
  <2>3. OnlineComing' = OnlineComing /\ Online' = Online
    BY <2>1 DEF OnlineComing, Online
  <2>4. QED
    BY <1>0, <2>1, <2>2, <2>3
<1>9. CASE UNCHANGED agentVars
  BY <1>0, <1>9 DEF agentVars, workerVars, monVars, Online, OnlineComing
<1>10. QED
  BY <1>2, <1>3, <1>4, <1>5, <1>6, <1>7, <1>8, <1>9 DEF AgentNext

\* The worker never sleeps on unsent work without a reason to: neither the
\* notification's task, nor the clearing of the trigger, nor a drain under way
\* when the event came can lose the wake-up.
THEOREM WorkerIsWoken == AgentSpec => []NoSleepOnWork
<1>1. AgentSpec => []MonInv
  BY AgentImplementsMonitor, MonInvAlways, PTL
<1>2. AgentInv => NoSleepOnWork
  BY DEF AgentInv, NoSleepOnWork, OnlineComing
<1>3. QED
  BY <1>1, <1>2, InitAgentInv, NextAgentInv, PTL DEF AgentSpec

=============================================================================
