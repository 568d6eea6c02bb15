------------------------ MODULE FallbackRouterProofs ------------------------
(***************************************************************************)
(* What TLAPS proves of FallbackRouter for any number of threads and       *)
(* caches, any failure threshold and any number of writes.                 *)
(***************************************************************************)
EXTENDS FallbackRouter, TLAPS

-----------------------------------------------------------------------------
(* The breaker, whoever calls it.                                           *)

LEMMA BumpedRange ==
    ASSUME TypeOK
    PROVE  /\ Bumped \in 1..Threshold
           /\ failures < Threshold => Bumped = failures + 1
BY RouterAssumption DEF TypeOK, Bumped

\* A report keeps the types, leaves no half-open breaker and keeps the
\* breaker's two variables in agreement.
LEMMA ReportKeeps ==
    ASSUME TypeOK, BreakerCoherent, record_success \/ record_failure
    PROVE  /\ state' \in {"closed", "open"}
           /\ failures' \in 0..Threshold
           /\ elapsed' \in BOOLEAN
           /\ trial' \in SUBSET Clients
           /\ BreakerCoherent'
<1>1. CASE record_success
  BY <1>1, RouterAssumption DEF TypeOK, record_success, BreakerCoherent
<1>2. CASE record_failure
  <2>1. CASE state = "half_open" \/ Bumped >= Threshold
    <3>1. failures >= Threshold \/ Bumped >= Threshold
      BY <2>1, RouterAssumption DEF TypeOK, BreakerCoherent
    <3>2. Bumped = Threshold
      BY <3>1, BumpedRange, RouterAssumption DEF TypeOK, Bumped
    <3>3. state' = "open" /\ elapsed' = FALSE /\ trial' = {}
      BY <1>2, <2>1 DEF record_failure
    <3>4. failures' = Threshold /\ ~(failures' < Threshold)
      BY <1>2, <3>2, RouterAssumption DEF record_failure
    <3>5. BreakerCoherent'
      BY <3>3, <3>4 DEF BreakerCoherent
    <3>6. failures' \in 0..Threshold
      BY <3>4, RouterAssumption
    <3>7. elapsed' \in BOOLEAN /\ trial' \in SUBSET Clients
      BY <3>3, Zenon
    <3>8. QED
      BY <3>3, <3>5, <3>6, <3>7, Zenon
  <2>2. CASE ~(state = "half_open" \/ Bumped >= Threshold)
    <3>1. failures < Threshold /\ Bumped < Threshold
      BY <2>2, RouterAssumption DEF TypeOK, Bumped
    <3>2. state = "closed"
      BY <3>1 DEF BreakerCoherent
    <3>3. QED
      BY <1>2, <2>2, <3>1, <3>2, BumpedRange, RouterAssumption
      DEF TypeOK, record_failure, BreakerCoherent
  <2>3. QED
    BY <2>1, <2>2
<1>3. QED
  BY <1>1, <1>2

\* Only a report, a trial and the time-out touch the breaker.
LEMMA BreakerSteps ==
    ASSUME TypeOK, BreakerCoherent, [Next]_vars
    PROVE  \/ UNCHANGED breakerVars
           \/ record_success \/ record_failure
           \/ RecoveryTimeout
           \/ \E c \in Clients : Ask(c) /\ Trying
<1> USE DEF breakerVars, worldVars, requestVars
<1>1. ASSUME NEW c \in Clients, Ask(c), ~Trying
      PROVE  UNCHANGED breakerVars
  BY <1>1 DEF Ask
<1>2. ASSUME NEW c \in Clients, Raise(c)
      PROVE  UNCHANGED breakerVars
  BY <1>2 DEF Raise
<1>3. ASSUME NEW c \in Clients, RequestStep(c)
      PROVE  UNCHANGED breakerVars \/ record_success \/ record_failure
  BY <1>3 DEF RequestStep, Serve, Refuse, Reply, Success, Failure, CachePut,
              CacheGet, OfflineWrite
<1>4. CASE ServerChange
  BY <1>4 DEF ServerChange
<1>5. CASE UNCHANGED vars
  BY <1>5 DEF vars
<1>6. QED
  BY <1>1, <1>2, <1>3, <1>4, <1>5 DEF Next

-----------------------------------------------------------------------------
(* Types and coherence.                                                     *)

LEMMA RequestStepType ==
    ASSUME TypeOK, BreakerCoherent, NEW c \in Clients, RequestStep(c)
    PROVE  TypeOK'
<1> USE RouterAssumption
    DEF TypeOK, Goto, Return, Fallback, Caches, Source, breakerVars, worldVars
<1>1. CASE Serve(c)
  BY <1>1 DEF Serve
<1>2. CASE Refuse(c)
  BY <1>2 DEF Refuse
<1>3. CASE Reply(c)
  BY <1>3 DEF Reply
<1>4. CASE Success(c)
  BY <1>4, ReportKeeps DEF Success
<1>5. CASE Failure(c)
  BY <1>5, ReportKeeps DEF Failure
<1>a. at[c] \in 1..(NumCaches + 1)
  OBVIOUS
<1>6. CASE CachePut(c)
  <2>1. cache' \in [Caches -> Nat]
    BY <1>6 DEF CachePut
  <2>2. CASE at[c] < NumCaches
    <3>1. at[c] + 1 \in 1..(NumCaches + 1)
      BY <1>a, <2>2
    <3>2. QED
      BY <1>6, <2>1, <2>2, <3>1 DEF CachePut
  <2>3. CASE ~(at[c] < NumCaches)
    BY <1>6, <2>1, <2>3 DEF CachePut
  <2>4. QED
    BY <2>2, <2>3
<1>7. CASE CacheGet(c)
  <2>1. got' \in [Clients -> Nat] /\ at' \in [Clients -> 1..(NumCaches + 1)]
    <3>1. CASE at[c] <= NumCaches
      <4>1. cache[at[c]] \in Nat /\ at[c] + 1 \in 1..(NumCaches + 1)
        BY <1>a, <3>1
      <4>2. QED
        BY <1>7, <3>1, <4>1 DEF CacheGet
    <3>2. CASE ~(at[c] <= NumCaches)
      <4>1. UNCHANGED <<got, at>>
        BY <1>7, <3>2, Zenon DEF CacheGet
      <4>2. QED
        BY <4>1
    <3>3. QED
      BY <3>1, <3>2
  <2>2. \/ \E s \in Source : Return(c, s)
        \/ UNCHANGED <<pc, answer>>
    BY <1>7, Zenon DEF CacheGet
  <2>3. ASSUME NEW s \in Source, Return(c, s)
        PROVE  /\ pc' \in [Clients -> {"idle", "call", "reply", "ok", "err", "put", "look", "hook"}]
               /\ answer' \in [Clients -> Source]
    BY <2>3
  <2>4. /\ pc' \in [Clients -> {"idle", "call", "reply", "ok", "err", "put", "look", "hook"}]
        /\ answer' \in [Clients -> Source]
    BY <2>2, <2>3
  <2>5. UNCHANGED <<breakerVars, worldVars, cache, method, queued>>
    BY <1>7 DEF CacheGet
  <2>6. queued' \in [Clients -> BOOLEAN] /\ elapsed' \in BOOLEAN
    BY <2>5, Zenon
  <2>7. QED
    BY <2>1, <2>4, <2>5, <2>6
<1>8. CASE OfflineWrite(c)
  BY <1>8 DEF OfflineWrite
<1>9. QED
  BY <1>1, <1>2, <1>3, <1>4, <1>5, <1>6, <1>7, <1>8 DEF RequestStep

LEMMA StepType ==
    ASSUME TypeOK, BreakerCoherent, [Next]_vars
    PROVE  TypeOK'
<1>1. ASSUME NEW c \in Clients, Ask(c)
      PROVE  TypeOK'
  BY <1>1, RouterAssumption DEF TypeOK, Ask, Goto, Source, worldVars
<1>2. ASSUME NEW c \in Clients, Raise(c)
      PROVE  TypeOK'
  BY <1>2 DEF TypeOK, Raise, Return, Goto, Source, breakerVars
<1>3. CASE RecoveryTimeout
  BY <1>3 DEF TypeOK, RecoveryTimeout, worldVars, requestVars
<1>4. CASE ServerChange
  BY <1>4 DEF TypeOK, ServerChange, breakerVars, requestVars
<1>5. CASE UNCHANGED vars
  BY <1>5 DEF TypeOK, vars
<1>6. QED
  BY <1>1, <1>2, <1>3, <1>4, <1>5, RequestStepType DEF Next

LEMMA StepCoherent ==
    ASSUME TypeOK, BreakerCoherent, [Next]_vars
    PROVE  BreakerCoherent'
<1>1. CASE UNCHANGED breakerVars
  BY <1>1 DEF breakerVars, BreakerCoherent
<1>2. CASE record_success \/ record_failure
  BY <1>2, ReportKeeps
<1>3. CASE RecoveryTimeout
  BY <1>3 DEF RecoveryTimeout, BreakerCoherent
<1>4. ASSUME NEW c \in Clients, Ask(c), Trying
      PROVE  BreakerCoherent'
  BY <1>4 DEF Ask, Trying, BreakerCoherent
<1>5. QED
  BY <1>1, <1>2, <1>3, <1>4, BreakerSteps

\* The breaker is closed exactly while fewer than Threshold failures followed
\* the last success, and every variable keeps its type; each needs the other.
THEOREM BreakerStaysCoherent == Spec => [](TypeOK /\ BreakerCoherent)
<1>1. Init => TypeOK /\ BreakerCoherent
  <2> HAVE Init
  <2>1. TypeOK
    <3>1. /\ failures \in 0..Threshold /\ version \in Nat /\ raises \in Nat
          /\ cache \in [Caches -> Nat] /\ got \in [Clients -> Nat]
          /\ at \in [Clients -> 1..(NumCaches + 1)]
      BY RouterAssumption DEF Init, Caches
    <3>2. elapsed \in BOOLEAN /\ queued \in [Clients -> BOOLEAN]
      BY Zenon DEF Init
    <3>3. QED
      BY <3>1, <3>2 DEF Init, TypeOK, Source
  <2>2. state = "closed" /\ failures < Threshold
    BY RouterAssumption DEF Init
  <2>3. QED
    BY <2>1, <2>2 DEF BreakerCoherent
<1>2. TypeOK /\ BreakerCoherent /\ [Next]_vars => (TypeOK /\ BreakerCoherent)'
  BY StepType, StepCoherent
<1>3. QED
  BY <1>1, <1>2, PTL DEF Spec

-----------------------------------------------------------------------------
(* The trial.                                                               *)

\* A step of a request that is under way leaves it under way, or reports.
LEMMA TrialGoesOn ==
    ASSUME TypeOK, NEW c \in Clients, Reporting(c), Next,
           UNCHANGED breakerVars, raises' = raises
    PROVE  Reporting(c)' \/ record_success \/ record_failure
<1> USE DEF TypeOK, Reporting, Goto, Return
<1>1. ASSUME NEW d \in Clients, Ask(d)
      PROVE  Reporting(c)'
  BY <1>1 DEF Ask
<1>2. ASSUME NEW d \in Clients, Raise(d)
      PROVE  FALSE
  BY <1>2 DEF Raise
<1>3. ASSUME NEW d \in Clients, RequestStep(d)
      PROVE  Reporting(c)' \/ record_success \/ record_failure
  <2>1. CASE Serve(d) \/ Refuse(d) \/ Reply(d)
    BY <2>1 DEF Serve, Refuse, Reply
  <2>2. CASE Success(d) \/ Failure(d)
    BY <2>2 DEF Success, Failure
  <2>3. CASE CachePut(d) \/ CacheGet(d) \/ OfflineWrite(d)
    BY <2>3 DEF CachePut, CacheGet, OfflineWrite
  <2>4. QED
    BY <1>3, <2>1, <2>2, <2>3 DEF RequestStep
<1>4. CASE RecoveryTimeout \/ ServerChange
  BY <1>4 DEF RecoveryTimeout, ServerChange, requestVars
<1>5. QED
  BY <1>1, <1>2, <1>3, <1>4 DEF Next

LEMMA RaisesGrow ==
    ASSUME TypeOK, [Next]_vars
    PROVE  raises' = raises \/ raises' > 0
<1> USE DEF TypeOK, worldVars
<1>1. ASSUME NEW c \in Clients, RequestStep(c)
      PROVE  raises' = raises
  BY <1>1 DEF RequestStep, Serve, Refuse, Reply, Success, Failure, CachePut,
              CacheGet, OfflineWrite
<1>2. QED
  BY <1>1 DEF Next, vars, Ask, Raise, RecoveryTimeout, ServerChange

LEMMA StepTrial ==
    ASSUME TypeOK, BreakerCoherent, OneTrial, [Next]_vars
    PROVE  OneTrial'
<1> SUFFICES ASSUME raises' = 0, state' = "half_open"
             PROVE  \E c \in Clients : trial' = {c} /\ Reporting(c)'
  BY DEF OneTrial
<1>1. raises' = raises
  BY RaisesGrow DEF TypeOK
<1>2. ~record_success /\ ~record_failure /\ ~RecoveryTimeout
  BY ReportKeeps DEF RecoveryTimeout
<1>3. ASSUME NEW c \in Clients, Ask(c), Trying
      PROVE  trial' = {c} /\ Reporting(c)'
  BY <1>3 DEF Ask, Goto, Allowed, TypeOK, Reporting
<1>4. CASE UNCHANGED breakerVars
  <2>1. PICK c \in Clients : trial = {c} /\ Reporting(c)
    BY <1>1, <1>4 DEF OneTrial, breakerVars
  <2>2. trial' = {c}
    BY <1>4, <2>1 DEF breakerVars
  <2>3. Reporting(c)'
    BY <1>1, <1>2, <1>4, <2>1, TrialGoesOn DEF Reporting, vars
  <2>4. QED
    BY <2>2, <2>3
<1>5. QED
  BY <1>2, <1>3, <1>4, BreakerSteps

\* As long as no exception escapes _call_primary, a half-open breaker has one
\* trial under way, which will report.
THEOREM TrialReports == Spec => []OneTrial
<1>1. Init => OneTrial
  BY DEF Init, OneTrial
<1>2. TypeOK /\ BreakerCoherent /\ OneTrial /\ [Next]_vars => OneTrial'
  BY StepTrial
<1>3. QED
  BY <1>1, <1>2, BreakerStaysCoherent, PTL DEF Spec

=============================================================================
