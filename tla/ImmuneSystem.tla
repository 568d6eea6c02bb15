---------------------------- MODULE ImmuneSystem ----------------------------
(***************************************************************************)
(* auto_immune_patcher.py: modules behind guard() are quarantined after    *)
(* anomalies, together with everything that depends on them, and come back *)
(* through probing calls.                                                  *)
(*                                                                         *)
(* Concurrency.  One event loop.  A quarantine holds the lock through its  *)
(* cascade and awaits the event callback after each module; admissions and *)
(* results of guarded calls take no lock and run in between.  The task     *)
(* that cascades may be cancelled at such an await.                        *)
(*                                                                         *)
(* Abstractions.  Time is kept as "the cooldown is over"; the anomalies    *)
(* are those of the last window; the integrity scan is one more task that  *)
(* finds an anomaly.                                                       *)
(***************************************************************************)
EXTENDS Naturals, FiniteSets

CONSTANTS
    Guarded,        \* registered modules
    DependsOn,      \* policy.depends_on, for each
    Tasks,          \* guarded calls under way at a time
    MaxAnomalies, ProbeSuccesses,   \* ModulePolicy
    MaxCancels,     \* bound: cascades cancelled
    MaxReleased     \* bound: modules in released

VARIABLES
    health,     \* state of each module
    cooled,     \* its cooldown is over
    anomalies, probe_ok,
    calling,    \* the module each task calls, or wants to quarantine
    doing,      \* what the task does
    cascade,    \* modules the cascade has yet to visit
    seen,
    released,   \* history: modules an operator has freed since their quarantine
    cancels     \* bound

immuneVars == <<health, cooled, anomalies, probe_ok, calling, doing, cascade, seen, released,
                cancels>>
taskVars   == <<calling, doing>>
lockVars   == <<cascade, seen, released, cancels>>

\* What calling holds for a task that is idle says nothing.
Unused == CHOOSE m \in Guarded : TRUE

TypeOK ==
    /\ health \in [Guarded -> {"healthy", "quarantined", "probing"}]
    /\ cooled \in [Guarded -> BOOLEAN]
    /\ anomalies \in [Guarded -> 0..MaxAnomalies]
    /\ probe_ok \in [Guarded -> 0..ProbeSuccesses]
    /\ calling \in [Tasks -> Guarded]
    /\ doing \in [Tasks -> {"idle", "call", "lock", "cascade"}]
    /\ cascade \subseteq Guarded /\ seen \subseteq Guarded
    /\ released \subseteq Guarded
    /\ cancels \in 0..MaxCancels

Init ==
    /\ health = [m \in Guarded |-> "healthy"]
    /\ cooled = [m \in Guarded |-> FALSE]
    /\ anomalies = [m \in Guarded |-> 0]
    /\ probe_ok = [m \in Guarded |-> 0]
    /\ calling = [t \in Tasks |-> Unused]
    /\ doing = [t \in Tasks |-> "idle"]
    /\ cascade = {} /\ seen = {} /\ released = {} /\ cancels = 0

Locked == \E t \in Tasks : doing[t] = "cascade"
\* What a task has finished it forgets.
Does(t, m, d) ==
    /\ doing' = [doing EXCEPT ![t] = d]
    /\ calling' = [calling EXCEPT ![t] = IF d = "idle" THEN Unused ELSE m]

\* _admit.
admit(m) ==
    \/ health[m] # "quarantined" /\ UNCHANGED <<health, probe_ok>>
    \/ /\ health[m] = "quarantined" /\ cooled[m]
       /\ \A d \in DependsOn[m] : health[d] = "healthy"
       /\ health' = [health EXCEPT ![m] = "probing"]
       /\ probe_ok' = [probe_ok EXCEPT ![m] = 0]

\* guard(): the call is admitted; a call that is not has no effect.
Call(t, m) ==
    /\ doing[t] = "idle"
    /\ admit(m)
    /\ Does(t, m, "call")
    /\ UNCHANGED <<cooled, anomalies, lockVars>>

\* _success: every clean call of a probing module counts, also one admitted earlier.
Success(t) ==
    LET m == calling[t]
    IN  /\ doing[t] = "call"
        /\ Does(t, m, "idle")
        /\ IF health[m] # "probing" THEN UNCHANGED <<health, anomalies, probe_ok>>
           ELSE IF probe_ok[m] + 1 < ProbeSuccesses
           THEN /\ probe_ok' = [probe_ok EXCEPT ![m] = @ + 1]
                /\ UNCHANGED <<health, anomalies>>
           ELSE /\ health' = [health EXCEPT ![m] = "healthy"]
                /\ probe_ok' = [probe_ok EXCEPT ![m] = ProbeSuccesses]
                /\ anomalies' = [anomalies EXCEPT ![m] = 0]
        /\ UNCHANGED <<cooled, lockVars>>

\* report_anomaly, up to the wait for the lock.
Anomaly(t) ==
    LET m == calling[t]
        n == IF anomalies[m] < MaxAnomalies THEN anomalies[m] + 1 ELSE MaxAnomalies
    IN  /\ doing[t] = "call"
        /\ anomalies' = [anomalies EXCEPT ![m] = n]
        /\ Does(t, m, IF health[m] = "probing" \/ n >= MaxAnomalies THEN "lock" ELSE "idle")
        /\ UNCHANGED <<health, cooled, probe_ok, lockVars>>

\* _scan finds a file changed.
Mismatch(t, m) ==
    /\ doing[t] = "idle" /\ health[m] # "quarantined"
    /\ Does(t, m, "lock")
    /\ UNCHANGED <<health, cooled, anomalies, probe_ok, lockVars>>

Lock(t) ==
    /\ doing[t] = "lock" /\ ~Locked
    /\ Does(t, calling[t], "cascade")
    /\ cascade' = {calling[t]} /\ seen' = {}
    /\ UNCHANGED <<health, cooled, anomalies, probe_ok, released, cancels>>

Dependents(m) == {o \in Guarded : m \in DependsOn[o]}

\* _quarantine_locked visits a module.  Slip: only the first one is followed to
\* its dependents.
VisitDirect(t, m) ==
    /\ doing[t] = "cascade" /\ m \in cascade
    /\ seen' = seen \cup {m}
    /\ cascade' = ((cascade \cup IF seen = {} THEN Dependents(m) ELSE {}) \ {m}) \ seen
    /\ health' = [health EXCEPT ![m] = "quarantined"]
    /\ cooled' = [cooled EXCEPT ![m] = @ /\ health[m] = "quarantined"]
    /\ probe_ok' = [probe_ok EXCEPT ![m] = IF health[m] = "quarantined" THEN @ ELSE 0]
    /\ released' = released \ {m}
    /\ UNCHANGED <<anomalies, taskVars, cancels>>
Visit(t, m) ==
    /\ doing[t] = "cascade" /\ m \in cascade
    /\ seen' = seen \cup {m}
    /\ cascade' = ((cascade \cup Dependents(m)) \ {m}) \ seen
    /\ health' = [health EXCEPT ![m] = "quarantined"]
    /\ cooled' = [cooled EXCEPT ![m] = @ /\ health[m] = "quarantined"]
    /\ probe_ok' = [probe_ok EXCEPT ![m] = IF health[m] = "quarantined" THEN @ ELSE 0]
    /\ released' = released \ {m}
    /\ UNCHANGED <<anomalies, taskVars, cancels>>

Unlock(t) ==
    /\ doing[t] = "cascade" /\ cascade = {}
    /\ Does(t, calling[t], "idle")
    /\ seen' = {}
    /\ UNCHANGED <<health, cooled, anomalies, probe_ok, cascade, released, cancels>>

Cancel(t) ==
    /\ doing[t] = "cascade" /\ cascade # {} /\ seen # {} /\ cancels < MaxCancels
    /\ cancels' = cancels + 1
    /\ cascade' = {} /\ seen' = {}
    /\ Does(t, calling[t], "idle")
    /\ UNCHANGED <<health, cooled, anomalies, probe_ok, released>>

\* release(): an operator frees a module, whatever it depends on.
Release(m) ==
    /\ ~Locked /\ health[m] # "healthy" /\ Cardinality(released) < MaxReleased
    /\ health' = [health EXCEPT ![m] = "healthy"]
    /\ cooled' = [cooled EXCEPT ![m] = FALSE]
    /\ anomalies' = [anomalies EXCEPT ![m] = 0]
    /\ released' = released \cup {m}
    /\ UNCHANGED <<probe_ok, taskVars, cascade, seen, cancels>>

CooldownOver(m) ==
    /\ health[m] = "quarantined" /\ ~cooled[m]
    /\ cooled' = [cooled EXCEPT ![m] = TRUE]
    /\ UNCHANGED <<health, anomalies, probe_ok, taskVars, lockVars>>

WindowOver(m) ==
    /\ anomalies[m] > 0
    /\ anomalies' = [anomalies EXCEPT ![m] = @ - 1]
    /\ UNCHANGED <<health, cooled, probe_ok, taskVars, lockVars>>

Next ==
    \/ \E t \in Tasks : Success(t) \/ Anomaly(t) \/ Lock(t) \/ Unlock(t) \/ Cancel(t)
                        \/ \E m \in Guarded : Call(t, m) \/ Mismatch(t, m) \/ Visit(t, m)
    \/ \E m \in Guarded : Release(m) \/ CooldownOver(m) \/ WindowOver(m)

Spec == Init /\ [][Next]_immuneVars

-----------------------------------------------------------------------------
\* Dependency isolation: outside a cascade, a module whose dependency is not healthy
\* is quarantined, whatever calls, late successes and probes ran while the cascade
\* awaited, unless an operator freed it.  A cascade cut off by a cancellation leaves
\* dependents in service.
Contained ==
    ~Locked /\ cancels = 0 =>
        \A m \in Guarded \ released : \A d \in DependsOn[m] :
            health[d] # "healthy" => health[m] = "quarantined"

=============================================================================
