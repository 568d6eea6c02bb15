---------------------------- MODULE NexusBridge ----------------------------
(***************************************************************************)
(* nexus_bridge.py: an event bus, wrappers around plugin modules, and the  *)
(* bridge that starts every module when the network goes down or a threat  *)
(* is reported.                                                            *)
(*                                                                         *)
(* Concurrency.  One event loop: code between two awaits is one step.      *)
(* publish() gathers one call per handler and waits for all of them, and a *)
(* handler that raises publishes MODULE_ERROR before it returns, so what a *)
(* publication waits for is the tree of everything published below it:     *)
(* pending holds the calls that are still to run, tagged with the root.    *)
(*                                                                         *)
(* Abstractions.  Every module subscribes to one pattern, the wildcard, as *)
(* ModuleBase does.  An event is its source, and the bounded history is    *)
(* left out.  A call of a handler is one step, kept only for the modules   *)
(* that may raise.  What a probe of the network finds is arbitrary.        *)
(***************************************************************************)
EXTENDS Naturals, Bags

CONSTANTS
    Modules,
    Failing,        \* modules whose handle() may raise
    MaxTriggers,    \* bound: NETWORK_DOWN and THREAT_DETECTED events
    MaxPending      \* bound: calls of handlers under way

VARIABLES
    handlers,   \* how many times each module is subscribed
    wrapper,    \* ModuleWrapper.state
    active,     \* _active
    cooling,    \* the activation cooldown is not over
    was_up,     \* what the monitor last published
    activation, \* what has become of each trigger
    starting,   \* start() of each module in each activation
    closing, stopping,  \* deactivate_all() at shutdown and its stop() calls
    pending     \* bag of <<root, module, whether it is its own event>>

vars == <<handlers, wrapper, active, cooling, was_up, activation, starting,
          closing, stopping, pending>>
busVars == <<handlers, wrapper>>
endVars == <<closing, stopping>>

Triggers == 1..MaxTriggers

TypeOK ==
    /\ handlers \in [Modules -> Nat]
    /\ wrapper \in [Modules -> {"idle", "starting", "running", "error", "stopped"}]
    /\ active \in BOOLEAN /\ cooling \in BOOLEAN
    /\ was_up \in {"up", "down", "unknown"}
    /\ activation \in [Triggers -> {"none", "suppressed", "alert", "start", "done"}]
    /\ starting \in [Triggers -> [Modules -> {"todo", "start", "announce"}]]
    /\ closing \in {"no", "stopping", "over"}
    /\ stopping \in [Modules -> {"todo", "stop", "announce"}]
    /\ IsABag(pending)

Init ==
    /\ handlers = [m \in Modules |-> 0]
    /\ wrapper = [m \in Modules |-> "idle"]
    /\ active = FALSE /\ cooling = FALSE
    /\ was_up = "unknown"
    /\ activation = [i \in Triggers |-> "none"]
    /\ starting = [i \in Triggers |-> [m \in Modules |-> "todo"]]
    /\ closing = "no"
    /\ stopping = [m \in Modules |-> "todo"]
    /\ pending = EmptyBag

-----------------------------------------------------------------------------
(* EventBus.                                                                *)

\* publish(): the handlers subscribed at this moment are called, each as often
\* as it is subscribed.
Handlings(root, source) ==
    [d \in {<<root, m, m = source>> : m \in {x \in Failing : handlers[x] > 0}}
        |-> handlers[d[2]]]
Publish(root, source) == pending' = pending (+) Handlings(root, source)
Returned(root) == \A d \in BagToSet(pending) : d[1] # root

\* ModuleWrapper._on_event.  Slip: a module handles its own events too.
OnEventEchoed(d) ==
    /\ \/ pending' = pending (-) SetToBag({d})
       \/ /\ BagCardinality(pending) <= MaxPending
          /\ pending' = (pending (-) SetToBag({d})) (+) Handlings(d[1], d[2])
    /\ UNCHANGED <<busVars, active, cooling, was_up, activation, starting, endVars>>
OnEvent(d) ==
    /\ \/ pending' = pending (-) SetToBag({d})
       \/ /\ ~d[3]
          /\ BagCardinality(pending) <= MaxPending
          /\ pending' = (pending (-) SetToBag({d})) (+) Handlings(d[1], d[2])
    /\ UNCHANGED <<busVars, active, cooling, was_up, activation, starting, endVars>>
HandleEvent == closing # "over" /\ \E d \in BagToSet(pending) : OnEvent(d)

-----------------------------------------------------------------------------
(* activate_all().                                                          *)

\* An event that triggers activation is published: every subscriber gets it, and
\* unless a cooldown suppresses the activation, ALERT follows at once.
Trigger(i, source) ==
    /\ closing # "over" /\ activation[i] = "none"
    /\ \A j \in Triggers : j < i => activation[j] # "none"
    /\ IF active /\ cooling
       THEN /\ activation' = [activation EXCEPT ![i] = "suppressed"]
            /\ Publish(<<0, "event">>, source)
            /\ UNCHANGED <<active, cooling>>
       ELSE /\ activation' = [activation EXCEPT ![i] = "alert"]
            /\ pending' = pending (+) Handlings(<<0, "event">>, source)
                                  (+) Handlings(<<i, "alert">>, "bridge")
            /\ active' = TRUE /\ cooling' = TRUE
    /\ UNCHANGED <<busVars, starting, endVars>>

Threat(i) == Trigger(i, "cli") /\ UNCHANGED was_up

CooldownOver ==
    /\ cooling /\ cooling' = FALSE
    /\ UNCHANGED <<busVars, active, was_up, activation, starting, endVars, pending>>

Alerted(i) ==
    /\ closing # "over" /\ activation[i] = "alert" /\ Returned(<<i, "alert">>)
    /\ activation' = [activation EXCEPT ![i] = "start"]
    /\ UNCHANGED <<busVars, active, cooling, was_up, starting, endVars, pending>>

\* ModuleWrapper.start up to the await of the module's own start().
Start(i, m) ==
    /\ closing # "over" /\ activation[i] = "start" /\ starting[i][m] = "todo"
    /\ handlers' = [handlers EXCEPT ![m] = @ + 1]
    /\ wrapper' = [wrapper EXCEPT ![m] = "starting"]
    /\ starting' = [starting EXCEPT ![i][m] = "start"]
    /\ UNCHANGED <<active, cooling, was_up, activation, endVars, pending>>

\* It returns or raises, and MODULE_STARTED or MODULE_ERROR is published.
Started(i, m) ==
    /\ closing # "over" /\ starting[i][m] = "start"
    /\ wrapper' \in {[wrapper EXCEPT ![m] = s] : s \in {"running", "error"}}
    /\ starting' = [starting EXCEPT ![i][m] = "announce"]
    /\ Publish(<<i, m>>, m)
    /\ UNCHANGED <<handlers, active, cooling, was_up, activation, endVars>>

Activated(i) ==
    /\ closing # "over" /\ activation[i] = "start"
    /\ \A m \in Modules : starting[i][m] = "announce" /\ Returned(<<i, m>>)
    /\ activation' = [activation EXCEPT ![i] = "done"]
    /\ UNCHANGED <<busVars, active, cooling, was_up, starting, endVars, pending>>

-----------------------------------------------------------------------------
(* NetworkMonitor._run: the thread publishes a change once, and waits for  *)
(* the handlers (up to 5 s, which is not modelled).                         *)

ProbeDown(i) == was_up # "down" /\ was_up' = "down" /\ Trigger(i, "net")

ProbeUp ==
    /\ closing # "over" /\ was_up # "up" /\ was_up' = "up"
    /\ Returned(<<0, "event">>)
    /\ Publish(<<0, "event">>, "net")
    /\ UNCHANGED <<busVars, active, cooling, activation, starting, endVars>>

-----------------------------------------------------------------------------
(* run_forever() is cancelled: deactivate_all().                            *)

Shutdown ==
    /\ closing = "no"
    /\ closing' = IF active THEN "stopping" ELSE "over"
    /\ UNCHANGED <<busVars, active, cooling, was_up, activation, starting, stopping, pending>>

\* ModuleWrapper.stop: one subscription goes, if the module was ever started.
Stop(m) ==
    /\ closing = "stopping" /\ stopping[m] = "todo"
    /\ handlers' = [handlers EXCEPT ![m] = IF @ > 0 THEN @ - 1 ELSE 0]
    /\ stopping' = [stopping EXCEPT ![m] = "stop"]
    /\ UNCHANGED <<wrapper, active, cooling, was_up, activation, starting, closing, pending>>

Stopped(m) ==
    /\ closing = "stopping" /\ stopping[m] = "stop"
    /\ wrapper' = [wrapper EXCEPT ![m] = "stopped"]
    /\ stopping' = [stopping EXCEPT ![m] = "announce"]
    /\ Publish(<<0, m>>, m)
    /\ UNCHANGED <<handlers, active, cooling, was_up, activation, starting, closing>>

Deactivated ==
    /\ closing = "stopping"
    /\ \A m \in Modules : stopping[m] = "announce" /\ Returned(<<0, m>>)
    /\ closing' = "over" /\ active' = FALSE
    /\ UNCHANGED <<busVars, cooling, was_up, activation, starting, stopping, pending>>

Next ==
    \/ HandleEvent \/ Deactivated
    \/ \E i \in Triggers : Alerted(i) \/ Activated(i)
                           \/ \E m \in Modules : Start(i, m) \/ Started(i, m)
    \/ \E m \in Modules : Stop(m) \/ Stopped(m)
    \/ ProbeUp \/ CooldownOver \/ Shutdown
    \/ \E i \in Triggers : ProbeDown(i) \/ Threat(i)

Spec == Init /\ [][Next]_vars
\* The event loop gets to every task that is ready to run.
Fairness ==
    /\ WF_vars(HandleEvent) /\ WF_vars(Deactivated)
    /\ \A i \in Triggers :
        /\ WF_vars(Alerted(i)) /\ WF_vars(Activated(i))
        /\ \A m \in Modules : WF_vars(Start(i, m)) /\ WF_vars(Started(i, m))
    /\ \A m \in Modules : WF_vars(Stop(m)) /\ WF_vars(Stopped(m))
FairSpec == Spec /\ Fairness

-----------------------------------------------------------------------------
\* A module that raises never brings the bridge down: an activation that has begun
\* ends, and so does a shutdown, whatever handlers publish on the way.
Settled ==
    /\ closing # "stopping"
    /\ closing = "over" \/ \A i \in Triggers : activation[i] \notin {"alert", "start"}
Completes == []<>Settled

=============================================================================
