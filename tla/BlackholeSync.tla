---------------------------- MODULE BlackholeSync ----------------------------
(***************************************************************************)
(* quantum_blackhole_sync.py: the ban of one target, kept by every node in *)
(* memory and shared through a Redis key and a Redis channel.              *)
(*                                                                         *)
(* Concurrency.  Each node's listener and its operator's calls interleave  *)
(* at every Redis call.  A channel delivers in order to the subscribers of *)
(* the moment; a connection that breaks loses what was not yet handled.    *)
(* A call may end before it has set the key or published: Redis raises, the *)
(* call is cancelled, or its process dies.                                 *)
(*                                                                         *)
(* Abstractions.  One target, not allowlisted; the memory is not full;     *)
(* messages are handled within max_skew; an operator makes one call at a   *)
(* time, and no ban expires during a call.  The copies of a ban hold the   *)
(* same time of expiry, and the key the same time to live.  A Redis call   *)
(* that raises though it took effect is the call's end after that step.    *)
(***************************************************************************)
EXTENDS Naturals, Sequences

CONSTANTS
    Nodes,
    Operators,      \* nodes where ban() and unban() are called
    MaxOps,         \* bound: calls
    MaxBreaks       \* bound: connections that break, calls that end early, deaths

VARIABLES
    local,      \* each node's record in _ips or _nets: "none", "valid" or "expired"
    key,        \* the Redis key is set
    op,         \* each node's call: what, and the step it has reached
    listener,   \* each node's _listen
    found,      \* the record _hydrate holds
    inbox,      \* messages not yet handled
    silent,     \* history: the last ban to set the key ended before it published
    ops, breaks \* bounds

holeVars == <<local, key, op, listener, found, inbox, silent, ops, breaks>>

NoOp == [what |-> "none", step |-> "done"]

TypeOK ==
    /\ local \in [Nodes -> {"none", "valid", "expired"}] /\ key \in BOOLEAN
    /\ op \in [Nodes -> [what : {"none", "ban", "unban"}, step : {"key", "publish", "done"}]]
    /\ listener \in [Nodes -> {"stopped", "off", "scan", "apply", "on"}]
    /\ found \in [Nodes -> {"none", "valid", "expired"}]
    /\ inbox \in [Nodes -> Seq([what : {"valid", "expired", "none"}, from : Nodes])]
    /\ silent \in BOOLEAN
    /\ ops \in 0..MaxOps /\ breaks \in 0..MaxBreaks

Init ==
    /\ local = [n \in Nodes |-> "none"] /\ key = FALSE
    /\ op = [n \in Nodes |-> NoOp]
    /\ listener = [n \in Nodes |-> "stopped"]
    /\ found = [n \in Nodes |-> "none"]
    /\ inbox = [n \in Nodes |-> <<>>]
    /\ silent = FALSE
    /\ ops = 0 /\ breaks = 0

\* What ban() and unban() do to the node's own tables.
Holds(n, record) == local' = [local EXCEPT ![n] = record]
Record(what) == IF what = "ban" THEN "valid" ELSE "none"

-----------------------------------------------------------------------------
(* ban() and unban(): the node first, then the key, then the others.        *)

Call(n, what) ==
    /\ n \in Operators /\ op[n] = NoOp /\ ops < MaxOps
    /\ ops' = ops + 1
    /\ Holds(n, Record(what))
    /\ op' = [op EXCEPT ![n] = [what |-> what, step |-> "key"]]
    /\ UNCHANGED <<key, listener, found, inbox, silent, breaks>>

SetKey(n) ==
    /\ op[n].step = "key"
    /\ key' = (op[n].what = "ban")
    /\ op' = [op EXCEPT ![n].step = "publish"]
    /\ UNCHANGED <<local, listener, found, inbox, silent, ops, breaks>>

\* Slip: a node subscribes only when it has read the keys.
PublishToHydrated(n) ==
    /\ op[n].step = "publish"
    /\ inbox' = [m \in Nodes |->
                    IF listener[m] # "on" THEN inbox[m]
                    ELSE Append(inbox[m], [what |-> Record(op[n].what), from |-> n])]
    /\ op' = [op EXCEPT ![n] = NoOp]
    /\ silent' = FALSE
    /\ UNCHANGED <<local, key, listener, found, ops, breaks>>
Publish(n) ==
    /\ op[n].step = "publish"
    /\ inbox' = [m \in Nodes |->
                    IF listener[m] \in {"stopped", "off"} THEN inbox[m]
                    ELSE Append(inbox[m], [what |-> Record(op[n].what), from |-> n])]
    /\ op' = [op EXCEPT ![n] = NoOp]
    /\ silent' = FALSE
    /\ UNCHANGED <<local, key, listener, found, ops, breaks>>

\* The call ends where it stands; the others hear nothing of it.
EndEarly(n) ==
    /\ breaks < MaxBreaks /\ breaks' = breaks + 1
    /\ op' = [op EXCEPT ![n] = NoOp]
    /\ silent' = (silent \/ op[n] = [what |-> "ban", step |-> "publish"])
Abandon(n) ==
    /\ op[n] # NoOp
    /\ EndEarly(n)
    /\ UNCHANGED <<local, key, listener, found, inbox, ops>>

-----------------------------------------------------------------------------
(* _listen().                                                               *)

\* The channel is subscribed to before the keys are read.
Subscribe(n) ==
    /\ listener[n] = "off"
    /\ listener' = [listener EXCEPT ![n] = "scan"]
    /\ UNCHANGED <<local, key, op, found, inbox, silent, ops, breaks>>

\* _hydrate(): the record is read, and applied.
Scan(n) ==
    /\ listener[n] = "scan"
    /\ found' = [found EXCEPT ![n] = IF key THEN "valid" ELSE "none"]
    /\ listener' = [listener EXCEPT ![n] = IF key THEN "apply" ELSE "on"]
    /\ UNCHANGED <<local, key, op, inbox, silent, ops, breaks>>

Apply(n) ==
    /\ listener[n] = "apply"
    /\ Holds(n, found[n])
    /\ found' = [found EXCEPT ![n] = "none"]
    /\ listener' = [listener EXCEPT ![n] = "on"]
    /\ UNCHANGED <<key, op, inbox, silent, ops, breaks>>

\* A message is handled; a node passes over its own.
Receive(n) ==
    /\ listener[n] = "on" /\ inbox[n] # <<>>
    /\ IF Head(inbox[n]).from = n THEN UNCHANGED local ELSE Holds(n, Head(inbox[n]).what)
    /\ inbox' = [inbox EXCEPT ![n] = Tail(@)]
    /\ UNCHANGED <<key, op, listener, found, silent, ops, breaks>>

\* The connection breaks, and after 2 s the loop starts again; or stop() cancels it,
\* until start().
Leave(n, state) ==
    /\ listener[n] \in {"scan", "apply", "on"} /\ breaks < MaxBreaks
    /\ breaks' = breaks + 1
    /\ listener' = [listener EXCEPT ![n] = state]
    /\ inbox' = [inbox EXCEPT ![n] = <<>>]
    /\ found' = [found EXCEPT ![n] = "none"]
    /\ UNCHANGED <<local, key, op, silent, ops>>
Break(n) == Leave(n, "off")
Stop(n) == Leave(n, "stopped")

\* The node's process dies, with its tables, its subscription and its call.
Die(n) ==
    /\ EndEarly(n)
    /\ Holds(n, "none")
    /\ listener' = [listener EXCEPT ![n] = "stopped"]
    /\ inbox' = [inbox EXCEPT ![n] = <<>>]
    /\ found' = [found EXCEPT ![n] = "none"]
    /\ UNCHANGED <<key, ops>>

Start(n) ==
    /\ listener[n] = "stopped"
    /\ listener' = [listener EXCEPT ![n] = "off"]
    /\ UNCHANGED <<local, key, op, found, inbox, silent, ops, breaks>>

-----------------------------------------------------------------------------
(* Expiry, and the requests of clients.                                     *)

\* The time of expiry passes: Redis drops the key, and every copy is out of date.
\* The operator's own copy, and a key the others were not told of, may hold another
\* time than what the others have.
Aged(record) == IF record = "valid" THEN "expired" ELSE record
Expire ==
    /\ key \/ \E n \in Nodes : local[n] = "valid"
    /\ \A n \in Nodes : op[n] = NoOp
    /\ \E S \in SUBSET Nodes, gone \in BOOLEAN :
        /\ silent \/ (Nodes \ Operators \subseteq S /\ gone)
        /\ key' = (key /\ ~gone)
        /\ local' = [n \in Nodes |-> IF n \in S THEN Aged(local[n]) ELSE local[n]]
        /\ found' = [n \in Nodes |-> IF n \in S THEN Aged(found[n]) ELSE found[n]]
        /\ inbox' = [n \in Nodes |->
                        IF n \notin S THEN inbox[n]
                        ELSE [i \in DOMAIN inbox[n] |-> [inbox[n][i] EXCEPT !.what = Aged(@)]]]
    /\ UNCHANGED <<op, listener, silent, ops, breaks>>

\* What is_blocked() answers the middleware.
Blocked(n) == local[n] = "valid"
\* is_blocked() drops a record that has expired, and so does the janitor.
Evict(n) ==
    /\ local[n] = "expired"
    /\ Holds(n, "none")
    /\ UNCHANGED <<key, op, listener, found, inbox, silent, ops, breaks>>

Next ==
    \/ \E n \in Nodes :
        \/ \E what \in {"ban", "unban"} : Call(n, what)
        \/ SetKey(n) \/ Publish(n) \/ Abandon(n)
        \/ Subscribe(n) \/ Scan(n) \/ Apply(n) \/ Receive(n)
        \/ Break(n) \/ Stop(n) \/ Die(n) \/ Start(n) \/ Evict(n)
    \/ Expire

Spec == Init /\ [][Next]_holeVars

-----------------------------------------------------------------------------
\* Once a ban is in Redis and its call has returned, every other node that listens
\* and has caught up blocks the target, whatever connections broke, processes died,
\* calls failed and bans expired on the way.  Not so the ban whose call ended after it
\* set the key and before it published: a node that listens already is not told of it
\* until the next call that publishes.  This is a promise for one operating node: two
\* of them can undo each other's calls, and a node that passes over its own messages
\* can lose its own ban to the expired record its scan still held.
CaughtUp(n) == listener[n] = "on" /\ inbox[n] = <<>>
BanReaches ==
    key /\ ~silent /\ (\A n \in Nodes : op[n] = NoOp) =>
        \A n \in Nodes \ Operators : CaughtUp(n) => Blocked(n)

=============================================================================
