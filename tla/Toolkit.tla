------------------------------ MODULE Toolkit ------------------------------
(***************************************************************************)
(* toolkit_service.py: calls of one tool through its registry entry, its   *)
(* semaphore and its timeout.  Tools have a semaphore each and share       *)
(* nothing else, so one stands for all.                                    *)
(*                                                                         *)
(* Concurrency.  One event loop.  A call awaits the semaphore (in order of *)
(* arrival) and then its handler under wait_for(); at both it may be       *)
(* cancelled from outside, by a client that goes away.                     *)
(*                                                                         *)
(* Abstractions.  An argument is the Python type of its value; a result is *)
(* its class.  wait_for() cancels the handler when the timeout is over and *)
(* waits for it to end; handlers do end when cancelled.                    *)
(***************************************************************************)
EXTENDS Integers, Sequences, SequencesExt

CONSTANTS
    Calls,
    MAX_CONCURRENT_EXECUTIONS_PER_TOOL,
    Properties,     \* parameters_schema: the declared type of each argument it names
    Required,       \* and the arguments it requires
    Arguments       \* the arguments calls are made with: a type for each name given

VARIABLES
    tool,       \* the registry's entry: enabled or not, and the permission it requires
    value,      \* of the semaphore
    waiting,    \* its waiters, in order
    serving,    \* what each call does
    result      \* what execute() returned

toolVars == <<tool, value, waiting, serving, result>>

\* PermissionLevel: public, privileged, internal.
Levels == 0..2
Absent == [enabled |-> FALSE, level |-> -1]
Specs == [enabled : BOOLEAN, level : Levels]

TypeOK ==
    /\ tool \in Specs \cup {Absent}
    /\ value \in 0..MAX_CONCURRENT_EXECUTIONS_PER_TOOL
    /\ waiting \in Seq(Calls)
    /\ serving \in [Calls -> {"none", "acquire", "handler", "cancelling", "over"}]
    /\ result \in [Calls -> {"none", "success", "rejected", "failed", "timeout", "cancelled"}]

Init ==
    /\ tool = Absent
    /\ value = MAX_CONCURRENT_EXECUTIONS_PER_TOOL
    /\ waiting = <<>>
    /\ serving = [c \in Calls |-> "none"]
    /\ result = [c \in Calls |-> "none"]

Moves(c, s) == serving' = [serving EXCEPT ![c] = s]
Returns(c, r) == Moves(c, "over") /\ result' = [result EXCEPT ![c] = r]
release == value' = value + 1

\* register() refuses a name that is taken unless told to replace; either way the
\* semaphore stays, and so do the calls that have their entry already.
Register(spec) ==
    /\ spec \in Specs
    /\ tool' = spec
    /\ UNCHANGED <<value, waiting, serving, result>>

Unregister ==
    /\ tool' = Absent
    /\ UNCHANGED <<value, waiting, serving, result>>

\* _TYPE_MAP with isinstance(): True is an int.
Accepted ==
    [string |-> {"str"}, number |-> {"int", "float", "bool"}, integer |-> {"int", "bool"},
     boolean |-> {"bool"}, array |-> {"list"}, object |-> {"dict"}]
\* Arguments the schema does not name, and types it does not know, pass.
Validates(args) ==
    /\ Required \subseteq DOMAIN args
    /\ \A k \in DOMAIN args \cap DOMAIN Properties :
         Properties[k] \in DOMAIN Accepted => args[k] \in Accepted[Properties[k]]
Authorized(level) == tool.enabled /\ level >= tool.level

Known == tool # Absent
Execute(c, level, args) ==
    /\ serving[c] = "none"
    /\ IF Known /\ Authorized(level) /\ Validates(args)
       THEN Moves(c, "acquire") /\ waiting' = Append(waiting, c) /\ UNCHANGED result
       ELSE Returns(c, "rejected") /\ UNCHANGED waiting
    /\ UNCHANGED <<tool, value>>

Acquire(c) ==
    /\ serving[c] = "acquire" /\ value > 0
    /\ waiting # <<>> /\ Head(waiting) = c
    /\ value' = value - 1
    /\ waiting' = Tail(waiting)
    /\ Moves(c, "handler")
    /\ UNCHANGED <<tool, result>>

\* The handler returns or raises; a TimeoutError of its own reads like a timeout.
Handled(c, r) ==
    /\ serving[c] = "handler" /\ r \in {"success", "failed", "timeout"}
    /\ release
    /\ Returns(c, r)
    /\ UNCHANGED <<tool, waiting>>

\* timeout_seconds are over; the wait for the semaphore does not count.
Expire(c) ==
    /\ serving[c] = "handler"
    /\ Moves(c, "cancelling")
    /\ UNCHANGED <<tool, value, waiting, result>>

\* Slip: the slot of a call that timed out is not given back.
TimedOutKeeps(c) ==
    /\ serving[c] = "cancelling"
    /\ Returns(c, "timeout")
    /\ UNCHANGED <<tool, value, waiting>>
TimedOut(c) ==
    /\ serving[c] = "cancelling"
    /\ release
    /\ Returns(c, "timeout")
    /\ UNCHANGED <<tool, waiting>>

\* The task of the call is cancelled: CancelledError is no Exception, so execute()
\* returns nothing.
Cancelled(c) ==
    /\ \/ /\ serving[c] = "acquire"
          /\ waiting' = RemoveFirst(waiting, c) /\ UNCHANGED value
       \/ /\ serving[c] \in {"handler", "cancelling"}
          /\ release /\ UNCHANGED waiting
    /\ Returns(c, "cancelled")
    /\ UNCHANGED tool

Progress(c) == Acquire(c) \/ Expire(c) \/ TimedOut(c) \/ \E r \in {"success", "failed", "timeout"} : Handled(c, r)

Next ==
    \/ \E spec \in Specs : Register(spec)
    \/ Unregister
    \/ \E c \in Calls, level \in Levels, args \in Arguments : Execute(c, level, args)
    \/ \E c \in Calls : Progress(c) \/ Cancelled(c)

Spec == Init /\ [][Next]_toolVars
\* The event loop runs what is ready, and timeout_seconds come to an end.
Fairness == \A c \in Calls : WF_toolVars(Progress(c))
FairSpec == Spec /\ Fairness

-----------------------------------------------------------------------------
\* Every call that was let in returns, although the wait for the semaphore has no
\* timeout and calls ahead of it fail, hang or are cancelled.
CallsReturn == []<>(\A c \in Calls : serving[c] \in {"none", "over"})

=============================================================================
