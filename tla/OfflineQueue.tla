---------------------------- MODULE OfflineQueue ----------------------------
(***************************************************************************)
(* The stand-alone request queue offline_queue.py: send() stores a request *)
(* in SQLite and flushes the table; a background thread and other callers  *)
(* flush it too.                                                           *)
(*                                                                         *)
(* Concurrency.  _lock is an attribute of one OfflineQueue object: threads *)
(* of one process exclude one another, two processes on the same database  *)
(* file do not.  An action is a SQLite transaction, a request, or a check  *)
(* of the loop; between any two of them other threads and processes run.   *)
(*                                                                         *)
(* Exceptions.  _attempt() catches what urllib raises for an error status  *)
(* or a broken connection.  Others (the ValueError of an unknown URL type, *)
(* an HTTPException for an answer that is not HTTP, an error of SQLite)    *)
(* leave flush(): the lock is released, the row is not counted, the        *)
(* caller's send() raises, and the background thread ends.                 *)
(*                                                                         *)
(* Abstractions.  A request is the call that made it (its key is a fresh   *)
(* uuid); an enqueue() that raises stores nothing and is no step.  Delays  *)
(* of the background loop are not kept: it may wake up any time.           *)
(***************************************************************************)
EXTENDS Naturals

CONSTANTS
    Calls,        \* invocations of send()
    Procs,        \* processes that have the database file open
    ProcOf,       \* the process of each call
    Targets,      \* hosts requests are sent to
    TargetOf,     \* the host of each call
    Service,      \* the process that runs the background thread
    Bg, Nobody,   \* who may hold _lock besides a call: the thread, or no one
    MaxAttempts,  \* OfflineQueue(max_attempts)
    MaxTroubles   \* bound: how often in all a process dies, the network or a host
                  \* goes down, stop() is called, a request is broken, or a passing
                  \* exception is raised

ASSUME QueueAssumption ==
    /\ ProcOf \in [Calls -> Procs] /\ TargetOf \in [Calls -> Targets]
    /\ Service \in Procs
    /\ Bg \notin Calls /\ Nobody \notin Calls /\ Bg # Nobody
    /\ MaxAttempts \in Nat \ {0}
    /\ MaxTroubles \in Nat

VARIABLES
    row,      \* the table, by the call whose key the row has
    nextId,   \* its AUTOINCREMENT
    online,   \* whether 1.1.1.1:53 answers, which is_online() probes
    up,       \* hosts that can be reached
    broken,   \* requests every attempt of which raises what _attempt() lets pass
    accepted, \* requests their host has accepted
    call,     \* where each send() stands, or what it returned
    holder,   \* _lock of each process
    fpc,      \* where the flush of each process stands
    rows,     \* its snapshot: the rows it still has to attempt
    cur,      \* the row it is attempting: at most one
    bg,       \* the background thread
    life,     \* start() and stop() as their caller sees them
    stopSet,  \* the _stop event
    lost,     \* history: accepted requests whose answer was not recorded
    troubles  \* counts up to its bound

dbVars    == <<row, nextId>>
flushVars == <<holder, fpc, rows, cur>>
lifeVars  == <<bg, life, stopSet>>
netVars   == <<online, up, broken, accepted, lost>>
vars      == <<row, nextId, online, up, broken, accepted, call, holder, fpc, rows,
               cur, bg, life, stopSet, lost, troubles>>

NoRow == [status |-> "absent", id |-> 0, attempts |-> 0]
Row == [status : {"absent", "pending", "failed"}, id : Nat, attempts : Nat]
Item == [key : Calls, id : Nat, attempts : Nat]

TypeOK ==
    /\ row \in [Calls -> Row] /\ nextId \in Nat \ {0}
    /\ online \in BOOLEAN /\ up \in SUBSET Targets /\ broken \in SUBSET Calls
    /\ accepted \in SUBSET Calls /\ lost \in SUBSET Calls
    /\ call \in [Calls -> {"new", "flush", "flushing", "check",
                           "sent", "queued", "raised", "died"}]
    /\ holder \in [Procs -> Calls \cup {Bg, Nobody}]
    /\ fpc \in [Procs -> {"idle", "next", "http", "answer", "ok", "drop", "retry"}]
    /\ rows \in [Procs -> SUBSET Item] /\ cur \in [Procs -> SUBSET Item]
    /\ bg \in {"none", "loop", "flush", "flushing"}
    /\ life \in {"stopped", "started", "stopping"}
    /\ stopSet \in BOOLEAN
    /\ troubles \in 0..MaxTroubles

Init ==
    /\ row = [c \in Calls |-> NoRow] /\ nextId = 1
    /\ online = TRUE /\ up = Targets /\ broken = {}
    /\ accepted = {} /\ lost = {}
    /\ call = [c \in Calls |-> "new"]
    /\ holder = [p \in Procs |-> Nobody]
    /\ fpc = [p \in Procs |-> "idle"]
    /\ rows = [p \in Procs |-> {}] /\ cur = [p \in Procs |-> {}]
    /\ bg = "none" /\ life = "stopped" /\ stopSet = FALSE
    /\ troubles = 0

Trouble == troubles < MaxTroubles /\ troubles' = troubles + 1

-----------------------------------------------------------------------------
(* The table.                                                               *)

Pending == {c \in Calls : row[c].status = "pending"}
Snapshot == {[key |-> c, id |-> row[c].id, attempts |-> row[c].attempts] : c \in Pending}
Older(c) == {b \in Pending : row[b].id < row[c].id}

-----------------------------------------------------------------------------
(* flush().                                                                 *)

\* The lock is taken and the pending rows are read.
BeginFlush(p, who) ==
    /\ holder[p] = Nobody
    /\ holder' = [holder EXCEPT ![p] = who]
    /\ rows' = [rows EXCEPT ![p] = Snapshot]
    /\ fpc' = [fpc EXCEPT ![p] = "next"]
    /\ UNCHANGED cur

Release(p) ==
    /\ holder' = [holder EXCEPT ![p] = Nobody]
    /\ rows' = [rows EXCEPT ![p] = {}]
    /\ cur' = [cur EXCEPT ![p] = {}]
    /\ fpc' = [fpc EXCEPT ![p] = "idle"]

\* The lock is released and whoever called flush() goes on.
EndFlush(p) ==
    /\ Release(p)
    /\ call' = [c \in Calls |-> IF c = holder[p] THEN "check" ELSE call[c]]
    /\ bg' = IF holder[p] = Bg THEN "loop" ELSE bg

\* An exception leaves flush(): it ends send(), or the background thread.
AbandonFlush(p) ==
    /\ Release(p)
    /\ call' = [c \in Calls |-> IF c = holder[p] THEN "raised" ELSE call[c]]
    /\ bg' = IF holder[p] = Bg THEN "none" ELSE bg

FGoto(p, s) ==
    /\ fpc' = [fpc EXCEPT ![p] = s]
    /\ UNCHANGED <<holder, rows, cur, call, bg>>

Continue(p) ==
    /\ fpc' = [fpc EXCEPT ![p] = "next"]
    /\ cur' = [cur EXCEPT ![p] = {}]
    /\ UNCHANGED <<holder, rows, call, bg>>

NextRow(p) ==
    /\ fpc[p] = "next"
    /\ \/ /\ rows[p] = {}
          /\ EndFlush(p)
       \/ \E i \in rows[p] :
          /\ \A j \in rows[p] : i.id <= j.id
          /\ rows' = [rows EXCEPT ![p] = @ \ {i}]
          /\ cur' = [cur EXCEPT ![p] = {i}]
          /\ fpc' = [fpc EXCEPT ![p] = "http"]
          /\ UNCHANGED <<holder, call, bg>>
    /\ UNCHANGED <<dbVars, netVars, life, stopSet, troubles>>

Reachable(p) == \A i \in cur[p] : TargetOf[i.key] \in up
Broken(p) == \E i \in cur[p] : i.key \in broken
Current(p) == {i.key : i \in cur[p]}

\* The request is accepted, answered with an error status, or goes nowhere;
\* "offline" ends the flush without touching the row.  A broken request is never
\* sent (its URL has no known type), or its host accepts it and answers nonsense.
Attempt(p) ==
    /\ fpc[p] = "http"
    /\ \/ /\ Reachable(p)
          /\ accepted' = accepted \cup Current(p)
          /\ FGoto(p, "answer")
       \/ /\ Reachable(p) /\ ~Broken(p)
          /\ \E s \in {"drop", "retry"} : FGoto(p, s)
          /\ UNCHANGED accepted
       \/ /\ ~Reachable(p)
          /\ EndFlush(p)
          /\ UNCHANGED accepted
       \/ /\ Broken(p)
          /\ AbandonFlush(p)
          /\ UNCHANGED accepted
    /\ UNCHANGED <<dbVars, online, up, broken, lost, life, stopSet, troubles>>

\* The answer to an accepted request: it arrives, a gateway turns it into a
\* 5xx, the connection is gone, or it cannot be read.
Answer(p) ==
    /\ fpc[p] = "answer"
    /\ \/ /\ Reachable(p) /\ ~Broken(p)
          /\ FGoto(p, "ok")
          /\ UNCHANGED lost
       \/ /\ Reachable(p) /\ ~Broken(p)
          /\ lost' = lost \cup Current(p)
          /\ FGoto(p, "retry")
       \/ /\ ~Reachable(p)
          /\ lost' = lost \cup Current(p)
          /\ EndFlush(p)
       \/ /\ Broken(p)
          /\ lost' = lost \cup Current(p)
          /\ AbandonFlush(p)
    /\ UNCHANGED <<dbVars, online, up, broken, accepted, life, stopSet, troubles>>

\* Slip: the DELETE is not committed.
RecordSentRolledBack(p) ==
    /\ fpc[p] = "ok"
    /\ row' = row
    /\ Continue(p)
    /\ UNCHANGED <<nextId, netVars, life, stopSet, troubles>>
RecordSent(p) ==
    /\ fpc[p] = "ok"
    /\ row' = [c \in Calls |->
                 IF \E i \in cur[p] : i.key = c /\ i.id = row[c].id THEN NoRow ELSE row[c]]
    /\ Continue(p)
    /\ UNCHANGED <<nextId, netVars, life, stopSet, troubles>>

\* Slips: go on after a retryable error; forget a request that fails for good;
\* do not count an attempt.
RecordErrorGoesOn(p) ==
    /\ fpc[p] \in {"drop", "retry"}
    /\ \E i \in cur[p] :
        LET n == i.attempts + 1
            s == IF fpc[p] = "drop" \/ n >= MaxAttempts THEN "failed" ELSE "pending"
        IN row' = IF row[i.key].status = "absent" THEN row
                  ELSE [row EXCEPT ![i.key].attempts = n, ![i.key].status = s]
    /\ Continue(p)
    /\ UNCHANGED <<nextId, netVars, life, stopSet, troubles>>
RecordErrorForgets(p) ==
    /\ fpc[p] \in {"drop", "retry"}
    /\ \E i \in cur[p] : row' = [row EXCEPT ![i.key] = NoRow]
    /\ Continue(p)
    /\ UNCHANGED <<nextId, netVars, life, stopSet, troubles>>
RecordErrorUncounted(p) ==
    /\ fpc[p] \in {"drop", "retry"}
    /\ row' = row
    /\ EndFlush(p)
    /\ UNCHANGED <<nextId, netVars, life, stopSet, troubles>>
\* The new count is computed from the snapshot, and the whole status written.
\* The UPDATE changes nothing when the row is gone.
RecordError(p) ==
    /\ fpc[p] \in {"drop", "retry"}
    /\ \E i \in cur[p] :
        LET n == i.attempts + 1
            s == IF fpc[p] = "drop" \/ n >= MaxAttempts THEN "failed" ELSE "pending"
        IN /\ row' = IF row[i.key].status = "absent" THEN row
                     ELSE [row EXCEPT ![i.key].attempts = n, ![i.key].status = s]
           /\ IF s = "pending" THEN EndFlush(p) ELSE Continue(p)
    /\ UNCHANGED <<nextId, netVars, life, stopSet, troubles>>

FlushStep(p) ==
    NextRow(p) \/ Attempt(p) \/ Answer(p) \/ RecordSent(p) \/ RecordError(p)

\* A passing exception: while the request is made or its answer read, or the
\* transaction of its outcome fails and is rolled back.
FlushRaises(p) ==
    /\ fpc[p] \in {"http", "answer", "ok", "drop", "retry"}
    /\ Trouble
    /\ lost' = IF fpc[p] \in {"answer", "ok"} THEN lost \cup Current(p) ELSE lost
    /\ AbandonFlush(p)
    /\ UNCHANGED <<dbVars, online, up, broken, accepted, life, stopSet>>

-----------------------------------------------------------------------------
(* send().                                                                  *)

Enqueue(c) ==
    /\ call[c] = "new"
    /\ row' = [row EXCEPT ![c] = [status |-> "pending", id |-> nextId, attempts |-> 0]]
    /\ nextId' = nextId + 1
    /\ call' = [call EXCEPT ![c] = "flush"]
    /\ \/ UNCHANGED <<broken, troubles>>
       \/ broken' = broken \cup {c} /\ Trouble
    /\ UNCHANGED <<online, up, accepted, lost, flushVars, lifeVars>>

\* flush() returns at once when another thread of the process is flushing.
SendFlush(c) ==
    LET p == ProcOf[c] IN
    /\ call[c] = "flush"
    /\ \/ /\ BeginFlush(p, c)
          /\ call' = [call EXCEPT ![c] = "flushing"]
       \/ /\ holder[p] # Nobody
          /\ call' = [call EXCEPT ![c] = "check"]
          /\ UNCHANGED flushVars
    /\ UNCHANGED <<dbVars, netVars, lifeVars, troubles>>

CheckRow(c) ==
    /\ call[c] = "check"
    /\ call' = [call EXCEPT ![c] = IF row[c].status = "absent" THEN "sent" ELSE "queued"]
    /\ UNCHANGED <<dbVars, netVars, flushVars, lifeVars, troubles>>

CallStep(c) == SendFlush(c) \/ CheckRow(c)

\* The rows, or the row, cannot be read: send() raises.  flush() reads nothing
\* when the lock is taken, and releases it otherwise.
CallRaises(c) ==
    /\ \/ call[c] = "flush" /\ holder[ProcOf[c]] = Nobody
       \/ call[c] = "check"
    /\ Trouble
    /\ call' = [call EXCEPT ![c] = "raised"]
    /\ UNCHANGED <<dbVars, netVars, flushVars, lifeVars>>

-----------------------------------------------------------------------------
(* The background thread, start() and stop().                               *)

\* One turn of the loop.  Its timed wait may end whenever it likes.
BgLoop ==
    /\ bg = "loop"
    /\ bg' = CASE stopSet -> "none"
               [] ~stopSet /\ online /\ Pending # {} -> "flush"
               [] OTHER -> "loop"
    /\ UNCHANGED <<dbVars, netVars, call, flushVars, life, stopSet, troubles>>

BgFlush ==
    /\ bg = "flush"
    /\ \/ /\ BeginFlush(Service, Bg)
          /\ bg' = "flushing"
       \/ /\ holder[Service] # Nobody
          /\ bg' = "loop"
          /\ UNCHANGED flushVars
    /\ UNCHANGED <<dbVars, netVars, call, life, stopSet, troubles>>

BgStep == BgLoop \/ BgFlush

\* pending_count() or the SELECT of flush() fails: nothing catches it.
BgRaises ==
    /\ \/ bg = "loop" /\ ~stopSet
       \/ bg = "flush" /\ holder[Service] = Nobody
    /\ Trouble
    /\ bg' = "none"
    /\ UNCHANGED <<dbVars, netVars, call, flushVars, life, stopSet>>

\* start() does nothing while the old thread is alive.  It may be called again,
\* and then replaces a thread that has ended.
Start ==
    /\ life \in {"stopped", "started"}
    /\ life' = "started"
    /\ IF bg # "none"
       THEN UNCHANGED <<bg, stopSet>>
       ELSE bg' = "loop" /\ stopSet' = FALSE
    /\ UNCHANGED <<dbVars, netVars, call, flushVars, troubles>>

Stop ==
    /\ life = "started" /\ Trouble
    /\ life' = "stopping" /\ stopSet' = TRUE
    /\ UNCHANGED <<dbVars, netVars, call, flushVars, bg>>

\* join(timeout=5): a request may take longer (timeout=10), then stop()
\* returns with the thread still in flush().
StopReturns ==
    /\ life = "stopping"
    /\ bg \in {"none", "flushing"}
    /\ life' = "stopped"
    /\ UNCHANGED <<dbVars, netVars, call, flushVars, bg, stopSet, troubles>>

-----------------------------------------------------------------------------
(* The process dies (its threads with it); the network comes and goes.      *)

Crash(p) ==
    /\ Trouble
    /\ call' = [c \in Calls |->
                  IF ProcOf[c] = p /\ call[c] \in {"flush", "flushing", "check"}
                  THEN "died" ELSE call[c]]
    /\ lost' = IF fpc[p] \in {"answer", "ok"}
               THEN lost \cup Current(p) ELSE lost
    /\ Release(p)
    /\ IF p = Service
       THEN bg' = "none" /\ life' = "stopped" /\ stopSet' = FALSE
       ELSE UNCHANGED lifeVars
    /\ UNCHANGED <<dbVars, online, up, broken, accepted>>

\* The probe of is_online() and the hosts: each may fail without the others, and
\* all do when the network is gone.
GoDown ==
    /\ Trouble
    /\ \/ online' = FALSE /\ UNCHANGED up
       \/ \E t \in up : up' = up \ {t} /\ UNCHANGED online
       \/ online' = FALSE /\ up' = {}
ComeBack ==
    /\ \/ online' = TRUE /\ UNCHANGED up
       \/ \E t \in Targets : up' = up \cup {t} /\ UNCHANGED online
    /\ UNCHANGED troubles
NetChange ==
    /\ GoDown \/ ComeBack
    /\ UNCHANGED <<dbVars, broken, accepted, lost, call, flushVars, lifeVars>>

Next ==
    \/ \E c \in Calls : Enqueue(c) \/ CallStep(c) \/ CallRaises(c)
    \/ \E p \in Procs : FlushStep(p) \/ FlushRaises(p) \/ Crash(p)
    \/ BgStep \/ BgRaises \/ Start \/ Stop \/ StopReturns \/ NetChange

Spec == Init /\ [][Next]_vars

\* The operating system runs every thread; the service starts its queue when it
\* comes up, but need not call start() again when the thread has ended.  Nothing is
\* assumed of the network, the hosts or the callers.
Fairness ==
    /\ \A c \in Calls : WF_vars(CallStep(c))
    /\ \A p \in Procs : WF_vars(FlushStep(p))
    /\ WF_vars(BgStep) /\ WF_vars(life = "stopped" /\ Start)

FairSpec == Spec /\ Fairness

-----------------------------------------------------------------------------
(* Properties.                                                              *)

\* The queue survives crashes: once a request is stored, the server accepts it
\* before its row goes, whichever threads and processes flush and whenever they
\* raise or die; and "sent" is only ever said of an accepted request.
NoLoss ==
    /\ TypeOK
    /\ \A c \in Calls :
         /\ call[c] # "new" => c \in accepted \/ row[c].status # "absent"
         /\ call[c] = "sent" => c \in accepted

\* Requests are replayed in FIFO order: none is accepted while an older one is
\* pending.
FIFO ==
    [][\A p \in Procs : \A i \in cur[p] :
          fpc[p] = "http" /\ fpc'[p] = "answer" => Older(i.key) = {}]_vars

\* A request is sent again only when the first acceptance went unnoticed: its
\* answer was lost, or an exception or the end of the process kept its row.
DuplicatesExplained ==
    [][\A p \in Procs : \A i \in cur[p] :
          fpc[p] = "http" /\ fpc'[p] = "answer" /\ i.key \in accepted => i.key \in lost]_vars

\* After start() has returned, and until stop(), the background flusher has not
\* been told to stop, so that only an exception can end it.
BackgroundRuns == life = "started" => ~stopSet

\* Every stored request is accepted or given up in the end, also one whose own
\* flush() found the lock taken or raised, or whose process died, provided that
\* the background thread is there again and again and is not stopped, the network
\* stays up, and the hosts of the request and of those before it can be reached
\* and none of these is broken.  Of other hosts and requests nothing is assumed.
Settled(c) == c \in accepted \/ row[c].status = "failed"
UpTo(c) == {b \in Pending : row[b].id <= row[c].id}
WayIsFree(c) == online /\ ~stopSet /\ \A b \in UpTo(c) : TargetOf[b] \in up /\ b \notin broken
StoredSettles ==
    \A c \in Calls :
        []<>(bg # "none") /\ <>[]WayIsFree(c) => ((call[c] # "new") ~> Settled(c))

=============================================================================
