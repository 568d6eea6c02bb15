------------------------------- MODULE Outbox -------------------------------
(***************************************************************************)
(* The backend's failover and sync agent: SyncManager                      *)
(* (backend/app/services/sync_manager.py) on top of the SQLite outbox of   *)
(* LocalStore (backend/app/database/local_store.py).                       *)
(*                                                                         *)
(* Concurrency.  Everything runs on one asyncio loop, so another coroutine *)
(* can only run at an await.  Every action below is therefore the code     *)
(* between two awaits, and every value of a program counter is one await:  *)
(* a store transaction (run by asyncio.to_thread) or a request to the      *)
(* cloud.  Cancelling a coroutine that waits for a transaction does not    *)
(* stop the worker thread: the transaction becomes an orphan that commits  *)
(* later, or is dropped when no thread had picked it up yet.               *)
(*                                                                         *)
(* Abstractions.  Time: "backoff" says that next_attempt_at lies in the    *)
(* future.  The trigger event and report_failure only shorten waits, and   *)
(* the worker may always wake up by its poll_interval, so neither is kept. *)
(***************************************************************************)
EXTENDS Naturals, FiniteSets

CONSTANTS
    Calls,          \* invocations of submit(), each made at most once
    Keys,           \* idempotency keys
    KeyOf,          \* the key each call passes; two calls may share one
    Worker,         \* the background task created by start()
    Admins,         \* concurrent sync_now() callers
    MaxAttempts,    \* LocalStore(max_attempts)
    BatchSize,      \* SyncConfig.batch_size
    MaxStops,       \* bound: how often stop() is called
    MaxCrashes,     \* bound: how often the process dies
    StoreMayFail    \* whether a transaction may raise LocalStoreError

ASSUME OutboxAssumption ==
    /\ KeyOf \in [Calls -> Keys]
    /\ Worker \notin Admins
    /\ MaxAttempts \in Nat \ {0}
    /\ BatchSize \in Nat \ {0}
    /\ MaxStops \in Nat
    /\ MaxCrashes \in Nat
    /\ StoreMayFail \in BOOLEAN

VARIABLES
    up,         \* the process runs and its store is open
    online,     \* monitor.is_online
    stopping,   \* SyncManager._stopping: no worker task exists once stop() is done
    row,        \* the outbox table, by its UNIQUE column idempotency_key
    nextId,     \* AUTOINCREMENT of the table
    cloud,      \* keys whose request the cloud has accepted
    call,       \* where each submit() stands, or how it ended
    dpc,        \* where each drain() stands
    batch,      \* items peeked and not yet looked at, per drain
    taken,      \* the item a drain is delivering: at most one
    orphan,     \* transactions whose coroutine was cancelled
    stops, crashes,  \* bounds
    seen        \* history: the ids given out before submit() was called

storeVars == <<row, nextId>>
drainVars == <<dpc, batch, taken, orphan>>
callVars  == <<call, seen>>
envVars   == <<up, online, stopping, stops, crashes>>
vars      == <<row, nextId, cloud, call, seen, dpc, batch, taken, orphan,
               up, online, stopping, stops, crashes>>

Drainers == Admins \cup {Worker}

LiveStatus == {"pending", "in_flight"}
NoRow == [status |-> "absent", id |-> 0, attempts |-> 0, backoff |-> FALSE]
Row == [status : LiveStatus \cup {"dead", "absent"}, id : Nat,
        attempts : Nat, backoff : BOOLEAN]
Item == [key : Keys, id : Nat]
Txn  == [op : {"claim", "complete", "retry", "dead"}, key : Keys, id : Nat]

Returned  == {"sent", "queued", "rejected", "failed"}
CallState == {"new", "count", "send", "ack", "enqueue"} \cup Returned

StoreStep == {"peek", "claim", "complete", "retry", "dead", "release"}
DrainState == {"idle", "check", "send", "ack"} \cup StoreStep

TypeOK ==
    /\ row \in [Keys -> Row]
    /\ nextId \in Nat \ {0}
    /\ cloud \in SUBSET Keys
    /\ call \in [Calls -> CallState]
    /\ seen \in [Calls -> Nat]
    /\ dpc \in [Drainers -> DrainState]
    /\ batch \in [Drainers -> SUBSET Item]
    /\ taken \in [Drainers -> SUBSET Item]
    /\ orphan \in SUBSET Txn
    /\ up \in BOOLEAN /\ online \in BOOLEAN /\ stopping \in BOOLEAN
    /\ stops \in 0..MaxStops /\ crashes \in 0..MaxCrashes

Init ==
    /\ row = [k \in Keys |-> NoRow]
    /\ nextId = 1
    /\ cloud = {}
    /\ call = [c \in Calls |-> "new"]
    /\ seen = [c \in Calls |-> 0]
    /\ dpc = [d \in Drainers |-> "idle"]
    /\ batch = [d \in Drainers |-> {}]
    /\ taken = [d \in Drainers |-> {}]
    /\ orphan = {}
    /\ up = TRUE
    /\ online \in BOOLEAN
    /\ stopping = FALSE
    /\ stops = 0
    /\ crashes = 0

-----------------------------------------------------------------------------
(* LocalStore: what each transaction leaves in the table.                   *)

Live(k) == row[k].status \in LiveStatus
\* Slip: rows in flight are not counted.
BacklogOfPending == {k \in Keys : row[k].status = "pending"}
Backlog == {k \in Keys : Live(k)}                        \* backlog_count
Pending == {k \in Keys : row[k].status = "pending"}

IsRowOf(i) == row[i.key].status # "absent" /\ row[i.key].id = i.id

Inserted(k) ==                                           \* ON CONFLICT DO NOTHING
    IF row[k].status = "absent"
    THEN [row EXCEPT ![k] = [NoRow EXCEPT !.status = "pending", !.id = nextId]]
    ELSE row

CanClaim(i) == IsRowOf(i) /\ row[i.key].status = "pending"
\* Slip: dequeue before delivery.
ClaimedByDelete(i) ==
    IF CanClaim(i) THEN [row EXCEPT ![i.key] = NoRow] ELSE row
Claimed(i) ==
    IF CanClaim(i) THEN [row EXCEPT ![i.key].status = "in_flight"] ELSE row

Completed(i) ==
    IF IsRowOf(i) THEN [row EXCEPT ![i.key] = NoRow] ELSE row

Exhausts(i) == IsRowOf(i) /\ row[i.key].attempts + 1 >= MaxAttempts
\* Slip: the status is left as it was claimed.
RetriedStillClaimed(i) ==
    IF IsRowOf(i)
    THEN [row EXCEPT ![i.key].status = IF Exhausts(i) THEN "dead" ELSE @,
                     ![i.key].attempts = @ + 1,
                     ![i.key].backoff = TRUE]
    ELSE row
Retried(i) ==
    IF IsRowOf(i)
    THEN [row EXCEPT ![i.key].status = IF Exhausts(i) THEN "dead" ELSE "pending",
                     ![i.key].attempts = @ + 1,
                     ![i.key].backoff = TRUE]
    ELSE row

Parked(i) ==                                             \* mark_dead
    IF IsRowOf(i) THEN [row EXCEPT ![i.key].status = "dead"] ELSE row

Released(i) ==
    IF IsRowOf(i) /\ row[i.key].status = "in_flight"
    THEN [row EXCEPT ![i.key].status = "pending"] ELSE row

\* peek: the oldest BatchSize pending rows.
Peeked ==
    {i \in {[key |-> k, id |-> row[k].id] : k \in Pending} :
        Cardinality({k \in Pending : row[k].id < i.id}) < BatchSize}

\* Slip: open() recovers nothing.
RecoveredNothing == row
\* _open: rows left in flight by the previous process were never confirmed.
Recovered ==
    [k \in Keys |-> IF row[k].status = "in_flight"
                    THEN [row[k] EXCEPT !.status = "pending"] ELSE row[k]]

-----------------------------------------------------------------------------
(* submit().                                                                *)

Goto(c, s) == call' = [call EXCEPT ![c] = s]

Submit(c) ==
    /\ up /\ call[c] = "new"
    /\ seen' = [seen EXCEPT ![c] = nextId]
    /\ Goto(c, IF online THEN "count" ELSE "enqueue")
    /\ UNCHANGED <<storeVars, cloud, drainVars, envVars>>

CountBacklog(c) ==
    /\ call[c] = "count"
    /\ Goto(c, IF Backlog = {} THEN "send" ELSE "enqueue")
    /\ UNCHANGED <<storeVars, cloud, drainVars, envVars, seen>>

\* The request reaches the cloud and is accepted, is refused for good
\* (PermanentSyncError propagates to the caller), or fails transiently.
DirectSend(c) ==
    /\ call[c] = "send"
    /\ \/ /\ cloud' = cloud \cup {KeyOf[c]}
          /\ Goto(c, "ack")
       \/ /\ Goto(c, "rejected")
          /\ UNCHANGED cloud
       \/ /\ Goto(c, "enqueue")
          /\ UNCHANGED cloud
    /\ UNCHANGED <<storeVars, drainVars, envVars, seen>>

\* The answer arrives, or is lost and looks like a transient failure.
DirectAnswer(c) ==
    /\ call[c] = "ack"
    /\ \E s \in {"sent", "enqueue"} : Goto(c, s)
    /\ UNCHANGED <<storeVars, cloud, drainVars, envVars, seen>>

Enqueue(c) ==
    /\ call[c] = "enqueue"
    /\ row' = Inserted(KeyOf[c])
    /\ nextId' = IF row[KeyOf[c]].status = "absent" THEN nextId + 1 ELSE nextId
    /\ Goto(c, "queued")
    /\ UNCHANGED <<cloud, drainVars, envVars, seen>>

\* LocalStoreError propagates to the caller, who knows nothing was promised.
SubmitStoreError(c) ==
    /\ StoreMayFail
    /\ call[c] \in {"count", "enqueue"}
    /\ Goto(c, "failed")
    /\ UNCHANGED <<storeVars, cloud, drainVars, envVars, seen>>

CallStep(c) ==
    \/ CountBacklog(c) \/ DirectSend(c) \/ DirectAnswer(c) \/ Enqueue(c)
    \/ SubmitStoreError(c)
-----------------------------------------------------------------------------
(* drain() and _deliver().                                                  *)

LockFree == \A d \in Drainers : dpc[d] = "idle"          \* _drain_lock

DGoto(d, s) == dpc' = [dpc EXCEPT ![d] = s]

\* Leave drain(): the lock is released, the batch forgotten.
Leave(d) ==
    /\ dpc' = [dpc EXCEPT ![d] = "idle"]
    /\ batch' = [batch EXCEPT ![d] = {}]
    /\ taken' = [taken EXCEPT ![d] = {}]

\* The outcome of a delivery was "ok" or "skip": go on with the batch.
NextItem(d) ==
    /\ dpc' = [dpc EXCEPT ![d] = "check"]
    /\ taken' = [taken EXCEPT ![d] = {}]
    /\ UNCHANGED batch

BeginDrain(d) ==
    /\ up /\ LockFree /\ online /\ ~stopping
    /\ DGoto(d, "peek")
    /\ UNCHANGED <<storeVars, cloud, callVars, batch, taken, orphan, envVars>>

Peek(d) ==
    /\ dpc[d] = "peek"
    /\ \/ /\ Peeked = {}
          /\ Leave(d)
       \/ /\ Peeked # {}
          /\ batch' = [batch EXCEPT ![d] = Peeked]
          /\ DGoto(d, "check")
          /\ UNCHANGED taken
    /\ UNCHANGED <<storeVars, cloud, callVars, orphan, envVars>>

\* The batch is used up: test the loop condition, then peek again.
NextBatch(d) ==
    /\ dpc[d] = "check" /\ batch[d] = {}
    /\ IF online /\ ~stopping
       THEN DGoto(d, "peek") /\ UNCHANGED <<batch, taken>>
       ELSE Leave(d)
    /\ UNCHANGED <<storeVars, cloud, callVars, orphan, envVars>>

IsOldest(i, S) == i \in S /\ \A j \in S : i.id <= j.id
BackingOff(i) == IsRowOf(i) /\ row[i.key].backoff

CheckItem(d) ==
    /\ dpc[d] = "check"
    /\ \E i \in batch[d] :
        /\ IsOldest(i, batch[d])
        /\ IF online /\ ~BackingOff(i)
           THEN /\ batch' = [batch EXCEPT ![d] = @ \ {i}]
                /\ taken' = [taken EXCEPT ![d] = {i}]
                /\ DGoto(d, "claim")
           ELSE Leave(d)
    /\ UNCHANGED <<storeVars, cloud, callVars, orphan, envVars>>

Claim(d) ==
    /\ dpc[d] = "claim"
    /\ \E i \in taken[d] :
        /\ row' = Claimed(i)
        /\ IF CanClaim(i)
           THEN DGoto(d, "send") /\ UNCHANGED <<batch, taken>>
           ELSE NextItem(d)
    /\ UNCHANGED <<nextId, cloud, callVars, orphan, envVars>>

Send(d) ==
    /\ dpc[d] = "send"
    /\ \/ /\ \E i \in taken[d] : cloud' = cloud \cup {i.key}
          /\ DGoto(d, "ack")
       \/ /\ \E s \in {"dead", "retry"} : DGoto(d, s)
          /\ UNCHANGED cloud
    /\ UNCHANGED <<storeVars, callVars, batch, taken, orphan, envVars>>

Answer(d) ==
    /\ dpc[d] = "ack"
    /\ \E s \in {"complete", "retry"} : DGoto(d, s)
    /\ UNCHANGED <<storeVars, cloud, callVars, batch, taken, orphan, envVars>>

Complete(d) ==
    /\ dpc[d] = "complete"
    /\ \E i \in taken[d] : row' = Completed(i)
    /\ NextItem(d)
    /\ UNCHANGED <<nextId, cloud, callVars, orphan, envVars>>

MarkDead(d) ==
    /\ dpc[d] = "dead"
    /\ \E i \in taken[d] : row' = Parked(i)
    /\ NextItem(d)
    /\ UNCHANGED <<nextId, cloud, callVars, orphan, envVars>>

\* Slip: a transient failure is skipped, too.
RetryLaterGoesOn(d) ==
    /\ dpc[d] = "retry"
    /\ \E i \in taken[d] : row' = Retried(i)
    /\ NextItem(d)
    /\ UNCHANGED <<nextId, cloud, callVars, orphan, envVars>>
\* A dead item is skipped; any other failure stops the drain to keep order.
RetryLater(d) ==
    /\ dpc[d] = "retry"
    /\ \E i \in taken[d] :
        /\ row' = Retried(i)
        /\ IF Exhausts(i) THEN NextItem(d) ELSE Leave(d)
    /\ UNCHANGED <<nextId, cloud, callVars, orphan, envVars>>

\* The shielded release() of a send that stop() cancelled.
Release(d) ==
    /\ dpc[d] = "release"
    /\ \E i \in taken[d] : row' = Released(i)
    /\ Leave(d)
    /\ UNCHANGED <<nextId, cloud, callVars, orphan, envVars>>

\* LocalStoreError leaves drain() whatever the item's status is by then.
DrainStoreError(d) ==
    /\ StoreMayFail
    /\ dpc[d] \in StoreStep
    /\ Leave(d)
    /\ UNCHANGED <<storeVars, cloud, callVars, orphan, envVars>>

DrainStep(d) ==
    \/ Peek(d) \/ NextBatch(d) \/ CheckItem(d) \/ Claim(d) \/ Send(d)
    \/ Answer(d) \/ Complete(d) \/ MarkDead(d) \/ RetryLater(d) \/ Release(d)
    \/ DrainStoreError(d)

-----------------------------------------------------------------------------
(* start(), stop(), the crash of the process, time and the monitor.          *)

\* Transactions of the worker that outlive its cancellation.
Outliving ==
    {[op |-> dpc[Worker], key |-> i.key, id |-> i.id] : i \in taken[Worker]}

Stop ==
    /\ up /\ ~stopping /\ stops < MaxStops
    /\ stopping' = TRUE
    /\ stops' = stops + 1
    /\ \/ /\ dpc[Worker] \in {"send", "ack"}
          /\ DGoto(Worker, "release")
          /\ UNCHANGED <<batch, taken, orphan>>
       \/ /\ dpc[Worker] \in {"idle", "peek", "check"}
          /\ Leave(Worker)
          /\ UNCHANGED orphan
       \/ /\ dpc[Worker] \in {"claim", "complete", "retry", "dead"}
          /\ Leave(Worker)
          /\ orphan' \in {orphan, orphan \cup Outliving}
    /\ UNCHANGED <<storeVars, cloud, callVars, up, online, crashes>>

CommitOrphan(t) ==
    /\ t \in orphan
    /\ LET i == [key |-> t.key, id |-> t.id] IN
       \/ t.op = "claim" /\ row' = Claimed(i)
       \/ t.op = "complete" /\ row' = Completed(i)
       \/ t.op = "retry" /\ row' = Retried(i)
       \/ t.op = "dead" /\ row' = Parked(i)
    /\ orphan' = orphan \ {t}
    /\ UNCHANGED <<nextId, cloud, callVars, dpc, batch, taken, envVars>>

\* Slip: start() puts rows in flight back, as open() does.
StartRecovers ==
    /\ up /\ stopping
    /\ dpc[Worker] = "idle"
    /\ stopping' = FALSE
    /\ row' = Recovered
    /\ UNCHANGED <<nextId, cloud, callVars, drainVars, up, online, stops, crashes>>
Start ==
    /\ up /\ stopping
    /\ dpc[Worker] = "idle"                              \* stop() has returned
    /\ stopping' = FALSE
    /\ UNCHANGED <<storeVars, cloud, callVars, drainVars, up, online, stops, crashes>>

Crash ==
    /\ up /\ crashes < MaxCrashes
    /\ up' = FALSE
    /\ crashes' = crashes + 1
    /\ online' = FALSE
    /\ stopping' = FALSE
    /\ call' = [c \in Calls |->
                  IF call[c] \in Returned \cup {"new"} THEN call[c] ELSE "failed"]
    /\ dpc' = [d \in Drainers |-> "idle"]
    /\ batch' = [d \in Drainers |-> {}]
    /\ taken' = [d \in Drainers |-> {}]
    /\ orphan' = {}
    /\ UNCHANGED <<storeVars, cloud, seen, stops>>

\* store.open(), monitor.start() with its first check, then start().
Restart ==
    /\ ~up
    /\ up' = TRUE
    /\ row' = Recovered
    /\ online' \in BOOLEAN
    /\ UNCHANGED <<nextId, cloud, callVars, drainVars, stopping, stops, crashes>>

StatusChange ==
    /\ up
    /\ online' = ~online
    /\ UNCHANGED <<storeVars, cloud, callVars, drainVars, up, stopping, stops, crashes>>

BackoffElapses(k) ==
    /\ row[k].backoff
    /\ row' = [row EXCEPT ![k].backoff = FALSE]
    /\ UNCHANGED <<nextId, cloud, callVars, drainVars, envVars>>

Next ==
    \/ \E c \in Calls : Submit(c) \/ CallStep(c)
    \/ \E d \in Drainers : BeginDrain(d) \/ DrainStep(d)
    \/ Stop \/ Start \/ Crash \/ Restart \/ StatusChange
    \/ \E t \in orphan : CommitOrphan(t)
    \/ \E k \in Keys : BackoffElapses(k)

Spec == Init /\ [][Next]_vars

\* The loop schedules every coroutine that can run, the worker wakes up by its
\* poll_interval, time passes, and the supervisor restarts a dead process.
\* Nothing is assumed of callers, of the network or of what the cloud answers.
Fairness ==
    /\ \A c \in Calls : WF_vars(CallStep(c))
    /\ \A d \in Drainers : WF_vars(DrainStep(d))
    /\ WF_vars(BeginDrain(Worker))
    /\ WF_vars(Restart)
    /\ \A k \in Keys : WF_vars(BackoffElapses(k))

FairSpec == Spec /\ Fairness

-----------------------------------------------------------------------------
(* Properties.                                                              *)

\* What submit() answered stays true through crashes, lost answers, cancelled
\* drains and store errors: "sent" means the cloud has the request, "queued"
\* that it has it or that the outbox still holds the row.
NoLoss ==
    \A c \in Calls :
        /\ call[c] = "sent" => KeyOf[c] \in cloud
        /\ call[c] = "queued" =>
              KeyOf[c] \in cloud \/ row[KeyOf[c]].status # "absent"

\* Whoever is about to write the outcome of a delivery -- a drain that has
\* claimed the item, or the orphaned transaction of a cancelled one -- is the
\* only one to do so, and finds the row as it was claimed.
Claimant(d, i) == i \in taken[d] /\ dpc[d] # "claim"
Outcomes == {t \in orphan : t.op # "claim"}
SoleWriter ==
    /\ \A d \in Drainers : \A i \in taken[d] : Claimant(d, i) =>
         /\ row[i.key].status = "in_flight" /\ row[i.key].id = i.id
         /\ \A e \in Drainers \ {d} : \A j \in taken[e] : Claimant(e, j) => j.key # i.key
         /\ \A t \in Outcomes : t.key # i.key
    /\ \A t \in Outcomes :
         /\ row[t.key].status = "in_flight" /\ row[t.key].id = t.id
         /\ \A u \in Outcomes : u.key = t.key => u = t

\* A request sent directly never overtakes one that was queued before its
\* submit() was called: no live row of the outbox is that old.
NoOvertake ==
    [][\A c \in Calls :
          call[c] = "send" /\ call'[c] = "ack" =>
             \A k \in Keys : Live(k) => row[k].id >= seen[c]]_vars

\* The outbox is drained in FIFO order: a drain hands an item to the cloud only
\* when no older item is pending.  stop() ends the guarantee: an orphaned
\* transaction may put an older item back.
DrainFIFO ==
    [][stops = 0 =>
        \A d \in Drainers : \A i \in taken[d] :
          dpc[d] = "send" /\ dpc'[d] = "ack" =>
             \A k \in Pending : row[k].id > i.id]_vars

\* A row is marked in flight only while a drain is delivering it, so that no
\* row waits for the next process to be put back.
InFlightOwned ==
    \A k \in Keys : up /\ row[k].status = "in_flight" =>
        \E d \in Drainers : \E i \in taken[d] : i.key = k /\ Claimant(d, i)

\* start() drains anything left over from a previous run: when the worker runs
\* again and no transaction of the old one is outstanding, no row is left in
\* flight without an owner.
LeftoversRecovered == ~stopping /\ orphan = {} => InFlightOwned

\* Once connectivity stays up, whatever was queued reaches the cloud or is
\* parked as dead: no item waits for ever.
Settled(k) == k \in cloud \/ row[k].status = "dead"
QueuedSettles ==
    <>[]online => \A c \in Calls : (call[c] = "queued") ~> Settled(KeyOf[c])

=============================================================================
