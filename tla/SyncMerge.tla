----------------------------- MODULE SyncMerge ------------------------------
(***************************************************************************)
(* The stand-alone record synchroniser sync_manager.py: LocalStore keeps   *)
(* records with their last synced copy, SyncManager pulls, pushes and      *)
(* merges them from a background thread while the application edits.       *)
(*                                                                         *)
(* Concurrency.  The edits run in other threads: an action of the sync     *)
(* thread is one SQLite statement or one HTTP exchange, and edits come in  *)
(* between any two of them, in particular between the read and the write   *)
(* of _apply_server_change.                                                *)
(*                                                                         *)
(* The server is external: it keeps every version of a record, answers a   *)
(* pull with the current copy of what changed after the cursor, and        *)
(* accepts a push only when base_version is current.                       *)
(*                                                                         *)
(* Exceptions.  A failed request or an error status leaves sync_once() as a *)
(* NetworkError or ServerError, which the loop catches.  Nothing catches   *)
(* the others (an answer that is not JSON or not HTTP, or lacks a key, an  *)
(* error of SQLite): they end the thread, while the application goes on.   *)
(*                                                                         *)
(* Abstractions.  updated_at is a clock that ticks with every edit.        *)
(* Delays, trigger() and stop() are not kept: the loop may go round at     *)
(* any time.                                                               *)
(***************************************************************************)
EXTENDS FieldMerge, Sequences, FiniteSets

CONSTANTS
    Ids,          \* record ids
    Writes,       \* the data the application and other clients put
    MaxRounds,    \* MAX_ROUNDS
    MaxEdits,     \* bound: edits of the application
    MaxRemote,    \* bound: edits of other clients
    MaxFaults,    \* bound: failed requests, and exceptions that end the thread
    MaxCrashes    \* bound: how often the process dies

ASSUME SyncAssumption ==
    /\ IsFiniteSet(Ids)
    /\ Writes \subseteq Data
    /\ MaxRounds \in Nat \ {0}
    /\ MaxEdits \in Nat /\ MaxRemote \in Nat
    /\ MaxFaults \in Nat /\ MaxCrashes \in Nat

VARIABLES
    rec,        \* the records table
    cursor,     \* meta: the position up to which changes were pulled
    hist,       \* the server's versions of each record
    log,        \* the server's changes in order: the id that changed
    pc,         \* where the sync thread stands
    wasOnline,  \* was_online of _run
    round,      \* push rounds done in this sync_once()
    inbox,      \* changes of the last pull not yet applied
    nextCursor, \* the cursor that came with them
    change,     \* the change being applied: at most one
    snap,       \* the row read for it
    sent,       \* the rows of the batch being pushed
    results,    \* the server's answers not yet processed
    clock,      \* time.time() of the last edit
    mine,       \* history: the application's last edit of each record
    edits, remotes, faults, crashes   \* bounds

storeVars  == <<rec, cursor>>
serverVars == <<hist, log>>
pullVars   == <<inbox, nextCursor, change, snap>>
pushVars   == <<sent, results, round>>
bounds     == <<edits, remotes, faults, crashes>>
vars == <<rec, cursor, hist, log, pc, wasOnline, round, inbox, nextCursor,
          change, snap, sent, results, clock, mine,
          edits, remotes, faults, crashes>>

Record == [present : BOOLEAN, data : Data, base : Data, version : Nat,
           ts : Nat, deleted : BOOLEAN, dirty : BOOLEAN]
NoRecord == [present |-> FALSE, data |-> Empty, base |-> Empty, version |-> 0,
             ts |-> 0, deleted |-> FALSE, dirty |-> FALSE]
Copy == [data : Data, ts : Nat, deleted : BOOLEAN]
Change == [id : Ids, version : Nat]
Answer == [id : Ids, status : {"ok", "conflict"}, version : Nat]

TypeOK ==
    /\ rec \in [Ids -> Record] /\ cursor \in Nat
    /\ hist \in [Ids -> Seq(Copy)] /\ log \in Seq(Ids)
    /\ pc \in {"wait", "pull", "pullRead", "pullWrite", "push", "pushing",
               "results", "pushWrite", "count", "ended", "dead"}
    /\ wasOnline \in BOOLEAN
    /\ round \in 0..MaxRounds
    /\ inbox \in SUBSET Change /\ nextCursor \in Nat
    /\ change \in SUBSET Change /\ snap \in Record
    /\ sent \in [Ids -> Record] /\ results \in SUBSET Answer
    /\ clock \in Nat
    /\ mine \in [Ids -> [data : Data, deleted : BOOLEAN]]
    /\ edits \in 0..MaxEdits /\ remotes \in 0..MaxRemote
    /\ faults \in 0..MaxFaults /\ crashes \in 0..MaxCrashes

Init ==
    /\ rec = [i \in Ids |-> NoRecord] /\ cursor = 0
    /\ hist = [i \in Ids |-> <<>>] /\ log = <<>>
    /\ pc = "wait" /\ wasOnline = FALSE /\ round = 0
    /\ inbox = {} /\ nextCursor = 0 /\ change = {} /\ snap = NoRecord
    /\ sent = [i \in Ids |-> NoRecord] /\ results = {}
    /\ clock = 0
    /\ mine = [i \in Ids |-> [data |-> Empty, deleted |-> TRUE]]
    /\ edits = 0 /\ remotes = 0 /\ faults = 0 /\ crashes = 0

-----------------------------------------------------------------------------
(* Edits: LocalStore.put() and delete(), and the other clients'.             *)

Put(i, d) ==
    /\ edits < MaxEdits /\ edits' = edits + 1
    /\ clock' = clock + 1
    /\ rec' = [rec EXCEPT ![i].present = TRUE, ![i].data = d, ![i].ts = clock + 1,
                          ![i].deleted = FALSE, ![i].dirty = TRUE]
    /\ mine' = [mine EXCEPT ![i] = [data |-> d, deleted |-> FALSE]]
    /\ UNCHANGED <<cursor, serverVars, pc, wasOnline, pullVars, pushVars,
                   remotes, faults, crashes>>

Delete(i) ==
    /\ rec[i].present
    /\ edits < MaxEdits /\ edits' = edits + 1
    /\ clock' = clock + 1
    /\ rec' = [rec EXCEPT ![i].deleted = TRUE, ![i].dirty = TRUE, ![i].ts = clock + 1]
    /\ mine' = [mine EXCEPT ![i].deleted = TRUE]
    /\ UNCHANGED <<cursor, serverVars, pc, wasOnline, pullVars, pushVars,
                   remotes, faults, crashes>>

RemoteEdit(i, d, del) ==
    /\ remotes < MaxRemote /\ remotes' = remotes + 1
    /\ clock' = clock + 1
    /\ hist' = [hist EXCEPT ![i] = Append(@, [data |-> d, ts |-> clock + 1, deleted |-> del])]
    /\ log' = Append(log, i)
    /\ UNCHANGED <<storeVars, pc, wasOnline, pullVars, pushVars, mine,
                   edits, faults, crashes>>

-----------------------------------------------------------------------------
(* The loop of _run.                                                        *)

Dirty == {i \in Ids : rec[i].present /\ rec[i].dirty}
Goto(s) == pc' = s

Fault == faults < MaxFaults /\ faults' = faults + 1

\* A NetworkError or ServerError leaves sync_once(); the loop waits for its next turn.
Abort ==
    /\ Fault
    /\ Goto("wait")
    /\ UNCHANGED <<storeVars, clock, mine, edits, remotes, crashes>>

\* server_is_up(), then: sync on reconnect, and whenever there is local work.
Probe ==
    /\ pc = "wait"
    /\ \/ /\ Fault
          /\ wasOnline' = FALSE
          /\ UNCHANGED <<pc, round>>
       \/ /\ wasOnline' = TRUE
          /\ IF ~wasOnline \/ Dirty # {}
             THEN Goto("pull") /\ round' = 0
             ELSE UNCHANGED <<pc, round>>
          /\ UNCHANGED faults
    /\ UNCHANGED <<storeVars, serverVars, pullVars, sent, results, clock, mine,
                   edits, remotes, crashes>>

-----------------------------------------------------------------------------
(* pull().                                                                  *)

Newest(i) == Len(hist[i])

\* Slip: the cursor moves before the changes are applied.
PullMovesCursor ==
    /\ pc = "pull"
    /\ \E n \in cursor..Len(log) :
         /\ n = cursor => cursor = Len(log)
         /\ nextCursor' = n /\ cursor' = n
         /\ inbox' = {[id |-> log[k], version |-> Newest(log[k])] : k \in (cursor + 1)..n}
    /\ Goto("pullRead")
    /\ UNCHANGED <<rec, clock, mine, bounds>>
    /\ UNCHANGED <<serverVars, wasOnline, change, snap, pushVars>>
\* The server answers with the changes up to some later position of its log,
\* an empty list when there are none.
Pull ==
    /\ pc = "pull"
    /\ \/ /\ \E n \in cursor..Len(log) :
               /\ n = cursor => cursor = Len(log)
               /\ nextCursor' = n
               /\ inbox' = {[id |-> log[k], version |-> Newest(log[k])] :
                              k \in (cursor + 1)..n}
          /\ Goto("pullRead")
          /\ UNCHANGED <<storeVars, clock, mine, bounds>>
       \/ Abort /\ UNCHANGED <<inbox, nextCursor>>
    /\ UNCHANGED <<serverVars, wasOnline, change, snap, pushVars>>

\* _apply_server_change reads the row before it opens its transaction.
PullRead ==
    /\ pc = "pullRead"
    /\ \E ch \in inbox :
        /\ change' = {ch} /\ inbox' = inbox \ {ch}
        /\ snap' = rec[ch.id]
    /\ Goto("pullWrite")
    /\ UNCHANGED <<storeVars, serverVars, wasOnline, nextCursor, pushVars,
                   clock, mine, bounds>>

\* Slip: a merged row keeps its old version.
AppliedKeepsVersion(ch) ==
    LET srv == hist[ch.id][ch.version]
        merged == Resolve(snap, srv)
    IN IF ~snap.present \/ ~snap.dirty
       THEN [rec EXCEPT ![ch.id] =
               [present |-> TRUE, data |-> srv.data, base |-> srv.data,
                version |-> ch.version, ts |-> srv.ts, deleted |-> srv.deleted,
                dirty |-> FALSE]]
       ELSE IF ~rec[ch.id].present THEN rec
       ELSE [rec EXCEPT ![ch.id].data = merged.data, ![ch.id].deleted = merged.deleted,
                        ![ch.id].base = srv.data, ![ch.id].dirty = TRUE]
\* A clean row is replaced; a dirty one is merged and stays dirty, its
\* updated_at unchanged.  The UPDATE of the merge does nothing to a row that
\* is not there.
Applied(ch) ==
    LET srv == hist[ch.id][ch.version]
        merged == Resolve(snap, srv)
    IN IF ~snap.present \/ ~snap.dirty
       THEN [rec EXCEPT ![ch.id] =
               [present |-> TRUE, data |-> srv.data, base |-> srv.data,
                version |-> ch.version, ts |-> srv.ts, deleted |-> srv.deleted,
                dirty |-> FALSE]]
       ELSE IF ~rec[ch.id].present THEN rec
       ELSE [rec EXCEPT ![ch.id].data = merged.data, ![ch.id].deleted = merged.deleted,
                        ![ch.id].base = srv.data, ![ch.id].version = ch.version,
                        ![ch.id].dirty = TRUE]

PullWrite ==
    /\ pc = "pullWrite"
    /\ \E ch \in change : rec' = Applied(ch)
    /\ change' = {} /\ snap' = NoRecord
    /\ Goto("pullRead")
    /\ UNCHANGED <<cursor, serverVars, wasOnline, inbox, nextCursor, pushVars,
                   clock, mine, bounds>>

\* The cursor moves once everything is applied; an empty answer ends pull().
PullEnds ==
    /\ pc = "pullRead" /\ inbox = {}
    /\ cursor' = nextCursor
    /\ CASE nextCursor # cursor -> Goto("pull")
         [] nextCursor = cursor /\ round < MaxRounds -> Goto("push")
         [] OTHER -> Goto("wait")
    /\ UNCHANGED <<rec, serverVars, wasOnline, pullVars, pushVars, clock, mine, bounds>>

-----------------------------------------------------------------------------
(* push().                                                                  *)

ReadBatch ==
    /\ pc = "push"
    /\ IF Dirty = {}
       THEN Goto("wait") /\ UNCHANGED sent
       ELSE /\ Goto("pushing")
            /\ sent' = [i \in Ids |-> IF i \in Dirty THEN rec[i] ELSE NoRecord]
    /\ UNCHANGED <<storeVars, serverVars, wasOnline, pullVars, results, round,
                   clock, mine, bounds>>

Batch == {i \in Ids : sent[i].present}
Accepted == {i \in Batch : sent[i].version = Newest(i)}

\* The server has processed the whole request when it answers.
ServerPushes ==
    /\ hist' = [i \in Ids |->
                  IF i \in Accepted
                  THEN Append(hist[i], [data |-> sent[i].data, ts |-> sent[i].ts,
                                        deleted |-> sent[i].deleted])
                  ELSE hist[i]]
    /\ \E order \in [1..Cardinality(Accepted) -> Accepted] :
        /\ \A a \in Accepted : \E k \in DOMAIN order : order[k] = a
        /\ log' = log \o order

Answers ==
    {[id |-> i, status |-> "ok", version |-> Newest(i) + 1] : i \in Accepted}
    \cup {[id |-> i, status |-> "conflict", version |-> Newest(i)] : i \in Batch \ Accepted}

PushRequest ==
    /\ pc = "pushing"
    /\ \/ /\ ServerPushes
          /\ results' = Answers
          /\ Goto("results")
          /\ UNCHANGED <<storeVars, clock, mine, bounds>>
       \/ /\ ServerPushes /\ Abort          \* the answer is lost
          /\ UNCHANGED results
       \/ Abort /\ UNCHANGED <<serverVars, results>>
    /\ UNCHANGED <<wasOnline, pullVars, sent, round>>

\* Slips: the base becomes what the row holds now; the row is clean whatever
\* was edited meanwhile.
ResultOkBaseNow ==
    /\ pc = "results"
    /\ \E a \in results :
        /\ a.status = "ok"
        /\ results' = results \ {a}
        /\ rec' = IF ~rec[a.id].present THEN rec
                  ELSE [rec EXCEPT ![a.id].version = a.version,
                                   ![a.id].base = rec[a.id].data,
                                   ![a.id].dirty = (rec[a.id].ts # sent[a.id].ts)]
    /\ UNCHANGED <<cursor, serverVars, pc, wasOnline, pullVars, sent, round,
                   clock, mine, bounds>>
ResultOkClean ==
    /\ pc = "results"
    /\ \E a \in results :
        /\ a.status = "ok"
        /\ results' = results \ {a}
        /\ rec' = IF ~rec[a.id].present THEN rec
                  ELSE [rec EXCEPT ![a.id].version = a.version,
                                   ![a.id].base = sent[a.id].data,
                                   ![a.id].dirty = FALSE]
    /\ UNCHANGED <<cursor, serverVars, pc, wasOnline, pullVars, sent, round,
                   clock, mine, bounds>>
\* Stay dirty if edited again while the request was in flight.
ResultOk ==
    /\ pc = "results"
    /\ \E a \in results :
        /\ a.status = "ok"
        /\ results' = results \ {a}
        /\ rec' = IF ~rec[a.id].present THEN rec
                  ELSE [rec EXCEPT ![a.id].version = a.version,
                                   ![a.id].base = sent[a.id].data,
                                   ![a.id].dirty = (rec[a.id].ts # sent[a.id].ts)]
    /\ UNCHANGED <<cursor, serverVars, pc, wasOnline, pullVars, sent, round,
                   clock, mine, bounds>>

ResultConflict ==
    /\ pc = "results"
    /\ \E a \in results :
        /\ a.status = "conflict"
        /\ results' = results \ {a}
        /\ change' = {[id |-> a.id, version |-> a.version]}
        /\ snap' = rec[a.id]
    /\ Goto("pushWrite")
    /\ UNCHANGED <<storeVars, serverVars, wasOnline, inbox, nextCursor, sent,
                   round, clock, mine, bounds>>

PushWrite ==
    /\ pc = "pushWrite"
    /\ \E ch \in change : rec' = Applied(ch)
    /\ change' = {} /\ snap' = NoRecord
    /\ Goto("results")
    /\ UNCHANGED <<cursor, serverVars, wasOnline, inbox, nextCursor, pushVars,
                   clock, mine, bounds>>

\* DELETE FROM records WHERE deleted=1 AND dirty=0
Purge ==
    /\ pc = "results" /\ results = {}
    /\ rec' = [i \in Ids |-> IF rec[i].deleted /\ ~rec[i].dirty THEN NoRecord ELSE rec[i]]
    /\ sent' = [i \in Ids |-> NoRecord]
    /\ Goto("count")
    /\ UNCHANGED <<cursor, serverVars, wasOnline, pullVars, results, round,
                   clock, mine, bounds>>

Count ==
    /\ pc = "count"
    /\ IF Dirty = {} THEN Goto("wait") /\ UNCHANGED round
                     ELSE Goto("pull") /\ round' = round + 1
    /\ UNCHANGED <<storeVars, serverVars, wasOnline, pullVars, sent, results,
                   clock, mine, bounds>>

SyncStep ==
    \/ Probe \/ Pull \/ PullRead \/ PullWrite \/ PullEnds
    \/ ReadBatch \/ PushRequest \/ ResultOk \/ ResultConflict \/ PushWrite
    \/ Purge \/ Count

\* The thread is gone, and with it what it had in hand.
ThreadGone ==
    /\ wasOnline' = FALSE /\ round' = 0
    /\ inbox' = {} /\ nextCursor' = 0 /\ change' = {} /\ snap' = NoRecord
    /\ sent' = [i \in Ids |-> NoRecord] /\ results' = {}
    /\ UNCHANGED <<storeVars, clock, mine, edits, remotes>>

\* Another exception ends the thread, wherever it is: the statement it was at is
\* rolled back, but a push may have been processed.
Escape ==
    /\ pc \notin {"ended", "dead"} /\ Fault
    /\ Goto("ended")
    /\ ThreadGone
    /\ \/ UNCHANGED serverVars
       \/ pc = "pushing" /\ ServerPushes
    /\ UNCHANGED crashes

\* start() is called again.  Without a call the thread stays away.
Start ==
    /\ pc = "ended"
    /\ Goto("wait")
    /\ UNCHANGED <<storeVars, serverVars, wasOnline, pullVars, pushVars,
                   clock, mine, bounds>>

\* The process dies: the database stays.
Crash ==
    /\ pc # "dead" /\ crashes < MaxCrashes
    /\ crashes' = crashes + 1
    /\ Goto("dead")
    /\ ThreadGone
    /\ UNCHANGED <<serverVars, faults>>

Restart ==
    /\ pc = "dead"
    /\ Goto("wait")
    /\ UNCHANGED <<storeVars, serverVars, wasOnline, pullVars, pushVars,
                   clock, mine, bounds>>

Next ==
    \/ \E i \in Ids : Delete(i) \/ \E d \in Writes : Put(i, d)
    \/ \E i \in Ids, d \in Writes, del \in BOOLEAN : RemoteEdit(i, d, del)
    \/ SyncStep \/ Escape \/ Start \/ Crash \/ Restart

Spec == Init /\ [][Next]_vars

\* The thread runs and a dead process is restarted.  Nothing obliges anyone to call
\* start() again, edits or faults to happen, and the bounds make them cease.
FairSpec == Spec /\ WF_vars(SyncStep) /\ WF_vars(Restart)

-----------------------------------------------------------------------------
(* Properties.                                                              *)

\* The merge base is right: it is the copy the server had at the version the
\* record says it is based on, through conflicts, lost answers and edits made
\* while a request was in flight.
BaseIsServerCopy ==
    \A i \in Ids : rec[i].present =>
        IF rec[i].version = 0 THEN rec[i].base = Empty
        ELSE /\ rec[i].version <= Newest(i)
             /\ rec[i].base = hist[i][rec[i].version].data

\* A record counts as synced only when it is what the server has at its
\* version: an edit made while its push was in flight keeps it dirty.
CleanIsServers ==
    \A i \in Ids : rec[i].present /\ ~rec[i].dirty =>
        /\ rec[i].version \in 1..Newest(i)
        /\ rec[i].data = hist[i][rec[i].version].data
        /\ rec[i].deleted = hist[i][rec[i].version].deleted

\* What a record says of the server is true: its base, and that it is synced.
CopiesTrue == TypeOK /\ BaseIsServerCopy /\ CleanIsServers

\* No server change is skipped: whatever lies before the cursor has reached the
\* record, unless it is a tombstone whose row was purged.
CursorSound ==
    \A k \in 1..cursor :
        LET i == log[k]
            v == Cardinality({j \in 1..k : log[j] = i})
        IN rec[i].version >= v \/ \E w \in v..Newest(i) : hist[i][w].deleted

\* A merge that no edit raced keeps both sides: a field only one of them changed
\* since the last synced copy holds that side's value, an untouched one is kept.
Merging(i) ==
    /\ pc \in {"pullWrite", "pushWrite"} /\ pc' \in {"pullRead", "results"}
    /\ rec[i].present /\ rec[i].dirty /\ rec[i] = snap /\ ~snap.deleted
MergedWell ==
    [][\A ch \in change :
          LET srv == hist[ch.id][ch.version] IN
          Merging(ch.id) /\ ~srv.deleted =>
             KeepsBothSides(snap.base, snap.data, srv.data, rec'[ch.id].data)]_vars

\* Local edits are pushed: once faults and edits cease, nothing stays dirty, unless
\* an exception has ended the thread and nobody calls start() again.
DirtySyncs == []<>(pc # "ended") => ((Dirty # {}) ~> (Dirty = {}))

\* As long as no other client edits, a record that counts as synced holds what the
\* application wrote last: its edits are not overwritten behind its back.
SyncedAsWritten ==
    remotes = 0 =>
        \A i \in Ids : rec[i].present /\ ~rec[i].dirty =>
            /\ rec[i].deleted = mine[i].deleted
            /\ ~mine[i].deleted => rec[i].data = mine[i].data

=============================================================================
