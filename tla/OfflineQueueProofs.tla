------------------------- MODULE OfflineQueueProofs -------------------------
(***************************************************************************)
(* What TLAPS proves of OfflineQueue.  NoLoss holds for any number of      *)
(* calls and of processes on one database file; the order of the replay    *)
(* and the explanation of duplicates need the lock, so they are proved for *)
(* a single process.                                                       *)
(***************************************************************************)
EXTENDS OfflineQueue, TLAPS

-----------------------------------------------------------------------------
(* Type correctness.                                                        *)

LEMMA InitType == Init => TypeOK
<1>1. NoRow \in Row
  BY DEF NoRow, Row
<1> SUFFICES ASSUME Init PROVE TypeOK
  OBVIOUS
<1>2. /\ row \in [Calls -> Row] /\ nextId \in Nat \ {0}
      /\ call \in [Calls -> {"new", "flush", "flushing", "check",
                             "sent", "queued", "raised", "died"}]
  BY <1>1 DEF Init
<1>3. /\ holder \in [Procs -> Calls \cup {Bg, Nobody}]
      /\ fpc \in [Procs -> {"idle", "next", "http", "answer", "ok", "drop", "retry"}]
      /\ rows \in [Procs -> SUBSET Item] /\ cur \in [Procs -> SUBSET Item]
  BY DEF Init
<1>4. troubles \in 0..MaxTroubles
  BY QueueAssumption DEF Init
<1>5. QED
  BY <1>2, <1>3, <1>4 DEF Init, TypeOK

LEMMA SnapshotType == TypeOK => Snapshot \in SUBSET Item
BY DEF TypeOK, Snapshot, Pending, Item, Row

\* What the record of a failed attempt leaves in the table.
Errored(p, i) ==
    LET n == i.attempts + 1
        s == IF fpc[p] = "drop" \/ n >= MaxAttempts THEN "failed" ELSE "pending"
    IN IF row[i.key].status = "absent" THEN row
       ELSE [row EXCEPT ![i.key].attempts = n, ![i.key].status = s]

LEMMA ErroredType ==
    ASSUME TypeOK, NEW p \in Procs, NEW i \in Item
    PROVE  Errored(p, i) \in [Calls -> Row]
<1> DEFINE n == i.attempts + 1
           s == IF fpc[p] = "drop" \/ n >= MaxAttempts THEN "failed" ELSE "pending"
           r == [row[i.key] EXCEPT !.attempts = n, !.status = s]
<1>1. i.key \in Calls /\ n \in Nat
  BY DEF Item
<1>2. r \in Row
  BY <1>1 DEF TypeOK, Row
<1>3. [row EXCEPT ![i.key].attempts = n, ![i.key].status = s] = [row EXCEPT ![i.key] = r]
  BY <1>1 DEF TypeOK, Row
<1>4. QED
  BY <1>1, <1>2, <1>3 DEF TypeOK, Errored

LEMMA TroubleType == TypeOK /\ Trouble => troubles' \in 0..MaxTroubles
BY QueueAssumption DEF TypeOK, Trouble

\* How a flush ends: on its own account, or by an exception.
LEMMA FlushEndType ==
    ASSUME TypeOK, NEW p \in Procs, EndFlush(p) \/ AbandonFlush(p)
    PROVE  /\ holder' \in [Procs -> Calls \cup {Bg, Nobody}]
           /\ fpc' \in [Procs -> {"idle", "next", "http", "answer", "ok", "drop", "retry"}]
           /\ rows' \in [Procs -> SUBSET Item] /\ cur' \in [Procs -> SUBSET Item]
           /\ call' \in [Calls -> {"new", "flush", "flushing", "check",
                                   "sent", "queued", "raised", "died"}]
           /\ bg' \in {"none", "loop", "flush", "flushing"}
BY DEF TypeOK, EndFlush, AbandonFlush, Release

LEMMA FlushStepType ==
    ASSUME TypeOK, NEW p \in Procs, FlushStep(p) \/ FlushRaises(p)
    PROVE  TypeOK'
<1> USE DEF TypeOK, dbVars, netVars, Continue, FGoto
<1>0. /\ cur[p] \in SUBSET Item /\ rows[p] \in SUBSET Item
      /\ Current(p) \in SUBSET Calls
  BY DEF Current, Item
<1>1. CASE NextRow(p)
  <2>1. CASE EndFlush(p)
    BY <1>1, <2>1, FlushEndType DEF NextRow
  <2>2. CASE ~EndFlush(p)
    BY <1>1, <1>0, <2>2 DEF NextRow
  <2>3. QED
    BY <2>1, <2>2
<1>2. CASE Attempt(p)
  <2>0. accepted' \in SUBSET Calls
    BY <1>2, <1>0 DEF Attempt
  <2>1. CASE EndFlush(p) \/ AbandonFlush(p)
    BY <1>2, <2>0, <2>1, FlushEndType DEF Attempt
  <2>2. CASE ~(EndFlush(p) \/ AbandonFlush(p))
    BY <1>2, <2>0, <2>2 DEF Attempt
  <2>3. QED
    BY <2>1, <2>2
<1>3. CASE Answer(p)
  <2>0. lost' \in SUBSET Calls
    BY <1>3, <1>0 DEF Answer
  <2>1. CASE EndFlush(p) \/ AbandonFlush(p)
    BY <1>3, <2>0, <2>1, FlushEndType DEF Answer
  <2>2. CASE ~(EndFlush(p) \/ AbandonFlush(p))
    BY <1>3, <2>0, <2>2 DEF Answer
  <2>3. QED
    BY <2>1, <2>2
<1>4. CASE RecordSent(p)
  BY <1>4, <1>0 DEF RecordSent, NoRow, Row
<1>5. CASE RecordError(p)
  <2>1. \E i \in cur[p] : row' = Errored(p, i)
    BY <1>5 DEF RecordError, Errored
  <2>2. row' \in [Calls -> Row]
    BY <2>1, <1>0, ErroredType
  <2>3. CASE EndFlush(p)
    BY <1>5, <2>2, <2>3, FlushEndType DEF RecordError
  <2>4. CASE Continue(p)
    BY <1>5, <2>2, <2>4 DEF RecordError
  <2>5. QED
    BY <1>5, <2>3, <2>4 DEF RecordError
<1>6. CASE FlushRaises(p)
  BY <1>0, <1>6, FlushEndType, TroubleType DEF FlushRaises
<1>7. QED
  BY <1>1, <1>2, <1>3, <1>4, <1>5, <1>6 DEF FlushStep

LEMMA CallStepType ==
    ASSUME TypeOK, NEW c \in Calls, Enqueue(c) \/ CallStep(c) \/ CallRaises(c)
    PROVE  TypeOK'
<1> USE QueueAssumption DEF TypeOK, dbVars, netVars, flushVars, lifeVars
<1>1. CASE Enqueue(c)
  BY <1>1, TroubleType DEF Enqueue, Row
<1>2. CASE SendFlush(c)
  BY <1>2, SnapshotType DEF SendFlush, BeginFlush
<1>3. CASE CheckRow(c)
  BY <1>3 DEF CheckRow
<1>4. CASE CallRaises(c)
  BY <1>4, TroubleType DEF CallRaises
<1>5. QED
  BY <1>1, <1>2, <1>3, <1>4 DEF CallStep

LEMMA OtherStepType ==
    ASSUME TypeOK,
           BgStep \/ BgRaises \/ Start \/ Stop \/ StopReturns \/ NetChange \/ \E p \in Procs : Crash(p)
    PROVE  TypeOK'
<1> USE QueueAssumption DEF TypeOK, dbVars, netVars, flushVars, lifeVars
<1>1. CASE BgLoop
  BY <1>1 DEF BgLoop
<1>2. CASE BgFlush
  BY <1>2, SnapshotType DEF BgFlush, BeginFlush
<1>3. CASE BgRaises
  BY <1>3, TroubleType DEF BgRaises
<1>4. CASE Start
  BY <1>4 DEF Start
<1>5. CASE Stop
  BY <1>5, TroubleType DEF Stop
<1>6. CASE StopReturns
  BY <1>6 DEF StopReturns
<1>7. CASE NetChange
  BY <1>7, TroubleType DEF NetChange, GoDown, ComeBack
<1>8. ASSUME NEW p \in Procs, Crash(p) PROVE TypeOK'
  <2>1. lost' \in SUBSET Calls
    BY <1>8 DEF Crash, Current, Item
  <2>2. call' \in [Calls -> {"new", "flush", "flushing", "check",
                             "sent", "queued", "raised", "died"}]
    BY <1>8 DEF Crash
  <2>3. troubles' \in 0..MaxTroubles
    BY <1>8, TroubleType DEF Crash
  <2>4. bg' \in {"none", "loop", "flush", "flushing"} /\ stopSet' \in BOOLEAN
        /\ life' \in {"stopped", "started", "stopping"}
    BY <1>8 DEF Crash
  <2>5. QED
    BY <1>8, <2>1, <2>2, <2>3, <2>4 DEF Crash, Release
<1>9. QED
  BY <1>1, <1>2, <1>3, <1>4, <1>5, <1>6, <1>7, <1>8 DEF BgStep

LEMMA NextType == TypeOK /\ [Next]_vars => TypeOK'
<1> SUFFICES ASSUME TypeOK, [Next]_vars PROVE TypeOK'
  OBVIOUS
<1>1. CASE UNCHANGED vars
  BY <1>1 DEF vars, TypeOK
<1>2. CASE Next
  BY <1>2, FlushStepType, CallStepType, OtherStepType DEF Next
<1>3. QED
  BY <1>1, <1>2

-----------------------------------------------------------------------------
(* No request is lost.  What makes NoLoss inductive is what a flush knows    *)
(* between the server's answer and the DELETE, and that the call that holds  *)
(* a lock is one of that process, in its flush.                              *)

OneCur == \A p \in Procs : \A i, j \in cur[p] : i = j

AnswerIsTrue ==
    \A p \in Procs : fpc[p] \in {"answer", "ok"} => \A i \in cur[p] : i.key \in accepted

HolderFlushes ==
    \A p \in Procs : holder[p] \in Calls =>
        ProcOf[holder[p]] = p /\ call[holder[p]] = "flushing"

Kept == \A c \in Calls : call[c] # "new" => c \in accepted \/ row[c].status # "absent"
SentIsAccepted == \A c \in Calls : call[c] = "sent" => c \in accepted

QInv == TypeOK /\ OneCur /\ AnswerIsTrue /\ HolderFlushes /\ Kept /\ SentIsAccepted

LEMMA InitQInv == Init => QInv
<1> SUFFICES ASSUME Init PROVE QInv
  OBVIOUS
<1>1. TypeOK
  BY InitType
<1>2. OneCur /\ AnswerIsTrue /\ HolderFlushes /\ Kept /\ SentIsAccepted
  BY QueueAssumption
  DEF Init, OneCur, AnswerIsTrue, HolderFlushes, Kept, SentIsAccepted
<1>3. QED
  BY <1>1, <1>2 DEF QInv

\* What a flush step may do to the calls and to the lock: nothing, or release it.
CallsRest(p) ==
    \/ UNCHANGED <<holder, call>>
    \/ /\ holder' = [holder EXCEPT ![p] = Nobody]
       /\ \E s \in {"check", "raised"} :
             call' = [c \in Calls |-> IF c = holder[p] THEN s ELSE call[c]]

LEMMA FlushStepCalls ==
    ASSUME TypeOK, NEW p \in Procs, FlushStep(p) \/ FlushRaises(p)
    PROVE  CallsRest(p)
BY DEF FlushStep, NextRow, Attempt, Answer, RecordSent, RecordError, FlushRaises,
       EndFlush, AbandonFlush, Release, FGoto, Continue, CallsRest

\* The row goes only when the request was accepted.
LEMMA FlushStepTable ==
    ASSUME QInv, NEW p \in Procs, FlushStep(p) \/ FlushRaises(p)
    PROVE  /\ accepted \subseteq accepted'
           /\ \A c \in Calls : row[c].status # "absent" =>
                 row'[c].status # "absent" \/ c \in accepted
<1> USE DEF QInv, dbVars, netVars
<1>1. CASE NextRow(p) \/ Attempt(p) \/ Answer(p) \/ FlushRaises(p)
  BY <1>1 DEF NextRow, Attempt, Answer, FlushRaises
<1>2. CASE RecordSent(p)
  BY <1>2 DEF RecordSent, AnswerIsTrue
<1>3. CASE RecordError(p)
  <2>1. PICK i \in cur[p] : row' = Errored(p, i)
    BY <1>3 DEF RecordError, Errored
  <2>2. i.key \in Calls
    BY DEF TypeOK, Item
  <2>3. QED
    BY <1>3, <2>1, <2>2 DEF RecordError, Errored, TypeOK, Row
<1>4. QED
  BY <1>1, <1>2, <1>3 DEF FlushStep

LEMMA FlushStepCur ==
    ASSUME QInv, NEW p \in Procs, FlushStep(p) \/ FlushRaises(p)
    PROVE  OneCur' /\ AnswerIsTrue'
<1> USE DEF QInv, TypeOK, EndFlush, AbandonFlush, Release, FGoto, Continue, netVars
<1>1. CASE NextRow(p)
  BY <1>1 DEF NextRow, OneCur, AnswerIsTrue
<1>2. CASE Attempt(p)
  <2>1. OneCur'
    BY <1>2 DEF Attempt, OneCur
  <2>2. CASE accepted' = accepted \cup Current(p) /\ FGoto(p, "answer")
    BY <1>2, <2>2 DEF Attempt, Current, OneCur, AnswerIsTrue
  <2>3. CASE UNCHANGED accepted
    <3>1. fpc'[p] \notin {"answer", "ok"} \/ accepted' = accepted \cup Current(p)
      BY <1>2 DEF Attempt
    <3>2. \A q \in Procs : q # p => fpc'[q] = fpc[q] /\ cur'[q] = cur[q]
      BY <1>2 DEF Attempt
    <3>3. \A i \in cur'[p] : i \in cur[p]
      BY <1>2 DEF Attempt
    <3>4. AnswerIsTrue'
      BY <2>3, <3>1, <3>2, <3>3 DEF AnswerIsTrue, Current
    <3>5. QED
      BY <2>1, <3>4
  <2>4. QED
    BY <1>2, <2>1, <2>2, <2>3 DEF Attempt
<1>3. CASE Answer(p)
  BY <1>3 DEF Answer, OneCur, AnswerIsTrue
<1>4. CASE RecordSent(p)
  BY <1>4 DEF RecordSent, OneCur, AnswerIsTrue
<1>5. CASE RecordError(p)
  BY <1>5 DEF RecordError, OneCur, AnswerIsTrue
<1>6. CASE FlushRaises(p)
  BY <1>6 DEF FlushRaises, OneCur, AnswerIsTrue
<1>7. QED
  BY <1>1, <1>2, <1>3, <1>4, <1>5, <1>6 DEF FlushStep

LEMMA FlushStepQInv ==
    ASSUME QInv, NEW p \in Procs, FlushStep(p) \/ FlushRaises(p)
    PROVE  QInv'
<1> USE QueueAssumption DEF QInv
<1>1. CallsRest(p)
  BY FlushStepCalls
<1>2. HolderFlushes'
  BY <1>1 DEF CallsRest, HolderFlushes, TypeOK
<1>3. \A c \in Calls : /\ call'[c] # "new" => call[c] # "new"
                       /\ call'[c] = "sent" => call[c] = "sent"
  BY <1>1 DEF CallsRest, HolderFlushes, TypeOK
<1>4. Kept' /\ SentIsAccepted'
  BY <1>3, FlushStepTable DEF Kept, SentIsAccepted
<1>5. QED
  BY <1>2, <1>4, FlushStepCur, FlushStepType

LEMMA CallStepQInv ==
    ASSUME QInv, NEW c \in Calls, Enqueue(c) \/ CallStep(c) \/ CallRaises(c)
    PROVE  QInv'
<1> USE QueueAssumption DEF QInv, TypeOK, dbVars, netVars, flushVars
<1>0. TypeOK'
  BY CallStepType
<1>1. CASE Enqueue(c)
  BY <1>0, <1>1
  DEF Enqueue, OneCur, AnswerIsTrue, HolderFlushes, Kept, SentIsAccepted
<1>2. CASE SendFlush(c)
  BY <1>0, <1>2 
  DEF SendFlush, BeginFlush, OneCur, AnswerIsTrue, HolderFlushes, Kept, SentIsAccepted
<1>3. CASE CheckRow(c)
  BY <1>0, <1>3
  DEF CheckRow, OneCur, AnswerIsTrue, HolderFlushes, Kept, SentIsAccepted
<1>4. CASE CallRaises(c)
  BY <1>0, <1>4
  DEF CallRaises, OneCur, AnswerIsTrue, HolderFlushes, Kept, SentIsAccepted
<1>5. QED
  BY <1>1, <1>2, <1>3, <1>4 DEF CallStep

LEMMA OtherStepQInv ==
    ASSUME QInv,
           BgStep \/ BgRaises \/ Start \/ Stop \/ StopReturns \/ NetChange \/ \E p \in Procs : Crash(p)
    PROVE  QInv'
<1> USE QueueAssumption DEF QInv, TypeOK, dbVars, netVars, flushVars, lifeVars
<1>0. TypeOK'
  BY OtherStepType
<1>1. CASE BgFlush
  BY <1>0, <1>1
  DEF BgFlush, BeginFlush, OneCur, AnswerIsTrue, HolderFlushes, Kept, SentIsAccepted
<1>2. CASE BgLoop \/ BgRaises \/ Start \/ Stop \/ StopReturns \/ NetChange
  <2>1. UNCHANGED <<dbVars, accepted, call, flushVars>>
    BY <1>2 DEF BgLoop, BgRaises, Start, Stop, StopReturns, NetChange
  <2>2. QED
    BY <1>0, <2>1 DEF OneCur, AnswerIsTrue, HolderFlushes, Kept, SentIsAccepted
<1>3. ASSUME NEW p \in Procs, Crash(p) PROVE QInv'
  <2>1. OneCur' /\ AnswerIsTrue' /\ HolderFlushes'
    BY <1>3 DEF Crash, Release, OneCur, AnswerIsTrue, HolderFlushes
  <2>2. Kept' /\ SentIsAccepted'
    BY <1>3 DEF Crash, Kept, SentIsAccepted
  <2>3. QED
    BY <1>0, <2>1, <2>2
<1>4. QED
  BY <1>1, <1>2, <1>3 DEF BgStep

LEMMA NextQInv == QInv /\ [Next]_vars => QInv'
<1> SUFFICES ASSUME QInv, [Next]_vars PROVE QInv'
  OBVIOUS
<1>1. CASE UNCHANGED vars
  BY <1>1 DEF vars, QInv, TypeOK, OneCur, AnswerIsTrue, HolderFlushes, Kept, SentIsAccepted
<1>2. CASE Next
  BY <1>2, FlushStepQInv, CallStepQInv, OtherStepQInv DEF Next
<1>3. QED
  BY <1>1, <1>2

\* The queue survives crashes: a stored request is accepted before its row goes,
\* whichever threads and processes flush and whenever they die, and send()
\* reports only accepted requests as sent.
THEOREM StoredRequestsAreKept == Spec => []NoLoss
<1>1. QInv => NoLoss
  BY DEF QInv, NoLoss, Kept, SentIsAccepted
<1>2. QED
  BY <1>1, InitQInv, NextQInv, PTL DEF Spec

-----------------------------------------------------------------------------
(* One process.  While its lock is held the snapshot is still the table:     *)
(* rows that came later are newer, and no other writer touches a row that is *)
(* yet to be attempted.                                                      *)

SingleProcess == \A p, q \in Procs : p = q

Batch(p) == rows[p] \cup cur[p]

SnapshotCurrent ==
    \A p \in Procs : \A i \in Batch(p) :
        /\ row[i.key].status = "pending"
        /\ row[i.key].id = i.id /\ row[i.key].attempts = i.attempts

LaterIsNewer ==
    \A p \in Procs : holder[p] # Nobody => \A c \in Pending :
        \/ \E i \in Batch(p) : i.key = c
        \/ \A i \in Batch(p) : i.id < row[c].id

BatchShape ==
    \A p \in Procs :
        /\ \A i \in cur[p] : i \notin rows[p] /\ \A j \in rows[p] : i.id <= j.id
        /\ holder[p] = Nobody => rows[p] = {} /\ cur[p] = {}
        /\ holder[p] = Nobody <=> fpc[p] = "idle"
        /\ fpc[p] = "next" => cur[p] = {}

RowsAreStored ==
    /\ \A c \in Calls : row[c].id < nextId
    /\ \A c \in Calls : row[c].status # "absent" => call[c] # "new"
    /\ \A c \in accepted : call[c] # "new"

Unnoticed ==
    \A c \in accepted : row[c].status = "pending" =>
        \/ c \in lost
        \/ \E p \in Procs : fpc[p] \in {"answer", "ok"} /\ \E i \in cur[p] : i.key = c

SInv == QInv /\ SnapshotCurrent /\ LaterIsNewer /\ BatchShape /\ RowsAreStored /\ Unnoticed

LEMMA InitSInv == Init => SInv
<1> SUFFICES ASSUME Init PROVE SInv
  OBVIOUS
<1>1. SnapshotCurrent /\ LaterIsNewer /\ BatchShape
  BY QueueAssumption DEF Init, SnapshotCurrent, LaterIsNewer, BatchShape, Batch
<1>2. RowsAreStored /\ Unnoticed
  BY DEF Init, NoRow, RowsAreStored, Unnoticed
<1>3. QED
  BY <1>1, <1>2, InitQInv DEF SInv

\* The row of the attempt is there, and no pending row is older.
LEMMA AttemptedIsOldest ==
    ASSUME SInv, NEW p \in Procs, fpc[p] = "http", NEW i \in cur[p]
    PROVE  Older(i.key) = {} /\ row[i.key].status = "pending"
<1> USE DEF SInv
<1>1. /\ row[i.key].status = "pending" /\ row[i.key].id = i.id
      /\ i \in Item
  BY DEF SnapshotCurrent, Batch, QInv, TypeOK
<1>2. ASSUME NEW b \in Pending, row[b].id < i.id PROVE FALSE
  <2>0. row[b].id \in Nat /\ i.id \in Nat
    BY <1>1 DEF Pending, QInv, TypeOK, Row, Item
  <2>1. \E j \in Batch(p) : j.key = b
    BY <1>1, <1>2, <2>0 DEF LaterIsNewer, BatchShape, Batch, QInv, TypeOK
  <2>2. PICK j \in Batch(p) : j.key = b
    BY <2>1
  <2>3. row[b].id = j.id
    BY <2>2 DEF SnapshotCurrent
  <2>4. i.id <= j.id
    BY <2>0, <2>2, <2>3 DEF BatchShape, Batch, QInv, OneCur
  <2>5. QED
    BY <1>2, <2>0, <2>3, <2>4
<1>3. QED
  BY <1>1, <1>2 DEF Older

\* Nothing is left of the snapshot when the lock is released.
LEMMA EndFlushSInv ==
    ASSUME SingleProcess, NEW p \in Procs, EndFlush(p) \/ AbandonFlush(p), TypeOK
    PROVE  SnapshotCurrent' /\ LaterIsNewer' /\ BatchShape'
<1>1. /\ \A q \in Procs : q = p
      /\ holder'[p] = Nobody /\ rows'[p] = {} /\ cur'[p] = {} /\ fpc'[p] = "idle"
  BY DEF SingleProcess, EndFlush, AbandonFlush, Release, TypeOK
<1>2. QED
  BY <1>1 DEF SnapshotCurrent, LaterIsNewer, BatchShape, Batch

\* The next row of the snapshot is taken.
LEMMA NextRowBatch ==
    ASSUME SingleProcess, SInv, NEW p \in Procs, NextRow(p)
    PROVE  SnapshotCurrent' /\ LaterIsNewer' /\ BatchShape'
<1>0. TypeOK /\ QInv /\ SnapshotCurrent /\ LaterIsNewer /\ BatchShape
  BY DEF SInv, QInv
<1>1. CASE EndFlush(p)
  BY <1>0, <1>1, EndFlushSInv
<1>2. CASE ~EndFlush(p)
  <2>1. PICK i \in rows[p] :
          /\ \A j \in rows[p] : i.id <= j.id
          /\ rows' = [rows EXCEPT ![p] = @ \ {i}]
          /\ cur' = [cur EXCEPT ![p] = {i}]
          /\ fpc' = [fpc EXCEPT ![p] = "http"]
          /\ UNCHANGED <<holder, row>>
    BY <1>2 DEF NextRow, dbVars
  <2>2. \A q \in Procs : q = p
    BY DEF SingleProcess
  <2>3. cur[p] = {} /\ holder[p] # Nobody
    BY <1>0 DEF NextRow, BatchShape
  <2>4. Batch(p)' = Batch(p)
    BY <1>0, <2>1, <2>3 DEF TypeOK, Batch
  <2>5. SnapshotCurrent'
    BY <1>0, <2>1, <2>2, <2>4 DEF SnapshotCurrent
  <2>6. LaterIsNewer'
    BY <1>0, <2>1, <2>2, <2>3, <2>4 DEF LaterIsNewer, Pending
  <2>7. BatchShape'
    BY <1>0, <2>1, <2>2, <2>3 DEF BatchShape, TypeOK
  <2>8. QED
    BY <2>5, <2>6, <2>7
<1>3. QED
  BY <1>1, <1>2

\* The attempt is over and its row is no longer pending: the rest is the table.
LEMMA ContinueBatch ==
    ASSUME SingleProcess, SInv, NEW p \in Procs, Continue(p),
           fpc[p] # "idle", fpc[p] # "next", row' \in [Calls -> Row],
           NEW i \in cur[p], 
           \A c \in Calls : c # i.key => row'[c] = row[c],
           row'[i.key].status # "pending"
    PROVE  SnapshotCurrent' /\ LaterIsNewer' /\ BatchShape'
<1>0. TypeOK /\ OneCur /\ SnapshotCurrent /\ LaterIsNewer /\ BatchShape
  BY DEF SInv, QInv
<1>1. \A q \in Procs : q = p
  BY DEF SingleProcess
<1>2. /\ rows' = rows /\ cur'[p] = {} /\ cur[p] = {i}
      /\ holder' = holder /\ holder[p] # Nobody /\ fpc'[p] = "next"
      /\ i \in Item
  BY <1>0 DEF Continue, TypeOK, OneCur, BatchShape
<1>3. Batch(p)' = rows[p] /\ Batch(p) = rows[p] \cup {i}
  BY <1>2 DEF Batch
<1>4. \A j \in rows[p] : j \in Item /\ j.key # i.key
  <2> SUFFICES ASSUME NEW j \in rows[p], j.key = i.key PROVE FALSE
    BY <1>0 DEF TypeOK
  <2>1. j \in Item /\ j.id = i.id /\ j.attempts = i.attempts
    BY <1>0, <1>2, <1>3 DEF TypeOK, SnapshotCurrent
  <2>2. j = i
    BY <1>2, <2>1 DEF Item
  <2>3. QED
    BY <1>0, <2>2 DEF BatchShape
<1>5. SnapshotCurrent'
  BY <1>0, <1>1, <1>3, <1>4 DEF SnapshotCurrent, Item
<1>6. LaterIsNewer'
  <2> SUFFICES ASSUME NEW c \in Pending'
               PROVE  \/ \E j \in rows[p] : j.key = c
                      \/ \A j \in rows[p] : j.id < row'[c].id
    BY <1>1, <1>3 DEF LaterIsNewer
  <2>1. c \in Pending /\ c # i.key /\ row'[c] = row[c]
    BY DEF Pending
  <2>2. QED
    BY <1>0, <1>2, <1>3, <2>1 DEF LaterIsNewer
<1>7. BatchShape'
  BY <1>0, <1>1, <1>2 DEF BatchShape
<1>8. QED
  BY <1>5, <1>6, <1>7

LEMMA FlushStepBatch ==
    ASSUME SingleProcess, SInv, NEW p \in Procs, FlushStep(p) \/ FlushRaises(p)
    PROVE  SnapshotCurrent' /\ LaterIsNewer' /\ BatchShape'
<1>0. TypeOK /\ TypeOK' /\ OneCur /\ SnapshotCurrent /\ LaterIsNewer /\ BatchShape
  BY FlushStepType DEF SInv, QInv
<1>1. CASE NextRow(p)
  BY <1>1, NextRowBatch
<1>2. CASE EndFlush(p) \/ AbandonFlush(p)
  BY <1>0, <1>2, EndFlushSInv
<1>3. ASSUME NEW s \in {"answer", "ok", "drop", "retry"}, FGoto(p, s),
             fpc[p] \in {"http", "answer"}, UNCHANGED row
      PROVE  SnapshotCurrent' /\ LaterIsNewer' /\ BatchShape'
  <2>1. \A q \in Procs : q = p
    BY DEF SingleProcess
  <2>2. UNCHANGED <<holder, rows, cur>> /\ fpc'[p] = s
    BY <1>0, <1>3 DEF FGoto, TypeOK
  <2>3. QED
    BY <1>0, <1>3, <2>1, <2>2
    DEF SnapshotCurrent, LaterIsNewer, BatchShape, Batch, Pending
<1>4. CASE RecordSent(p)
  <2>1. CASE cur[p] = {}
    <3>1. \A q \in Procs : q = p
      BY DEF SingleProcess
    <3>2. /\ row' = row /\ rows' = rows /\ holder' = holder
          /\ cur'[p] = {} /\ fpc[p] = "ok" /\ fpc'[p] = "next"
      BY <1>0, <1>4, <2>1 DEF RecordSent, Continue, TypeOK
    <3>3. QED
      BY <1>0, <2>1, <3>1, <3>2
      DEF SnapshotCurrent, LaterIsNewer, BatchShape, Batch, Pending
  <2>2. ASSUME NEW i \in cur[p] PROVE SnapshotCurrent' /\ LaterIsNewer' /\ BatchShape'
    <3>1. i \in Item /\ i.id = row[i.key].id /\ \A j \in cur[p] : j = i
      BY <1>0 DEF TypeOK, OneCur, SnapshotCurrent, Batch, Item
    <3>2. /\ \A c \in Calls : c # i.key => row'[c] = row[c]
          /\ row'[i.key].status # "pending"
      BY <1>4, <3>1 DEF RecordSent, NoRow, Item
    <3>3. Continue(p) /\ fpc[p] = "ok"
      BY <1>4 DEF RecordSent
    <3>4. QED
      BY <1>0, <3>2, <3>3, ContinueBatch DEF TypeOK
  <2>3. QED
    BY <2>1, <2>2
<1>5. CASE RecordError(p) /\ ~EndFlush(p)
  <2>1. PICK i \in cur[p] : 
          /\ row' = Errored(p, i)
          /\ fpc[p] = "drop" \/ i.attempts + 1 >= MaxAttempts
    BY <1>5 DEF RecordError, Errored
  <2>2. i.key \in Calls
    BY <1>0 DEF TypeOK, Item
  <2>3. /\ \A c \in Calls : c # i.key => row'[c] = row[c]
        /\ row'[i.key].status # "pending"
    BY <1>0, <2>1, <2>2 DEF Errored, TypeOK, Row
  <2>4. Continue(p) /\ fpc[p] \in {"drop", "retry"}
    BY <1>5 DEF RecordError
  <2>5. QED
    BY <1>0, <2>3, <2>4, ContinueBatch DEF TypeOK
<1>6. QED
  BY <1>1, <1>2, <1>3, <1>4, <1>5
  DEF FlushStep, FlushRaises, Attempt, Answer, RecordError, dbVars

LEMMA FlushStepStored ==
    ASSUME SInv, NEW p \in Procs, FlushStep(p) \/ FlushRaises(p)
    PROVE  RowsAreStored'
<1>0. TypeOK /\ QInv /\ RowsAreStored /\ CallsRest(p)
  BY FlushStepCalls DEF SInv, QInv
<1>1. \A c \in Calls : call[c] # "new" => call'[c] # "new"
  BY <1>0 DEF CallsRest, TypeOK
<1>2. CASE NextRow(p) \/ Answer(p) \/ FlushRaises(p)
  BY <1>0, <1>1, <1>2
  DEF NextRow, Answer, FlushRaises, RowsAreStored, dbVars, netVars, TypeOK
<1>3. CASE Attempt(p)
  <2>1. \A i \in cur[p] : i.key \in Calls /\ row[i.key].status # "absent"
    BY <1>0, <1>3 DEF Attempt, SInv, SnapshotCurrent, Batch, TypeOK, Item
  <2>2. QED
    BY <1>0, <1>1, <1>3, <2>1 DEF Attempt, Current, RowsAreStored, dbVars, TypeOK
<1>4. CASE RecordSent(p)
  BY <1>0, <1>1, <1>4 DEF RecordSent, RowsAreStored, NoRow, netVars, TypeOK
<1>5. CASE RecordError(p)
  <2>1. PICK i \in cur[p] : row' = Errored(p, i)
    BY <1>5 DEF RecordError, Errored
  <2>2. i.key \in Calls
    BY <1>0 DEF TypeOK, Item
  <2>3. \A c \in Calls : /\ row'[c].id = row[c].id
                         /\ row'[c].status # "absent" => row[c].status # "absent"
    BY <1>0, <2>1, <2>2 DEF Errored, TypeOK, Row
  <2>4. QED
    BY <1>0, <1>1, <1>5, <2>3 DEF RecordError, RowsAreStored, netVars, TypeOK
<1>6. QED
  BY <1>2, <1>3, <1>4, <1>5 DEF FlushStep

LEMMA FlushStepUnnoticed ==
    ASSUME SingleProcess, SInv, NEW p \in Procs, FlushStep(p) \/ FlushRaises(p)
    PROVE  Unnoticed'
<1>0. TypeOK /\ OneCur /\ Unnoticed /\ BatchShape
  BY DEF SInv, QInv
<1>p. \A q \in Procs : q = p
  BY DEF SingleProcess
<1> DEFINE InDoubt(c) == fpc[p] \in {"answer", "ok"} /\ \E i \in cur[p] : i.key = c
<1>u. \A c \in accepted : row[c].status = "pending" => c \in lost \/ InDoubt(c)
  BY <1>0, <1>p DEF Unnoticed
<1>s. SUFFICES ASSUME NEW c \in accepted', row'[c].status = "pending", c \notin lost'
               PROVE  InDoubt(c)'
  BY DEF Unnoticed
<1>1. CASE NextRow(p)
  <2>1. fpc[p] = "next" /\ accepted' = accepted /\ lost' = lost /\ row' = row
    BY <1>1 DEF NextRow, dbVars, netVars
  <2>2. QED
    BY <1>u, <1>s, <2>1
<1>2. CASE Attempt(p)
  <2>1. fpc[p] = "http" /\ lost' = lost /\ row' = row
    BY <1>2 DEF Attempt, dbVars
  <2>2. c \notin accepted
    BY <1>u, <1>s, <2>1
  <2>3. accepted' = accepted \cup Current(p) /\ FGoto(p, "answer")
    BY <1>2, <1>s, <2>2 DEF Attempt
  <2>4. PICK i \in cur[p] : i.key = c
    BY <1>s, <2>2, <2>3 DEF Current
  <2>5. fpc'[p] = "answer" /\ cur' = cur
    BY <1>0, <2>3 DEF FGoto, TypeOK
  <2>6. QED
    BY <2>4, <2>5
<1>3. CASE Answer(p)
  <2>1. fpc[p] = "answer" /\ accepted' = accepted /\ row' = row
    BY <1>3 DEF Answer, dbVars
  <2>2. lost \subseteq lost'
    BY <1>3 DEF Answer
  <2>3. PICK i \in cur[p] : i.key = c
    BY <1>u, <1>s, <2>1, <2>2
  <2>4. FGoto(p, "ok")
    BY <1>3, <1>s, <2>3 DEF Answer, Current
  <2>5. fpc'[p] = "ok" /\ cur' = cur
    BY <1>0, <2>4 DEF FGoto, TypeOK
  <2>6. QED
    BY <2>3, <2>5
<1>4. CASE RecordSent(p)
  <2>1. accepted' = accepted /\ lost' = lost /\ c \in Calls
    BY <1>0, <1>4 DEF RecordSent, netVars, TypeOK
  <2>2. row'[c] = row[c] /\ ~ \E i \in cur[p] : i.key = c /\ i.id = row[c].id
    BY <1>4, <1>s, <2>1 DEF RecordSent, NoRow
  <2>3. \A i \in cur[p] : row[i.key].id = i.id
    BY DEF SInv, SnapshotCurrent, Batch
  <2>4. QED
    BY <1>u, <1>s, <2>1, <2>2, <2>3
<1>5. CASE RecordError(p)
  <2>1. accepted' = accepted /\ lost' = lost /\ fpc[p] \in {"drop", "retry"}
    BY <1>5 DEF RecordError, netVars
  <2>2. PICK i \in cur[p] : row' = Errored(p, i)
    BY <1>5 DEF RecordError, Errored
  <2>3. i.key \in Calls /\ c \in Calls
    BY <1>0, <2>1 DEF TypeOK, Item
  <2>4. row[i.key].status = "pending"
    BY DEF SInv, SnapshotCurrent, Batch
  <2>5. row[c].status = "pending"
    BY <1>0, <1>s, <2>2, <2>3, <2>4 DEF Errored, TypeOK, Row
  <2>6. QED
    BY <1>u, <1>s, <2>1, <2>5
<1>6. CASE FlushRaises(p)
  <2>1. accepted' = accepted /\ row' = row
    BY <1>6 DEF FlushRaises, dbVars
  <2>2. lost \subseteq lost'
    BY <1>6 DEF FlushRaises
  <2>3. InDoubt(c)
    BY <1>u, <1>s, <2>1, <2>2
  <2>4. lost' = lost \cup Current(p)
    BY <1>6, <2>3 DEF FlushRaises
  <2>5. QED
    BY <1>s, <2>3, <2>4 DEF Current
<1>7. QED
  BY <1>1, <1>2, <1>3, <1>4, <1>5, <1>6 DEF FlushStep

\* flush() is only entered when no flush is under way.
LEMMA BeginFlushBatch ==
    ASSUME SingleProcess, SInv, NEW p \in Procs, NEW who \in Calls \cup {Bg},
           BeginFlush(p, who), UNCHANGED dbVars
    PROVE  SnapshotCurrent' /\ LaterIsNewer' /\ BatchShape'
<1>0. TypeOK /\ BatchShape
  BY DEF SInv, QInv
<1>1. \A q \in Procs : q = p
  BY DEF SingleProcess
<1>2. /\ cur'[p] = {} /\ rows'[p] = Snapshot /\ fpc'[p] = "next" 
      /\ holder'[p] # Nobody /\ row' = row
  BY <1>0, QueueAssumption DEF BeginFlush, BatchShape, TypeOK, dbVars
<1>3. Batch(p)' = Snapshot
  BY <1>2 DEF Batch
<1>4. SnapshotCurrent'
  BY <1>1, <1>2, <1>3 DEF SnapshotCurrent, Snapshot, Pending
<1>5. LaterIsNewer'
  <2> SUFFICES ASSUME NEW c \in Pending PROVE \E i \in Snapshot : i.key = c
    BY <1>1, <1>2, <1>3 DEF LaterIsNewer, Pending
  <2>1. [key |-> c, id |-> row[c].id, attempts |-> row[c].attempts] \in Snapshot
    BY DEF Snapshot
  <2>2. QED
    BY <2>1
<1>6. BatchShape'
  BY <1>1, <1>2 DEF BatchShape
<1>7. QED
  BY <1>4, <1>5, <1>6

LEMMA NextSInv == SingleProcess /\ SInv /\ [Next]_vars => SInv'
<1> SUFFICES ASSUME SingleProcess, SInv, [Next]_vars PROVE SInv'
  OBVIOUS
<1>0. QInv /\ QInv' /\ TypeOK /\ TypeOK'
  BY NextQInv DEF SInv, QInv
<1>r. SnapshotCurrent /\ LaterIsNewer /\ BatchShape /\ RowsAreStored /\ Unnoticed
  BY DEF SInv
<1> USE QueueAssumption DEF dbVars, netVars, flushVars, lifeVars
<1>1. ASSUME UNCHANGED <<dbVars, accepted, lost, flushVars>>,
             \A c \in Calls : call[c] # "new" => call'[c] # "new"
      PROVE  SInv'
  <2>1. SnapshotCurrent' /\ LaterIsNewer' /\ BatchShape'
    BY <1>r, <1>1 DEF SnapshotCurrent, LaterIsNewer, BatchShape, Batch, Pending
  <2>2. RowsAreStored' /\ Unnoticed'
    BY <1>0, <1>r, <1>1 DEF RowsAreStored, Unnoticed, TypeOK
  <2>3. QED
    BY <1>0, <2>1, <2>2 DEF SInv
<1>2. ASSUME NEW p \in Procs, FlushStep(p) \/ FlushRaises(p) PROVE SInv'
  BY <1>0, <1>2, FlushStepBatch, FlushStepStored, FlushStepUnnoticed DEF SInv
<1>3. ASSUME NEW p \in Procs, NEW who \in Calls \cup {Bg}, BeginFlush(p, who),
             UNCHANGED <<dbVars, accepted, lost>>,
             \A c \in Calls : call[c] # "new" => call'[c] # "new"
      PROVE  SInv'
  <2>1. SnapshotCurrent' /\ LaterIsNewer' /\ BatchShape'
    BY <1>3, BeginFlushBatch
  <2>2. RowsAreStored'
    BY <1>0, <1>r, <1>3 DEF RowsAreStored, TypeOK
  <2>3. fpc[p] = "idle" /\ \A q \in Procs : q = p
    BY <1>3, <1>r DEF BeginFlush, BatchShape, SingleProcess
  <2>4. Unnoticed'
    BY <1>r, <1>3, <2>3 DEF Unnoticed
  <2>5. QED
    BY <1>0, <2>1, <2>2, <2>4 DEF SInv
<1>4. ASSUME NEW c \in Calls, Enqueue(c) PROVE SInv'
  <2>1. /\ row[c].status = "absent" /\ c \notin accepted
        /\ UNCHANGED <<holder, fpc, rows, cur, accepted, lost>>
    BY <1>r, <1>4 DEF Enqueue, RowsAreStored
  <2>2. /\ \A b \in Calls : b # c => row'[b] = row[b] /\ call'[b] = call[b]
        /\ row'[c].id = nextId /\ row'[c].status = "pending" /\ call'[c] = "flush"
        /\ nextId' = nextId + 1
    BY <1>0, <1>4 DEF Enqueue, TypeOK
  <2>3. \A p \in Procs : /\ Batch(p)' = Batch(p)
                         /\ \A i \in Batch(p) : i \in Item /\ i.key # c
                                                /\ row[i.key].id = i.id
    BY <1>0, <1>r, <2>1 DEF Batch, SnapshotCurrent, TypeOK
  <2>4. SnapshotCurrent'
    BY <1>r, <2>2, <2>3 DEF SnapshotCurrent, Item
  <2>5. \A p \in Procs : \A i \in Batch(p) : i.id < nextId
    BY <1>r, <2>3 DEF RowsAreStored, Item
  <2>6. LaterIsNewer'
    BY <1>r, <2>1, <2>2, <2>3, <2>5 DEF LaterIsNewer, Pending
  <2>7. BatchShape'
    BY <1>r, <2>1 DEF BatchShape
  <2>8. RowsAreStored'
    <3>1. \A b \in Calls : row'[b].id < nextId'
      BY <1>0, <1>r, <2>2 DEF RowsAreStored, TypeOK, Row
    <3>2. \A b \in Calls : row'[b].status # "absent" => call'[b] # "new"
      BY <1>r, <2>2 DEF RowsAreStored
    <3>3. \A b \in accepted' : call'[b] # "new"
      BY <1>0, <1>r, <2>1, <2>2 DEF RowsAreStored, TypeOK
    <3>4. QED
      BY <3>1, <3>2, <3>3 DEF RowsAreStored
  <2>9. Unnoticed'
    BY <1>0, <1>r, <2>1, <2>2 DEF Unnoticed, TypeOK
  <2>10. QED
    BY <1>0, <2>4, <2>6, <2>7, <2>8, <2>9 DEF SInv
<1>5. ASSUME NEW c \in Calls, CallStep(c) \/ CallRaises(c) PROVE SInv'
  <2>1. CASE SendFlush(c) /\ BeginFlush(ProcOf[c], c)
    BY <1>0, <1>3, <2>1 DEF SendFlush, TypeOK
  <2>2. CASE SendFlush(c) /\ UNCHANGED flushVars
    BY <1>0, <1>1, <2>2 DEF SendFlush, TypeOK
  <2>3. CASE CheckRow(c)
    BY <1>0, <1>1, <2>3 DEF CheckRow, TypeOK
  <2>4. CASE CallRaises(c)
    BY <1>0, <1>1, <2>4 DEF CallRaises, TypeOK
  <2>5. QED
    BY <1>5, <2>1, <2>2, <2>3, <2>4 DEF CallStep, SendFlush
<1>6. CASE BgFlush
  BY <1>1, <1>3, <1>6 DEF BgFlush
<1>7. CASE BgLoop \/ BgRaises \/ Start \/ Stop \/ StopReturns \/ NetChange
  BY <1>1, <1>7 DEF BgLoop, BgRaises, Start, Stop, StopReturns, NetChange
<1>8. ASSUME NEW p \in Procs, Crash(p) PROVE SInv'
  <2>0. \A q \in Procs : q = p
    BY DEF SingleProcess
  <2>1. /\ holder'[p] = Nobody /\ fpc'[p] = "idle" /\ rows'[p] = {} /\ cur'[p] = {}
        /\ UNCHANGED <<row, nextId, accepted>>
    BY <1>0, <1>8 DEF Crash, Release, TypeOK
  <2>2. SnapshotCurrent' /\ LaterIsNewer' /\ BatchShape'
    BY <2>0, <2>1 DEF SnapshotCurrent, LaterIsNewer, BatchShape, Batch
  <2>3. RowsAreStored'
    BY <1>0, <1>r, <1>8 DEF Crash, RowsAreStored, TypeOK
  <2>4. Unnoticed'
    BY <1>r, <1>8, <2>0, <2>1 DEF Crash, Current, Unnoticed
  <2>5. QED
    BY <1>0, <2>2, <2>3, <2>4 DEF SInv
<1>9. CASE UNCHANGED vars
  BY <1>1, <1>9 DEF vars
<1>10. QED
  BY <1>2, <1>4, <1>5, <1>6, <1>7, <1>8, <1>9 DEF Next, BgStep

\* A step that brings a flush from "http" to "answer" is the attempt of its row.
LEMMA AcceptedByAttempt ==
    ASSUME SingleProcess, SInv, [Next]_vars, NEW p \in Procs, NEW i \in cur[p],
           fpc[p] = "http", fpc'[p] = "answer"
    PROVE  /\ Older(i.key) = {}
           /\ i.key \in accepted => i.key \in lost
<1>1. Older(i.key) = {} /\ row[i.key].status = "pending"
  BY AttemptedIsOldest
<1>2. \A q \in Procs : q = p
  BY DEF SingleProcess
<1>3. i.key \in accepted => i.key \in lost
  BY <1>1, <1>2 DEF SInv, Unnoticed
<1>4. QED
  BY <1>1, <1>3

\* The requests of one process are accepted in the order in which they were
\* stored: none while an older one is pending.
THEOREM ReplayedInOrder ==
    ASSUME SingleProcess
    PROVE  Spec => FIFO
<1>1. SInv /\ [Next]_vars =>
        [\A p \in Procs : \A i \in cur[p] :
            fpc[p] = "http" /\ fpc'[p] = "answer" => Older(i.key) = {}]_vars
  BY AcceptedByAttempt, SingleProcess
<1>2. SInv /\ [Next]_vars => SInv'
  BY NextSInv, SingleProcess
<1>3. QED
  BY <1>1, <1>2, InitSInv, PTL DEF Spec, FIFO

\* With one process a request is accepted a second time only when its first
\* acceptance went unnoticed.
THEOREM DuplicatesHaveACause ==
    ASSUME SingleProcess
    PROVE  Spec => DuplicatesExplained
<1>1. SInv /\ [Next]_vars =>
        [\A p \in Procs : \A i \in cur[p] :
          fpc[p] = "http" /\ fpc'[p] = "answer" /\ i.key \in accepted => i.key \in lost]_vars
  BY AcceptedByAttempt, SingleProcess
<1>2. SInv /\ [Next]_vars => SInv'
  BY NextSInv, SingleProcess
<1>3. QED
  BY <1>1, <1>2, InitSInv, PTL DEF Spec, DuplicatesExplained

=============================================================================
