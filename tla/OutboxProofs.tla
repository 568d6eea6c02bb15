---------------------------- MODULE OutboxProofs ----------------------------
(***************************************************************************)
(* What TLAPS proves of Outbox for any number of calls, keys and drains.   *)
(***************************************************************************)
EXTENDS Outbox, FiniteSetTheorems, TLAPS

-----------------------------------------------------------------------------
(* Transactions keep the table well formed.                                 *)

LEMMA TxnType ==
    ASSUME TypeOK, NEW i \in Item
    PROVE  /\ Claimed(i) \in [Keys -> Row]
           /\ Completed(i) \in [Keys -> Row]
           /\ Retried(i) \in [Keys -> Row]
           /\ Parked(i) \in [Keys -> Row]
           /\ Released(i) \in [Keys -> Row]
<1>1. row \in [Keys -> Row] /\ i.key \in Keys
  BY DEF TypeOK, Item
<1>2. Claimed(i) \in [Keys -> Row]
  BY <1>1 DEF Claimed, Row, LiveStatus
<1>3. Completed(i) \in [Keys -> Row]
  BY <1>1 DEF Completed, NoRow, Row, LiveStatus
<1>4. Retried(i) \in [Keys -> Row]
  BY <1>1 DEF Retried, Exhausts, Row, LiveStatus
<1>5. Parked(i) \in [Keys -> Row]
  BY <1>1 DEF Parked, Row, LiveStatus
<1>6. Released(i) \in [Keys -> Row]
  BY <1>1 DEF Released, Row, LiveStatus
<1>7. QED
  BY <1>2, <1>3, <1>4, <1>5, <1>6

LEMMA InsertedType ==
    ASSUME TypeOK, NEW k \in Keys
    PROVE  Inserted(k) \in [Keys -> Row]
BY DEF TypeOK, Inserted, NoRow, Row, LiveStatus

LEMMA RecoveredType == TypeOK => Recovered \in [Keys -> Row]
BY DEF TypeOK, Recovered, Row, LiveStatus

LEMMA PeekedType == TypeOK => Peeked \in SUBSET Item
BY DEF TypeOK, Peeked, Pending, Item, Row

-----------------------------------------------------------------------------
(* Type correctness.                                                        *)

LEMMA CallStepType ==
    ASSUME TypeOK, NEW c \in Calls, Submit(c) \/ CallStep(c)
    PROVE  TypeOK'
<1> USE OutboxAssumption DEF TypeOK, storeVars, drainVars, callVars, envVars
<1>0. KeyOf[c] \in Keys
  OBVIOUS
<1>1. CASE Submit(c)
  BY <1>1 DEF Submit, Goto, CallState
<1>2. CASE CountBacklog(c)
  BY <1>2 DEF CountBacklog, Goto, CallState
<1>3. CASE DirectSend(c)
  BY <1>3, <1>0 DEF DirectSend, Goto, CallState, Returned
<1>4. CASE DirectAnswer(c)
  BY <1>4 DEF DirectAnswer, Goto, CallState, Returned
<1>5. CASE Enqueue(c)
  BY <1>5, <1>0, InsertedType DEF Enqueue, Goto, CallState, Returned
<1>6. CASE SubmitStoreError(c)
  BY <1>6 DEF SubmitStoreError, Goto, CallState, Returned
<1>7. QED
  BY <1>1, <1>2, <1>3, <1>4, <1>5, <1>6 DEF CallStep

LEMMA DrainStepType ==
    ASSUME TypeOK, NEW d \in Drainers, BeginDrain(d) \/ DrainStep(d)
    PROVE  TypeOK'
<1> USE DEF TypeOK, storeVars, drainVars, callVars, envVars,
            DGoto, Leave, NextItem, DrainState, StoreStep
<1>1. CASE BeginDrain(d)
  BY <1>1 DEF BeginDrain
<1>2. CASE Peek(d)
  BY <1>2, PeekedType DEF Peek
<1>3. CASE NextBatch(d)
  BY <1>3 DEF NextBatch
<1>4. CASE CheckItem(d)
  BY <1>4 DEF CheckItem
<1>5. CASE Claim(d)
  BY <1>5, TxnType DEF Claim
<1>6. CASE Send(d)
  BY <1>6 DEF Send, Item
<1>7. CASE Answer(d)
  BY <1>7 DEF Answer
<1>8. CASE Complete(d)
  BY <1>8, TxnType DEF Complete
<1>9. CASE MarkDead(d)
  BY <1>9, TxnType DEF MarkDead
<1>10. CASE RetryLater(d)
  BY <1>10, TxnType DEF RetryLater
<1>11. CASE Release(d)
  BY <1>11, TxnType DEF Release
<1>12. CASE DrainStoreError(d)
  BY <1>12 DEF DrainStoreError
<1>13. QED
  BY <1>1, <1>2, <1>3, <1>4, <1>5, <1>6, <1>7, <1>8, <1>9, <1>10, <1>11, <1>12
  DEF DrainStep

LEMMA OutlivingType ==
    ASSUME TypeOK, dpc[Worker] \in {"claim", "complete", "retry", "dead"}
    PROVE  Outliving \in SUBSET Txn
<1>1. taken[Worker] \in SUBSET Item
  BY DEF TypeOK, Drainers
<1>2. QED
  BY <1>1 DEF Outliving, Txn, Item

LEMMA EnvStepType ==
    ASSUME TypeOK,
           \/ Stop \/ Start \/ Crash \/ Restart \/ StatusChange
           \/ \E t \in orphan : CommitOrphan(t)
           \/ \E k \in Keys : BackoffElapses(k)
    PROVE  TypeOK'
<1> USE OutboxAssumption
    DEF TypeOK, storeVars, drainVars, callVars, envVars
<1>1. CASE Stop
  BY <1>1, OutlivingType DEF Stop, DGoto, Leave, DrainState, StoreStep, Drainers
<1>2. CASE Start
  BY <1>2 DEF Start
<1>3. CASE Crash
  <2>1. call' \in [Calls -> CallState]
    BY <1>3 DEF Crash, CallState, Returned
  <2>2. dpc' \in [Drainers -> DrainState]
    BY <1>3 DEF Crash, DrainState
  <2>3. /\ batch' \in [Drainers -> SUBSET Item]
        /\ taken' \in [Drainers -> SUBSET Item]
    BY <1>3 DEF Crash
  <2>4. crashes' \in 0..MaxCrashes
    BY <1>3 DEF Crash
  <2>5. QED
    BY <1>3, <2>1, <2>2, <2>3, <2>4 DEF Crash
<1>4. CASE Restart
  BY <1>4, RecoveredType DEF Restart
<1>5. CASE StatusChange
  BY <1>5 DEF StatusChange
<1>6. ASSUME NEW t \in orphan, CommitOrphan(t) PROVE TypeOK'
  <2> DEFINE i == [key |-> t.key, id |-> t.id]
  <2>1. i \in Item
    BY DEF Txn, Item
  <2>2. row' \in [Keys -> Row]
    BY <1>6, <2>1, TxnType DEF CommitOrphan
  <2>3. QED
    BY <1>6, <2>2 DEF CommitOrphan
<1>7. ASSUME NEW k \in Keys, BackoffElapses(k) PROVE TypeOK'
  <2> DEFINE r == [row[k] EXCEPT !.backoff = FALSE]
  <2>0. r \in Row
    BY DEF Row
  <2>1. row' \in [Keys -> Row]
    BY <1>7, <2>0 DEF BackoffElapses
  <2>2. QED
    BY <1>7, <2>1 DEF BackoffElapses
<1>8. QED
  BY <1>1, <1>2, <1>3, <1>4, <1>5, <1>6, <1>7

LEMMA InitType == Init => TypeOK
<1> SUFFICES ASSUME Init PROVE TypeOK
  OBVIOUS
<1> USE OutboxAssumption DEF Init
<1>1. row \in [Keys -> Row]
  <2>1. NoRow \in Row
    BY DEF NoRow, Row, LiveStatus
  <2>2. QED
    BY <2>1
<1>2. call \in [Calls -> CallState] /\ dpc \in [Drainers -> DrainState]
  BY DEF CallState, DrainState
<1>3. seen \in [Calls -> Nat]
  OBVIOUS
<1>4. batch \in [Drainers -> SUBSET Item] /\ taken \in [Drainers -> SUBSET Item]
  OBVIOUS
<1>5. stops \in 0..MaxStops /\ crashes \in 0..MaxCrashes
  OBVIOUS
<1>6. up \in BOOLEAN /\ online \in BOOLEAN /\ stopping \in BOOLEAN
  OBVIOUS
<1>7. cloud \in SUBSET Keys /\ orphan \in SUBSET Txn /\ nextId \in Nat \ {0}
  OBVIOUS
<1>8. QED
  BY <1>1, <1>2, <1>3, <1>4, <1>5, <1>6, <1>7, Zenon DEF TypeOK

LEMMA StepType == TypeOK /\ [Next]_vars => TypeOK'
<1> SUFFICES ASSUME TypeOK, [Next]_vars PROVE TypeOK'
  OBVIOUS
<1>1. CASE UNCHANGED vars
  BY <1>1 DEF vars, TypeOK
<1>2. CASE Next
  BY <1>2, CallStepType, DrainStepType, EnvStepType DEF Next
<1>3. QED
  BY <1>1, <1>2

\* Every variable keeps its type: in particular a drain never reaches a state
\* drain() does not have, and an orphan is one of the four outcome writes.
THEOREM TypeCorrect == Spec => []TypeOK
<1>1. QED
  BY InitType, StepType, PTL DEF Spec

-----------------------------------------------------------------------------
(* No request is lost.  The invariant that makes NoLoss inductive says what  *)
(* a coroutine knows between the cloud's answer and the write that depends   *)
(* on it.                                                                    *)

OneTaken == \A d \in Drainers : \A i, j \in taken[d] : i = j

Confirmed ==
    /\ \A c \in Calls : call[c] = "ack" => KeyOf[c] \in cloud
    /\ \A d \in Drainers : \A i \in taken[d] :
          dpc[d] \in {"ack", "complete"} => i.key \in cloud
    /\ \A t \in orphan : t.op = "complete" => t.key \in cloud

LossInv == TypeOK /\ OneTaken /\ Confirmed /\ NoLoss

\* The only transaction that removes a row is complete().
LEMMA RowsStay ==
    ASSUME TypeOK, NEW i \in Item, NEW k \in Keys, row[k].status # "absent"
    PROVE  /\ Claimed(i)[k].status # "absent"
           /\ Retried(i)[k].status # "absent"
           /\ Parked(i)[k].status # "absent"
           /\ Released(i)[k].status # "absent"
           /\ k # i.key => Completed(i)[k].status # "absent"
<1> USE DEF TypeOK, Item, Row
<1>1. Claimed(i)[k].status # "absent"
  BY DEF Claimed
<1>2. Retried(i)[k].status # "absent"
  BY DEF Retried
<1>3. Parked(i)[k].status # "absent"
  BY DEF Parked
<1>4. Released(i)[k].status # "absent"
  BY DEF Released
<1>5. k # i.key => Completed(i)[k].status # "absent"
  BY DEF Completed
<1>6. QED
  BY <1>1, <1>2, <1>3, <1>4, <1>5

LEMMA CallStepLoss ==
    ASSUME LossInv, NEW c \in Calls, Submit(c) \/ CallStep(c)
    PROVE  OneTaken' /\ Confirmed' /\ NoLoss'
<1> USE OutboxAssumption
    DEF LossInv, OneTaken, Confirmed, NoLoss, TypeOK, storeVars, drainVars,
        callVars, envVars, Goto
<1>0. KeyOf[c] \in Keys
  OBVIOUS
<1>1. CASE Submit(c)
  BY <1>1 DEF Submit
<1>2. CASE CountBacklog(c)
  BY <1>2 DEF CountBacklog
<1>3. CASE DirectSend(c)
  BY <1>3 DEF DirectSend
<1>4. CASE DirectAnswer(c)
  BY <1>4 DEF DirectAnswer
<1>5. CASE Enqueue(c)
  <2>1. \A k \in Keys : row[k].status # "absent" => row'[k].status # "absent"
    BY <1>5 DEF Enqueue, Inserted
  <2>2. row'[KeyOf[c]].status # "absent"
    BY <1>0, <1>5 DEF Enqueue, Inserted, NoRow
  <2>3. QED
    BY <1>5, <2>1, <2>2 DEF Enqueue
<1>6. CASE SubmitStoreError(c)
  BY <1>6 DEF SubmitStoreError
<1>7. QED
  BY <1>1, <1>2, <1>3, <1>4, <1>5, <1>6 DEF CallStep

LEMMA DrainStepLoss ==
    ASSUME LossInv, NEW d \in Drainers, BeginDrain(d) \/ DrainStep(d)
    PROVE  OneTaken' /\ Confirmed' /\ NoLoss'
<1> USE OutboxAssumption
    DEF LossInv, OneTaken, Confirmed, NoLoss, TypeOK, storeVars, drainVars,
        callVars, envVars, DGoto, Leave, NextItem
<1>0. taken[d] \subseteq Item
  OBVIOUS
<1>1. CASE BeginDrain(d)
  BY <1>1 DEF BeginDrain
<1>2. CASE Peek(d)
  BY <1>2 DEF Peek
<1>3. CASE NextBatch(d)
  BY <1>3 DEF NextBatch
<1>4. CASE CheckItem(d)
  BY <1>4 DEF CheckItem
<1>5. CASE Claim(d)
  BY <1>0, <1>5, RowsStay DEF Claim
<1>6. CASE Send(d)
  BY <1>6 DEF Send
<1>7. CASE Answer(d)
  BY <1>7 DEF Answer
<1>8. CASE Complete(d)
  BY <1>0, <1>8, RowsStay DEF Complete
<1>9. CASE MarkDead(d)
  BY <1>0, <1>9, RowsStay DEF MarkDead
<1>10. CASE RetryLater(d)
  BY <1>0, <1>10, RowsStay DEF RetryLater
<1>11. CASE Release(d)
  BY <1>0, <1>11, RowsStay DEF Release
<1>12. CASE DrainStoreError(d)
  BY <1>12 DEF DrainStoreError
<1>13. QED
  BY <1>1, <1>2, <1>3, <1>4, <1>5, <1>6, <1>7, <1>8, <1>9, <1>10, <1>11, <1>12
  DEF DrainStep

LEMMA EnvStepLoss ==
    ASSUME LossInv,
           \/ Stop \/ Start \/ Crash \/ Restart \/ StatusChange
           \/ \E t \in orphan : CommitOrphan(t)
           \/ \E k \in Keys : BackoffElapses(k)
    PROVE  OneTaken' /\ Confirmed' /\ NoLoss'
<1> USE OutboxAssumption
    DEF LossInv, OneTaken, Confirmed, NoLoss, TypeOK, storeVars, drainVars,
        callVars, envVars
<1>1. CASE Stop
  BY <1>1 DEF Stop, DGoto, Leave, Outliving, Drainers
<1>2. CASE Start
  BY <1>2 DEF Start
<1>3. CASE Crash
  BY <1>3 DEF Crash, Returned
<1>4. CASE Restart
  BY <1>4 DEF Restart, Recovered, Row
<1>5. CASE StatusChange
  BY <1>5 DEF StatusChange
<1>6. ASSUME NEW t \in orphan, CommitOrphan(t)
      PROVE  OneTaken' /\ Confirmed' /\ NoLoss'
  <2> DEFINE i == [key |-> t.key, id |-> t.id]
  <2>1. i \in Item
    BY DEF Txn, Item
  <2>2. ASSUME NEW k \in Keys, row[k].status # "absent", row'[k].status = "absent"
        PROVE  k \in cloud
    BY <1>6, <2>1, <2>2, RowsStay DEF CommitOrphan
  <2>3. QED
    BY <1>6, <2>2 DEF CommitOrphan
<1>7. ASSUME NEW k \in Keys, BackoffElapses(k)
      PROVE  OneTaken' /\ Confirmed' /\ NoLoss'
  <2>1. \A j \in Keys : row'[j].status = row[j].status
    BY <1>7 DEF BackoffElapses, Row
  <2>2. QED
    BY <1>7, <2>1 DEF BackoffElapses
<1>8. QED
  BY <1>1, <1>2, <1>3, <1>4, <1>5, <1>6, <1>7

\* What submit() answered is never undone: a request reported "sent" is with
\* the cloud, one reported "queued" is with the cloud or still in the outbox,
\* whatever crashes, cancellations, lost answers and store errors happen.
THEOREM NeverLost == Spec => []NoLoss
<1>1. Init => OneTaken /\ Confirmed /\ NoLoss
  BY DEF Init, OneTaken, Confirmed, NoLoss
<1>2. LossInv /\ [Next]_vars => LossInv'
  <2> SUFFICES ASSUME LossInv, [Next]_vars PROVE LossInv'
    OBVIOUS
  <2>1. TypeOK'
    BY StepType DEF LossInv
  <2>2. OneTaken' /\ Confirmed' /\ NoLoss'
    <3>1. CASE UNCHANGED vars
      BY <3>1 DEF vars, LossInv, OneTaken, Confirmed, NoLoss
    <3>2. CASE Next
      BY <3>2, CallStepLoss, DrainStepLoss, EnvStepLoss DEF Next
    <3>3. QED
      BY <3>1, <3>2
  <2>3. QED
    BY <2>1, <2>2 DEF LossInv
<1>3. LossInv => NoLoss
  BY DEF LossInv
<1>4. Init => LossInv
  BY <1>1, InitType DEF LossInv
<1>5. QED
  BY <1>2, <1>3, <1>4, PTL DEF Spec

-----------------------------------------------------------------------------
(* The delivery of a row has one writer.  Inductive with the drain lock, and *)
(* with what a drain that is not delivering holds.                           *)

LockHeld ==
    /\ \A d, e \in Drainers : dpc[d] # "idle" /\ dpc[e] # "idle" => d = e
    /\ \A d \in Drainers : dpc[d] \in {"idle", "peek", "check"} => taken[d] = {}

DownQuiet == ~up => orphan = {} /\ \A d \in Drainers : dpc[d] = "idle"

WriterInv == TypeOK /\ OneTaken /\ LockHeld /\ DownQuiet /\ SoleWriter

\* What a transaction about one row does to the status and id of the others.
LEMMA OthersKept ==
    ASSUME TypeOK, NEW i \in Item, NEW k \in Keys, k # i.key
    PROVE  /\ Claimed(i)[k] = row[k]
           /\ Completed(i)[k] = row[k]
           /\ Retried(i)[k] = row[k]
           /\ Parked(i)[k] = row[k]
           /\ Released(i)[k] = row[k]
BY DEF TypeOK, Item, Row, Claimed, Completed, Retried, Parked, Released

\* Claiming and enqueueing never touch a row that is in flight.
LEMMA InFlightKept ==
    ASSUME TypeOK, NEW k \in Keys, row[k].status = "in_flight"
    PROVE  /\ \A i \in Item : Claimed(i)[k] = row[k]
           /\ \A j \in Keys : Inserted(j)[k] = row[k]
BY DEF TypeOK, Item, Row, Claimed, CanClaim, Inserted

LEMMA ClaimSucceeds ==
    ASSUME TypeOK, NEW i \in Item, CanClaim(i)
    PROVE  Claimed(i)[i.key].status = "in_flight" /\ Claimed(i)[i.key].id = i.id
BY DEF TypeOK, Item, Row, Claimed, CanClaim, IsRowOf

LEMMA CallStepWriter ==
    ASSUME WriterInv, NEW c \in Calls, Submit(c) \/ CallStep(c)
    PROVE  OneTaken' /\ LockHeld' /\ DownQuiet' /\ SoleWriter'
<1> USE OutboxAssumption DEF WriterInv, storeVars, drainVars, callVars, envVars
<1>1. UNCHANGED <<dpc, batch, taken, orphan, up>>
  BY DEF Submit, CallStep, CountBacklog, DirectSend, DirectAnswer, Enqueue,
         SubmitStoreError
<1>2. \A k \in Keys : row[k].status = "in_flight" => row'[k] = row[k]
  <2>1. CASE Enqueue(c)
    BY <2>1, InFlightKept DEF Enqueue
  <2>2. CASE ~Enqueue(c)
    BY <2>2 DEF Submit, CallStep, CountBacklog, DirectSend, DirectAnswer,
                SubmitStoreError
  <2>3. QED
    BY <2>1, <2>2
<1>3. SoleWriter'
  BY <1>1, <1>2 DEF SoleWriter, Claimant, Outcomes, TypeOK, Item, Txn
<1>4. QED
  BY <1>1, <1>3 DEF OneTaken, LockHeld, DownQuiet

LEMMA DrainStepWriter ==
    ASSUME WriterInv, NEW d \in Drainers, BeginDrain(d) \/ DrainStep(d)
    PROVE  OneTaken' /\ LockHeld' /\ DownQuiet' /\ SoleWriter'
<1> USE DEF WriterInv, storeVars, drainVars, callVars, envVars,
            DGoto, Leave, NextItem
<1>1. OneTaken'
  BY DEF OneTaken, BeginDrain, DrainStep, Peek, NextBatch, CheckItem, Claim, Send,
         Answer, Complete, MarkDead, RetryLater, Release, DrainStoreError, TypeOK
<1>2. LockHeld'
  <2>1. CASE BeginDrain(d)
    BY <2>1 DEF BeginDrain, LockFree, LockHeld, TypeOK
  <2>2. CASE DrainStep(d)
    <3>1. \A e \in Drainers \ {d} :
            dpc[e] = "idle" /\ dpc'[e] = dpc[e] /\ taken'[e] = taken[e]
      BY <2>2 DEF LockHeld, TypeOK, DrainStep, Peek, NextBatch, CheckItem, Claim,
         Send, Answer, Complete, MarkDead, RetryLater, Release, DrainStoreError,
         StoreStep
    <3>2. dpc'[d] \in {"idle", "peek", "check"} => taken'[d] = {}
      BY <2>2 DEF LockHeld, TypeOK, DrainStep, Peek, NextBatch, CheckItem, Claim,
         Send, Answer, Complete, MarkDead, RetryLater, Release, DrainStoreError
    <3>3. QED
      BY <3>1, <3>2 DEF LockHeld
  <2>3. QED
    BY <2>1, <2>2
<1>3. DownQuiet'
  BY DEF DownQuiet, BeginDrain, DrainStep, Peek, NextBatch, CheckItem, Claim, Send,
         Answer, Complete, MarkDead, RetryLater, Release, DrainStoreError, StoreStep
<1>4. \A e \in Drainers \ {d} : DrainStep(d) => taken[e] = {} /\ taken'[e] = {}
  BY DEF LockHeld, TypeOK, DrainStep, Peek, NextBatch, CheckItem, Claim,
         Send, Answer, Complete, MarkDead, RetryLater, Release, DrainStoreError,
         StoreStep
<1>5. taken[d] \subseteq Item /\ \A t \in orphan : t.key \in Keys
  BY DEF TypeOK, Txn
<1>6. SoleWriter'
  <2>1. CASE BeginDrain(d)
    BY <2>1 DEF BeginDrain, SoleWriter, Claimant, Outcomes, LockFree, LockHeld, TypeOK
  <2>2. CASE Claim(d)
    <3>1. PICK i \in taken[d] : row' = Claimed(i)
      BY <2>2 DEF Claim
    <3>2. \A t \in Outcomes : row[t.key].status = "in_flight" /\ row'[t.key] = row[t.key]
      BY <1>5, <3>1, InFlightKept DEF SoleWriter, Outcomes
    <3>3. CASE CanClaim(i)
      <4>1. row'[i.key].status = "in_flight" /\ row'[i.key].id = i.id
        BY <1>5, <3>1, <3>3, ClaimSucceeds
      <4>2. \A t \in Outcomes : t.key # i.key
        BY <3>2, <3>3 DEF CanClaim
      <4>3. taken' = taken /\ orphan' = orphan
        BY <2>2, <3>1, <3>3 DEF Claim, OneTaken
      <4>4. QED
        BY <1>4, <2>2, <3>1, <3>2, <4>1, <4>2, <4>3
        DEF SoleWriter, Claimant, Outcomes, OneTaken, DrainStep
    <3>4. CASE ~CanClaim(i)
      <4>1. taken'[d] = {} /\ orphan' = orphan
        BY <2>2, <3>1, <3>4 DEF Claim, OneTaken, TypeOK
      <4>2. QED
        BY <1>4, <2>2, <3>2, <4>1 DEF SoleWriter, Claimant, Outcomes, DrainStep
    <3>5. QED
      BY <3>3, <3>4
  <2>3. CASE Complete(d) \/ MarkDead(d) \/ RetryLater(d) \/ Release(d)
    <3>1. PICK i \in taken[d] :
            row' \in {Completed(i), Parked(i), Retried(i), Released(i)}
      BY <2>3 DEF Complete, MarkDead, RetryLater, Release
    <3>2. taken'[d] = {} /\ orphan' = orphan
      BY <2>3 DEF Complete, MarkDead, RetryLater, Release, TypeOK
    <3>3. \A t \in Outcomes : t.key # i.key
      BY <2>3 DEF SoleWriter, Claimant, Complete, MarkDead, RetryLater, Release
    <3>4. \A t \in Outcomes : row'[t.key] = row[t.key]
      BY <1>5, <3>1, <3>3, OthersKept DEF Outcomes
    <3>5. QED
      BY <1>4, <2>3, <3>2, <3>4 DEF SoleWriter, Claimant, Outcomes, DrainStep
  <2>4. CASE Peek(d) \/ NextBatch(d) \/ CheckItem(d) \/ DrainStoreError(d)
    <3>1. \A i \in taken'[d] : dpc'[d] = "claim"
      BY <2>4 DEF Peek, NextBatch, CheckItem, DrainStoreError, LockHeld, TypeOK
    <3>2. row' = row /\ orphan' = orphan
      BY <2>4 DEF Peek, NextBatch, CheckItem, DrainStoreError
    <3>3. QED
      BY <1>4, <2>4, <3>1, <3>2 DEF SoleWriter, Claimant, Outcomes, DrainStep
  <2>5. CASE Send(d) \/ Answer(d)
    BY <2>5 DEF Send, Answer, SoleWriter, Claimant, Outcomes, TypeOK
  <2>6. QED
    BY <2>1, <2>2, <2>3, <2>4, <2>5 DEF DrainStep
<1>7. QED
  BY <1>1, <1>2, <1>3, <1>6

LEMMA EnvStepWriter ==
    ASSUME WriterInv,
           \/ Stop \/ Start \/ Crash \/ Restart \/ StatusChange
           \/ \E t \in orphan : CommitOrphan(t)
           \/ \E k \in Keys : BackoffElapses(k)
    PROVE  OneTaken' /\ LockHeld' /\ DownQuiet' /\ SoleWriter'
<1> USE DEF WriterInv, storeVars, drainVars, callVars, envVars
<1>1. CASE Stop
  <2> USE <1>1 DEF Stop, DGoto, Leave, Drainers
  <2>1. OneTaken' /\ LockHeld' /\ DownQuiet'
    BY DEF OneTaken, LockHeld, DownQuiet, TypeOK
  <2>2. CASE dpc[Worker] \in {"complete", "retry", "dead"}
    <3>1. \A e \in Drainers : taken'[e] = {}
      BY <2>2 DEF LockHeld, TypeOK
    <3>2. \A t \in Outcomes' :
            \/ t \in Outcomes
            \/ \E i \in taken[Worker] : t.key = i.key /\ t.id = i.id
      BY <2>2 DEF Outcomes, Outliving
    <3>3. \A t, u \in Outcomes' : t.key = u.key => t = u
      <4> SUFFICES ASSUME NEW t \in Outcomes', NEW u \in Outcomes', t.key = u.key
                   PROVE  t = u
        OBVIOUS
      <4>1. \A i \in taken[Worker] : \A v \in Outcomes : v.key # i.key
        BY <2>2 DEF SoleWriter, Claimant
      <4>2. Outcomes' \subseteq Outcomes \cup Outliving
        BY <2>2 DEF Outcomes
      <4>3. \A v \in Outliving : \E i \in taken[Worker] : v.key = i.key
        BY DEF Outliving
      <4>4. \A v, w \in Outliving : v = w
        BY DEF Outliving, OneTaken
      <4>5. QED
        BY <4>1, <4>2, <4>3, <4>4 DEF SoleWriter
    <3>4. row' = row
      OBVIOUS
    <3>5. QED
      BY <2>1, <2>2, <3>1, <3>2, <3>3, <3>4 DEF SoleWriter, Claimant
  <2>3. CASE dpc[Worker] = "claim"
    <3>1. Outcomes' = Outcomes
      BY <2>3 DEF Outcomes, Outliving
    <3>2. \A e \in Drainers : taken'[e] = {}
      BY <2>3 DEF LockHeld, TypeOK
    <3>3. QED
      BY <2>1, <3>1, <3>2 DEF SoleWriter
  <2>4. CASE dpc[Worker] \in {"send", "ack"}
    BY <2>1, <2>4 DEF SoleWriter, Claimant, Outcomes, TypeOK
  <2>5. CASE dpc[Worker] \in {"idle", "peek", "check"}
    BY <2>1, <2>5 DEF SoleWriter, Claimant, Outcomes, LockHeld, TypeOK
  <2>6. QED
    BY <2>2, <2>3, <2>4, <2>5
<1>2. CASE Start
  BY <1>2 DEF Start, OneTaken, LockHeld, DownQuiet, SoleWriter, Claimant, Outcomes
<1>3. CASE Crash
  BY <1>3 DEF Crash, OneTaken, LockHeld, DownQuiet, SoleWriter, Claimant, Outcomes
<1>4. CASE Restart
  <2>1. orphan = {} /\ \A d \in Drainers : taken[d] = {}
    BY <1>4 DEF Restart, DownQuiet, LockHeld
  <2>2. QED
    BY <1>4, <2>1
    DEF Restart, OneTaken, LockHeld, DownQuiet, SoleWriter, Claimant, Outcomes
<1>5. CASE StatusChange
  BY <1>5
  DEF StatusChange, OneTaken, LockHeld, DownQuiet, SoleWriter, Claimant, Outcomes
<1>6. ASSUME NEW t \in orphan, CommitOrphan(t)
      PROVE  OneTaken' /\ LockHeld' /\ DownQuiet' /\ SoleWriter'
  <2> DEFINE i == [key |-> t.key, id |-> t.id]
  <2>1. i \in Item
    BY DEF TypeOK, Txn, Item
  <2>2. UNCHANGED <<dpc, batch, taken, up>> /\ orphan' = orphan \ {t}
    BY <1>6 DEF CommitOrphan
  <2>3. Outcomes' = Outcomes \ {t}
    BY <2>2 DEF Outcomes
  <2>4. \A u \in Outcomes' : row'[u.key] = row[u.key]
    <3> SUFFICES ASSUME NEW u \in Outcomes' PROVE row'[u.key] = row[u.key]
      OBVIOUS
    <3>1. u \in Outcomes /\ u # t /\ u.key \in Keys /\ row[u.key].status = "in_flight"
      BY <2>3 DEF SoleWriter, Outcomes, TypeOK, Txn
    <3>2. CASE t.op = "claim"
      BY <1>6, <2>1, <3>1, <3>2, InFlightKept DEF CommitOrphan
    <3>3. CASE t.op # "claim"
      <4>1. u.key # i.key
        BY <3>1, <3>3 DEF SoleWriter, Outcomes
      <4>2. QED
        BY <1>6, <2>1, <3>1, <3>3, <4>1, OthersKept DEF CommitOrphan
    <3>4. QED
      BY <3>2, <3>3
  <2>5. \A d \in Drainers : \A j \in taken[d] :
          Claimant(d, j) => row'[j.key] = row[j.key]
    <3> SUFFICES ASSUME NEW d \in Drainers, NEW j \in taken[d], Claimant(d, j)
                 PROVE  row'[j.key] = row[j.key]
      OBVIOUS
    <3>1. j.key \in Keys /\ row[j.key].status = "in_flight"
      BY DEF SoleWriter, TypeOK, Item
    <3>2. CASE t.op = "claim"
      BY <1>6, <2>1, <3>1, <3>2, InFlightKept DEF CommitOrphan
    <3>3. CASE t.op # "claim"
      <4>1. j.key # i.key
        BY <3>3 DEF SoleWriter, Outcomes
      <4>2. QED
        BY <1>6, <2>1, <3>1, <3>3, <4>1, OthersKept DEF CommitOrphan
    <3>4. QED
      BY <3>2, <3>3
  <2>6. SoleWriter'
    BY <2>2, <2>3, <2>4, <2>5 DEF SoleWriter, Claimant
  <2>7. QED
    BY <2>2, <2>6 DEF OneTaken, LockHeld, DownQuiet
<1>7. ASSUME NEW k \in Keys, BackoffElapses(k)
      PROVE  OneTaken' /\ LockHeld' /\ DownQuiet' /\ SoleWriter'
  <2>1. \A j \in Keys : row'[j].status = row[j].status /\ row'[j].id = row[j].id
    BY <1>7 DEF BackoffElapses, TypeOK, Row
  <2>2. UNCHANGED <<dpc, batch, taken, orphan, up>>
    BY <1>7 DEF BackoffElapses
  <2>3. SoleWriter'
    BY <2>1, <2>2 DEF SoleWriter, Claimant, Outcomes, TypeOK, Item, Txn
  <2>4. QED
    BY <2>2, <2>3 DEF OneTaken, LockHeld, DownQuiet
<1>8. QED
  BY <1>1, <1>2, <1>3, <1>4, <1>5, <1>6, <1>7

LEMMA WriterStep == WriterInv /\ [Next]_vars => WriterInv'
<1> SUFFICES ASSUME WriterInv, [Next]_vars PROVE WriterInv'
  OBVIOUS
<1>1. TypeOK'
  BY StepType DEF WriterInv
<1>2. OneTaken' /\ LockHeld' /\ DownQuiet' /\ SoleWriter'
  <2>1. CASE UNCHANGED vars
    BY <2>1 DEF vars, WriterInv, OneTaken, LockHeld, DownQuiet, SoleWriter,
                Claimant, Outcomes
  <2>2. CASE Next
    BY <2>2, CallStepWriter, DrainStepWriter, EnvStepWriter DEF Next
  <2>3. QED
    BY <2>1, <2>2
<1>3. QED
  BY <1>1, <1>2 DEF WriterInv

LEMMA WriterInit == Init => WriterInv
BY InitType DEF Init, WriterInv, OneTaken, LockHeld, DownQuiet, SoleWriter,
                Claimant, Outcomes

\* At any time one coroutine or one cancelled transaction at most is about to
\* write the outcome of a row, and it finds the row as it claimed it.
THEOREM OneWriter == Spec => []SoleWriter
<1>1. WriterInv => SoleWriter
  BY DEF WriterInv
<1>2. QED
  BY <1>1, WriterInit, WriterStep, PTL DEF Spec

-----------------------------------------------------------------------------
(* A direct send never overtakes.  What makes it inductive: a row that is    *)
(* not live never becomes live again (only a claimed row is put back, and    *)
(* SoleWriter says that it is still in flight), and new rows get new ids.    *)

OrderInv ==
    /\ \A c \in Calls : seen[c] <= nextId
    /\ \A c \in Calls : call[c] = "send" =>
          \A k \in Keys : Live(k) => row[k].id >= seen[c]

FullInv == WriterInv /\ OrderInv

\* What a step may do to the table that OrderInv can notice.
NoneRevived ==
    /\ nextId' = nextId
    /\ \A k \in Keys : Live(k)' => Live(k) /\ row'[k].id = row[k].id

LEMMA OwnKeyStays ==
    ASSUME TypeOK, NEW i \in Item, row[i.key].status = "in_flight"
    PROVE  \A r \in {Completed(i), Retried(i), Parked(i), Released(i)} :
             r[i.key].status \in LiveStatus => r[i.key].id = row[i.key].id
BY DEF TypeOK, Item, Row, LiveStatus, Completed, Retried, Parked, Released, NoRow

LEMMA ClaimRevivesNone ==
    ASSUME TypeOK, NEW i \in Item, NEW k \in Keys,
           Claimed(i)[k].status \in LiveStatus
    PROVE  Live(k) /\ Claimed(i)[k].id = row[k].id
BY DEF TypeOK, Item, Row, LiveStatus, Live, Claimed, CanClaim

LEMMA DrainRevivesNone ==
    ASSUME WriterInv, NEW d \in Drainers, BeginDrain(d) \/ DrainStep(d)
    PROVE  NoneRevived
<1> USE DEF WriterInv, storeVars
<1>1. taken[d] \subseteq Item
  BY DEF TypeOK
<1>2. nextId' = nextId
  BY DEF BeginDrain, DrainStep, Peek, NextBatch, CheckItem, Claim, Send,
         Answer, Complete, MarkDead, RetryLater, Release, DrainStoreError
<1>3. ASSUME NEW k \in Keys, Live(k)' PROVE Live(k) /\ row'[k].id = row[k].id
  <2>1. CASE row' = row
    BY <1>3, <2>1 DEF Live
  <2>2. CASE Claim(d)
    BY <1>1, <1>3, <2>2, ClaimRevivesNone DEF Claim, Live
  <2>3. CASE Complete(d) \/ MarkDead(d) \/ RetryLater(d) \/ Release(d)
    <3>1. PICK i \in taken[d] :
            row' \in {Completed(i), Parked(i), Retried(i), Released(i)}
      BY <2>3 DEF Complete, MarkDead, RetryLater, Release
    <3>2. row[i.key].status = "in_flight"
      BY <2>3 DEF SoleWriter, Claimant, Complete, MarkDead, RetryLater, Release
    <3>3. CASE k = i.key
      BY <1>1, <1>3, <3>1, <3>2, <3>3, OwnKeyStays DEF Live, LiveStatus
    <3>4. CASE k # i.key
      BY <1>1, <1>3, <3>1, <3>4, OthersKept DEF Live
    <3>5. QED
      BY <3>3, <3>4
  <2>4. QED
    BY <2>1, <2>2, <2>3
    DEF BeginDrain, DrainStep, Peek, NextBatch, CheckItem, Send, Answer,
        DrainStoreError
<1>4. QED
  BY <1>2, <1>3 DEF NoneRevived

LEMMA EnvRevivesNone ==
    ASSUME WriterInv,
           \/ Stop \/ Start \/ Crash \/ Restart \/ StatusChange
           \/ \E t \in orphan : CommitOrphan(t)
           \/ \E k \in Keys : BackoffElapses(k)
    PROVE  NoneRevived
<1> USE DEF WriterInv, storeVars, NoneRevived, Live
<1>1. CASE Stop \/ Start \/ Crash \/ StatusChange
  BY <1>1 DEF Stop, Start, Crash, StatusChange
<1>2. CASE Restart
  BY <1>2 DEF Restart, Recovered, TypeOK, Row, LiveStatus
<1>3. ASSUME NEW t \in orphan, CommitOrphan(t) PROVE NoneRevived
  <2> DEFINE i == [key |-> t.key, id |-> t.id]
  <2>1. i \in Item /\ i.key = t.key
    BY DEF TypeOK, Txn, Item
  <2>2. CASE t.op = "claim"
    BY <1>3, <2>1, <2>2, ClaimRevivesNone DEF CommitOrphan
  <2>3. CASE t.op # "claim"
    <3>1. row[i.key].status = "in_flight"
      BY <2>3 DEF SoleWriter, Outcomes
    <3>2. row' \in {Completed(i), Parked(i), Retried(i), Released(i)} /\ nextId' = nextId
      BY <1>3, <2>3 DEF CommitOrphan
    <3>3. ASSUME NEW k \in Keys, Live(k)' PROVE Live(k) /\ row'[k].id = row[k].id
      <4>1. CASE k = i.key
        BY <2>1, <3>1, <3>2, <3>3, <4>1, OwnKeyStays DEF LiveStatus
      <4>2. CASE k # i.key
        BY <2>1, <3>2, <3>3, <4>2, OthersKept
      <4>3. QED
        BY <4>1, <4>2
    <3>4. QED
      BY <3>2, <3>3
  <2>4. QED
    BY <2>2, <2>3
<1>4. ASSUME NEW k \in Keys, BackoffElapses(k) PROVE NoneRevived
  BY <1>4 DEF BackoffElapses, TypeOK, Row
<1>5. QED
  BY <1>1, <1>2, <1>3, <1>4

LEMMA OrderStep == FullInv /\ [Next]_vars => OrderInv'
<1> SUFFICES ASSUME FullInv, [Next]_vars PROVE OrderInv'
  OBVIOUS
<1> USE OutboxAssumption DEF FullInv, WriterInv, storeVars, drainVars, callVars, envVars
<1>1. CASE UNCHANGED vars
  BY <1>1 DEF vars, OrderInv, Live
<1>2. ASSUME NEW c \in Calls, Submit(c) \/ CallStep(c) PROVE OrderInv'
  <2>1. CASE Submit(c)
    BY <1>2, <2>1 DEF Submit, Goto, OrderInv, Live, TypeOK
  <2>2. CASE CountBacklog(c)
    BY <1>2, <2>2 DEF CountBacklog, Goto, OrderInv, Live, Backlog, TypeOK
  <2>3. CASE Enqueue(c)
    <3>1. nextId' \in {nextId, nextId + 1}
      BY <2>3 DEF Enqueue
    <3>2. \A k \in Keys : Live(k)' => \/ Live(k) /\ row'[k].id = row[k].id
                                      \/ row'[k].id = nextId
      BY <2>3 DEF Enqueue, Inserted, NoRow, Live, LiveStatus, TypeOK, Row
    <3>3. \A b \in Calls : call'[b] = "send" => call[b] = "send"
      BY <2>3 DEF Enqueue, Goto, TypeOK
    <3>4. seen' = seen
      BY <2>3 DEF Enqueue
    <3>5. QED
      BY <3>1, <3>2, <3>3, <3>4 DEF OrderInv, TypeOK
  <2>4. CASE DirectSend(c) \/ DirectAnswer(c) \/ SubmitStoreError(c)
    BY <2>4 DEF DirectSend, DirectAnswer, SubmitStoreError, Goto, OrderInv, Live, TypeOK
  <2>5. QED
    BY <1>2, <2>1, <2>2, <2>3, <2>4 DEF CallStep
<1>3. ASSUME NoneRevived, seen' = seen,
             \A c \in Calls : call'[c] = "send" => call[c] = "send"
      PROVE  OrderInv'
  BY <1>3 DEF NoneRevived, OrderInv
<1>4. ASSUME NEW d \in Drainers, BeginDrain(d) \/ DrainStep(d) PROVE OrderInv'
  <2>1. call' = call /\ seen' = seen
    BY <1>4 DEF BeginDrain, DrainStep, Peek, NextBatch, CheckItem, Claim, Send,
         Answer, Complete, MarkDead, RetryLater, Release, DrainStoreError
  <2>2. QED
    BY <1>3, <1>4, <2>1, DrainRevivesNone
<1>5. ASSUME \/ Stop \/ Start \/ Crash \/ Restart \/ StatusChange
             \/ \E t \in orphan : CommitOrphan(t)
             \/ \E k \in Keys : BackoffElapses(k)
      PROVE  OrderInv'
  <2>1. seen' = seen
    BY <1>5 DEF Stop, Start, Crash, Restart, StatusChange, CommitOrphan, BackoffElapses
  <2>2. \A c \in Calls : call'[c] = "send" => call[c] = "send"
    BY <1>5 DEF Stop, Start, Crash, Restart, StatusChange, CommitOrphan,
                BackoffElapses, Returned
  <2>3. QED
    BY <1>3, <1>5, <2>1, <2>2, EnvRevivesNone
<1>6. QED
  BY <1>1, <1>2, <1>4, <1>5 DEF Next

\* A request sent directly never overtakes one queued before its submit() was
\* called, whatever the drains, retries, crashes and cancellations between.
THEOREM DirectSendsInOrder == Spec => NoOvertake
<1>1. Init => FullInv
  BY WriterInit DEF Init, FullInv, OrderInv
<1>2. FullInv /\ [Next]_vars => FullInv'
  BY WriterStep, OrderStep DEF FullInv
<1>3. FullInv => (\A c \in Calls :
                    call[c] = "send" /\ call'[c] = "ack" =>
                      \A k \in Keys : Live(k) => row[k].id >= seen[c])
  BY DEF FullInv, OrderInv
<1>4. QED
  BY <1>1, <1>2, <1>3, PTL DEF Spec, NoOvertake

-----------------------------------------------------------------------------
(* The outbox is drained in the order of the ids.  What makes DrainFIFO      *)
(* inductive: ids are unique and handed out upwards, the batch of a drain is *)
(* a prefix of the pending rows, and the item it delivers came before both.  *)

Stored == {k \in Keys : row[k].status # "absent"}
ItemOf(k) == [key |-> k, id |-> row[k].id]

RowIds ==
    /\ IsFiniteSet(Stored)
    /\ \A k \in Stored : row[k].id < nextId
    /\ \A j, k \in Stored : row[j].id = row[k].id => j = k

HeldIds ==
    /\ \A d \in Drainers : \A i \in batch[d] \cup taken[d] : i.id < nextId
    /\ \A d \in Drainers : dpc[d] \in {"idle", "peek"} => batch[d] = {}

Ordered(d) ==
    /\ \A i \in batch[d] : \A k \in Pending :
          row[k].id <= i.id => ItemOf(k) \in batch[d] \cup taken[d]
    /\ \A i \in taken[d] : \A k \in Pending :
          /\ dpc[d] = "claim" => i.id <= row[k].id
          /\ dpc[d] = "send" => i.id < row[k].id

FifoInv == /\ WriterInv /\ RowIds /\ HeldIds
           /\ stops = 0 => \A d \in Drainers : Ordered(d)

\* No row but a new one gets an id.
IdsKept ==
    /\ nextId' = nextId
    /\ \A k \in Stored' : k \in Stored /\ row'[k].id = row[k].id

LEMMA TxnKeepsIds ==
    ASSUME TypeOK, NEW i \in Item, NEW k \in Keys,
           NEW r \in {Claimed(i), Completed(i), Retried(i), Parked(i), Released(i)},
           r[k].status # "absent"
    PROVE  row[k].status # "absent" /\ r[k].id = row[k].id
BY DEF TypeOK, Item, Row, Claimed, CanClaim, Completed, Retried, Parked, Released,
       IsRowOf, NoRow

\* Of the transactions of a drain, only those that end it make a row pending.
LEMMA TxnKeepsPending ==
    ASSUME TypeOK, NEW i \in Item, NEW k \in Keys,
           NEW r, r[k].status = "pending",
           \/ r \in {Claimed(i), Completed(i), Parked(i)}
           \/ r = Retried(i) /\ Exhausts(i)
    PROVE  row[k].status = "pending"
BY DEF TypeOK, Item, Row, Claimed, Completed, Parked, Retried, Exhausts, NoRow

LEMMA RowIdsKept == RowIds /\ IdsKept => RowIds'
<1> SUFFICES ASSUME RowIds, IdsKept PROVE RowIds'
  OBVIOUS
<1>1. Stored' \subseteq Stored
  BY DEF IdsKept
<1>2. IsFiniteSet(Stored')
  BY <1>1, FS_Subset DEF RowIds
<1>3. QED
  BY <1>1, <1>2 DEF RowIds, IdsKept

\* peek() returns a prefix of the pending rows.
LEMMA PeekTakesOldest ==
    ASSUME TypeOK, RowIds, NEW i \in Peeked, NEW k \in Pending, row[k].id <= i.id
    PROVE  ItemOf(k) \in Peeked
<1> DEFINE Before(n) == {j \in Pending : row[j].id < n}
<1>1. i.id \in Nat /\ row[k].id \in Nat /\ \A j \in Pending : row[j].id \in Nat
  BY PeekedType DEF TypeOK, Row, Item, Pending
<1>2. Before(row[k].id) \subseteq Before(i.id)
  BY <1>1
<1>3. IsFiniteSet(Before(i.id))
  <2>1. Before(i.id) \subseteq Stored
    BY DEF Pending, Stored
  <2>2. QED
    BY <2>1, FS_Subset DEF RowIds
<1>4. Cardinality(Before(row[k].id)) <= Cardinality(Before(i.id))
  BY <1>2, <1>3, FS_Subset
<1>5. /\ Cardinality(Before(i.id)) \in Nat
      /\ Cardinality(Before(row[k].id)) \in Nat
  BY <1>2, <1>3, FS_Subset, FS_CardinalityType
<1>6. Cardinality(Before(i.id)) < BatchSize
  BY DEF Peeked
<1>7. Cardinality(Before(row[k].id)) < BatchSize
  BY <1>4, <1>5, <1>6, OutboxAssumption
<1>8. ItemOf(k).id = row[k].id /\ ItemOf(k) \in {[key |-> j, id |-> row[j].id] : j \in Pending}
  BY DEF ItemOf
<1>9. QED
  BY <1>7, <1>8 DEF Peeked

\* The transactions a drain may commit.
LEMMA DrainRow ==
    ASSUME NEW d \in Drainers, BeginDrain(d) \/ DrainStep(d), row' # row
    PROVE  \E i \in taken[d] :
              row' \in {Claimed(i), Completed(i), Retried(i), Parked(i), Released(i)}
BY DEF BeginDrain, DrainStep, Peek, NextBatch, CheckItem, Claim, Send, Answer,
       Complete, MarkDead, RetryLater, Release, DrainStoreError, storeVars

LEMMA DrainKeepsIds ==
    ASSUME TypeOK, NEW d \in Drainers, BeginDrain(d) \/ DrainStep(d)
    PROVE  IdsKept
<1>1. nextId' = nextId
  BY DEF BeginDrain, DrainStep, Peek, NextBatch, CheckItem, Claim, Send, Answer,
         Complete, MarkDead, RetryLater, Release, DrainStoreError, storeVars
<1>2. ASSUME NEW k \in Stored' PROVE k \in Stored /\ row'[k].id = row[k].id
  <2>1. CASE row' = row
    BY <1>2, <2>1 DEF Stored
  <2>2. CASE row' # row
    <3>1. PICK i \in taken[d] :
            row' \in {Claimed(i), Completed(i), Retried(i), Parked(i), Released(i)}
      BY <2>2, DrainRow
    <3>2. i \in Item
      BY DEF TypeOK
    <3>3. k \in Keys /\ row'[k].status # "absent"
      BY <1>2 DEF Stored
    <3>4. QED
      BY <3>1, <3>2, <3>3, TxnKeepsIds DEF Stored
  <2>3. QED
    BY <2>1, <2>2
<1>3. QED
  BY <1>1, <1>2 DEF IdsKept

LEMMA EnvKeepsIds ==
    ASSUME TypeOK,
           \/ Stop \/ Start \/ Crash \/ Restart \/ StatusChange
           \/ \E t \in orphan : CommitOrphan(t)
           \/ \E k \in Keys : BackoffElapses(k)
    PROVE  IdsKept
<1> USE DEF storeVars
<1>1. CASE Stop \/ Start \/ Crash \/ StatusChange
  BY <1>1 DEF Stop, Start, Crash, StatusChange, IdsKept, Stored
<1>2. CASE Restart
  BY <1>2 DEF Restart, Recovered, TypeOK, Row, IdsKept, Stored
<1>3. ASSUME NEW t \in orphan, CommitOrphan(t) PROVE IdsKept
  <2> DEFINE i == [key |-> t.key, id |-> t.id]
  <2>1. i \in Item
    BY DEF TypeOK, Txn, Item
  <2>2. /\ row' \in {Claimed(i), Completed(i), Retried(i), Parked(i)}
        /\ nextId' = nextId
    BY <1>3 DEF CommitOrphan
  <2> HIDE DEF i
  <2>3. \A k \in Keys : row'[k].status # "absent" =>
           row[k].status # "absent" /\ row'[k].id = row[k].id
    BY <2>1, <2>2, TxnKeepsIds
  <2>4. QED
    BY <2>2, <2>3 DEF IdsKept, Stored
<1>4. ASSUME NEW k \in Keys, BackoffElapses(k) PROVE IdsKept
  BY <1>4 DEF BackoffElapses, TypeOK, Row, IdsKept, Stored
<1>5. QED
  BY <1>1, <1>2, <1>3, <1>4

LEMMA CallStepFifo ==
    ASSUME FifoInv, NEW c \in Calls, Submit(c) \/ CallStep(c)
    PROVE  RowIds' /\ HeldIds' /\ (stops' = 0 => \A d \in Drainers : Ordered(d)')
<1> USE DEF FifoInv, WriterInv, storeVars, drainVars, callVars, envVars
<1>1. UNCHANGED <<dpc, batch, taken, stops>>
  BY DEF Submit, CallStep, CountBacklog, DirectSend, DirectAnswer, Enqueue,
         SubmitStoreError
<1>2. CASE UNCHANGED <<row, nextId>>
  BY <1>1, <1>2 DEF RowIds, HeldIds, Ordered, Stored, ItemOf, Pending
<1>3. CASE Enqueue(c) /\ row[KeyOf[c]].status = "absent"
  <2> DEFINE k == KeyOf[c]
  <2>1. k \in Keys /\ k \notin Stored /\ k \notin Pending
    BY <1>3, OutboxAssumption DEF Stored, Pending
  <2>2. /\ nextId' = nextId + 1 /\ nextId \in Nat
        /\ row'[k].status = "pending" /\ row'[k].id = nextId
        /\ \A j \in Keys \ {k} : row'[j] = row[j]
    BY <1>3, <2>1 DEF Enqueue, Inserted, NoRow, TypeOK
  <2> HIDE DEF k
  <2>3. Stored' = Stored \cup {k} /\ Pending' = Pending \cup {k}
    BY <2>1, <2>2 DEF Stored, Pending
  <2>4. \A j \in Stored : row'[j] = row[j] /\ row[j].id \in Nat
    BY <2>1, <2>2 DEF Stored, TypeOK, Row
  <2>5. Pending \subseteq Stored
    BY DEF Stored, Pending
  <2>6. RowIds'
    <3>1. IsFiniteSet(Stored')
      BY <2>3, FS_AddElement DEF RowIds
    <3>2. QED
      BY <2>1, <2>2, <2>3, <2>4, <3>1 DEF RowIds
  <2>7. \A d \in Drainers : \A i \in batch[d] \cup taken[d] :
          i.id < nextId /\ i.id \in Nat
    BY DEF HeldIds, TypeOK, Item
  <2>8. HeldIds'
    BY <1>1, <2>2, <2>7 DEF HeldIds
  <2>9. ASSUME NEW d \in Drainers, Ordered(d) PROVE Ordered(d)'
    <3>1. \A j \in Pending : ItemOf(j)' = ItemOf(j) /\ row'[j].id = row[j].id
      BY <2>4, <2>5 DEF ItemOf
    <3>2. \A i \in batch[d] \cup taken[d] : ~(row'[k].id <= i.id) /\ i.id < row'[k].id
      BY <2>2, <2>7
    <3>3. \A i \in taken[d] : i.id <= row'[k].id
      BY <2>2, <2>7
    <3>4. QED
      BY <1>1, <2>3, <2>9, <3>1, <3>2, <3>3 DEF Ordered
  <2>10. QED
    BY <1>1, <2>6, <2>8, <2>9
<1>4. QED
  BY <1>2, <1>3
  DEF Submit, CallStep, CountBacklog, DirectSend, DirectAnswer, Enqueue,
      SubmitStoreError, Inserted

\* The lock lets one drain run at a time: the others hold nothing.
LEMMA OthersHoldNothing ==
    ASSUME FifoInv, NEW d \in Drainers, BeginDrain(d) \/ DrainStep(d),
           NEW e \in Drainers, e # d
    PROVE  batch'[e] = {} /\ taken'[e] = {} /\ dpc'[e] = "idle"
<1> USE DEF FifoInv, WriterInv, storeVars, drainVars, callVars, envVars,
            DGoto, Leave, NextItem
<1>1. dpc[e] = "idle"
  BY DEF LockHeld, BeginDrain, LockFree, DrainStep, Peek, NextBatch, CheckItem,
         Claim, Send, Answer, Complete, MarkDead, RetryLater, Release,
         DrainStoreError, StoreStep
<1>2. batch[e] = {} /\ taken[e] = {}
  BY <1>1 DEF HeldIds, LockHeld
<1>3. /\ batch'[e] = batch[e] /\ taken'[e] = taken[e]
      /\ dpc'[e] = dpc[e]
  BY DEF TypeOK, BeginDrain, DrainStep, Peek, NextBatch, CheckItem, Claim, Send,
         Answer, Complete, MarkDead, RetryLater, Release, DrainStoreError
<1>4. QED
  BY <1>1, <1>2, <1>3

\* What the running drain holds after its step.
LEMMA DrainHeldIds ==
    ASSUME FifoInv, NEW d \in Drainers, BeginDrain(d) \/ DrainStep(d)
    PROVE  HeldIds'
<1> USE DEF FifoInv, WriterInv, storeVars, drainVars, callVars, envVars,
            DGoto, Leave, NextItem
<1>1. nextId' = nextId
  BY DrainKeepsIds DEF IdsKept
<1>2. \A i \in Peeked : i.id < nextId
  BY DEF Peeked, Pending, RowIds, Stored
<1>3. \A i \in batch'[d] \cup taken'[d] : i.id < nextId
  BY <1>2 DEF HeldIds, TypeOK, BeginDrain, DrainStep, Peek, NextBatch, CheckItem,
         Claim, Send, Answer, Complete, MarkDead, RetryLater, Release, DrainStoreError
<1>4. dpc'[d] \in {"idle", "peek"} => batch'[d] = {}
  BY DEF HeldIds, TypeOK, BeginDrain, LockFree, DrainStep, Peek, NextBatch, CheckItem,
         Claim, Send, Answer, Complete, MarkDead, RetryLater, Release, DrainStoreError
<1>5. QED
  BY <1>1, <1>3, <1>4, OthersHoldNothing DEF HeldIds

\* An outcome leaves the row of the item it delivered out of the queue.
LEMMA OutcomeNotPending ==
    ASSUME TypeOK, NEW i \in Item, row[i.key].status = "in_flight", row[i.key].id = i.id
    PROVE  /\ Completed(i)[i.key].status # "pending"
           /\ Parked(i)[i.key].status # "pending"
           /\ Exhausts(i) => Retried(i)[i.key].status # "pending"
BY DEF TypeOK, Item, Row, IsRowOf, Completed, Parked, Retried, NoRow

LEMMA DrainOrdered ==
    ASSUME FifoInv, NEW d \in Drainers, Ordered(d), BeginDrain(d) \/ DrainStep(d)
    PROVE  Ordered(d)'
<1> USE DEF FifoInv, WriterInv, storeVars, drainVars, callVars, envVars,
            DGoto, Leave, NextItem
<1>1. CASE batch'[d] = {} /\ taken'[d] = {}
  BY <1>1 DEF Ordered
<1>2. CASE Peek(d) /\ Peeked # {}
  <2>1. row' = row /\ batch'[d] = Peeked /\ taken'[d] = {}
    BY <1>2 DEF Peek, TypeOK, LockHeld
  <2>2. QED
    BY <2>1, PeekTakesOldest DEF Ordered, Pending, ItemOf
<1>3. ASSUME CheckItem(d), NEW i \in batch[d], IsOldest(i, batch[d]),
             batch' = [batch EXCEPT ![d] = @ \ {i}],
             taken' = [taken EXCEPT ![d] = {i}], dpc'[d] = "claim"
      PROVE  Ordered(d)'
  <2>1. /\ row' = row /\ batch'[d] = batch[d] \ {i} /\ taken'[d] = {i} /\ taken[d] = {}
        /\ i \in Item
    BY <1>3 DEF CheckItem, TypeOK, LockHeld
  <2>2. \A k \in Pending : i.id <= row[k].id
    <3> SUFFICES ASSUME NEW k \in Pending, row[k].id <= i.id PROVE i.id <= row[k].id
      BY <2>1 DEF TypeOK, Item, Row, Pending
    <3>1. ItemOf(k) \in batch[d]
      BY <2>1 DEF Ordered
    <3>2. QED
      BY <1>3, <3>1 DEF IsOldest, ItemOf
  <2>3. Pending' = Pending /\ \A k \in Pending : ItemOf(k)' = ItemOf(k)
    BY <2>1 DEF Pending, ItemOf
  <2>4. QED
    BY <1>3, <2>1, <2>2, <2>3 DEF Ordered
<1>4. CASE Claim(d)
  <2>1. PICK i \in taken[d] :
          /\ row' = Claimed(i)
          /\ IF CanClaim(i) THEN DGoto(d, "send") /\ UNCHANGED <<batch, taken>>
                            ELSE NextItem(d)
    BY <1>4 DEF Claim
  <2>2. i \in Item /\ \A j \in taken[d] : j = i
    BY DEF TypeOK, OneTaken
  <2>3. \A k \in Keys : row'[k].status = "pending" =>
           row[k].status = "pending" /\ row'[k].id = row[k].id
    BY <2>1, <2>2, TxnKeepsPending, TxnKeepsIds
  <2>4. \A k \in Pending' : k \in Pending /\ ItemOf(k)' = ItemOf(k)
    BY <2>3 DEF Pending, ItemOf
  <2>5. CASE CanClaim(i)
    <3>1. dpc'[d] = "send" /\ batch' = batch /\ taken' = taken
      BY <2>1, <2>5 DEF TypeOK
    <3>2. i.key \in Stored /\ row[i.key].id = i.id /\ i.key \notin Pending'
      BY <2>1, <2>2, <2>5, ClaimSucceeds DEF CanClaim, IsRowOf, Stored, Pending, Item
    <3>3. \A k \in Pending' : i.id <= row[k].id /\ row[k].id # i.id
      BY <1>4, <2>4, <3>2 DEF Ordered, Claim, RowIds, Stored, Pending
    <3>4. \A k \in Pending' : i.id < row'[k].id
      <4>1. \A k \in Pending' : row'[k].id = row[k].id /\ row[k].id \in Nat /\ i.id \in Nat
        BY <2>2, <2>3 DEF Pending, TypeOK, Row, Item
      <4>2. QED
        BY <3>3, <4>1
    <3>5. QED
      BY <2>2, <2>3, <2>4, <3>1, <3>4 DEF Ordered, Pending
  <2>6. CASE ~CanClaim(i)
    <3>1. batch' = batch /\ taken'[d] = {}
      BY <2>1, <2>6 DEF TypeOK
    <3>2. \A k \in Pending : ItemOf(k) # i
      BY <2>6 DEF ItemOf, Pending, CanClaim, IsRowOf
    <3>3. QED
      BY <2>2, <2>3, <2>4, <3>1, <3>2 DEF Ordered, Pending
  <2>7. QED
    BY <2>5, <2>6
<1>5. ASSUME NEW i \in taken[d], dpc[d] \in {"complete", "dead", "retry"},
             \/ row' = Completed(i)
             \/ row' = Parked(i)
             \/ row' = Retried(i) /\ Exhausts(i),
             batch' = batch, taken'[d] = {}
      PROVE  Ordered(d)'
  <2>1. i \in Item /\ \A j \in taken[d] : j = i
    BY DEF TypeOK, OneTaken
  <2>2. row[i.key].status = "in_flight" /\ row[i.key].id = i.id
    BY <1>5 DEF SoleWriter, Claimant
  <2>3. \A k \in Keys : row'[k].status = "pending" =>
           row[k].status = "pending" /\ row'[k].id = row[k].id
    BY <1>5, <2>1, TxnKeepsPending, TxnKeepsIds
  <2>4. i.key \notin Pending'
    BY <1>5, <2>1, <2>2, OutcomeNotPending DEF Pending
  <2>5. \A k \in Pending' :
          k \in Pending /\ ItemOf(k)' = ItemOf(k) /\ ItemOf(k) # i
    BY <2>3, <2>4 DEF Pending, ItemOf
  <2>6. QED
    BY <1>5, <2>1, <2>3, <2>5 DEF Ordered, Pending
<1>6. CASE BeginDrain(d) \/ Send(d) \/ Answer(d) \/ NextBatch(d)
  <2>1. row' = row
    BY <1>6 DEF BeginDrain, Send, Answer, NextBatch
  <2>2. CASE batch' = batch /\ taken' = taken /\ dpc'[d] \notin {"claim", "send"}
    BY <2>1, <2>2 DEF Ordered, Pending, ItemOf
  <2>3. QED
    BY <1>1, <1>6, <2>2 DEF BeginDrain, Send, Answer, NextBatch, TypeOK
<1>7. CASE Complete(d) \/ MarkDead(d)
  <2>1. PICK j \in taken[d] : row' = Completed(j) \/ row' = Parked(j)
    BY <1>7 DEF Complete, MarkDead
  <2>2. dpc[d] \in {"complete", "dead", "retry"} /\ batch' = batch /\ taken'[d] = {}
    BY <1>7 DEF Complete, MarkDead, TypeOK
  <2>3. QED
    BY <1>5, <2>1, <2>2, Zenon
<1>8. CASE RetryLater(d)
  BY <1>1, <1>5, <1>8 DEF RetryLater, TypeOK
<1>9. CASE Release(d) \/ DrainStoreError(d) \/ (Peek(d) /\ Peeked = {})
  BY <1>1, <1>9 DEF Release, DrainStoreError, Peek, TypeOK
<1>10. CASE CheckItem(d)
  BY <1>1, <1>3, <1>10 DEF CheckItem, TypeOK
<1>11. QED
  BY <1>2, <1>4, <1>6, <1>7, <1>8, <1>9, <1>10 DEF DrainStep

LEMMA DrainStepFifo ==
    ASSUME FifoInv, NEW d \in Drainers, BeginDrain(d) \/ DrainStep(d)
    PROVE  RowIds' /\ HeldIds' /\ (stops' = 0 => \A e \in Drainers : Ordered(e)')
<1>1. stops' = stops
  BY DEF BeginDrain, DrainStep, Peek, NextBatch, CheckItem, Claim, Send,
         Answer, Complete, MarkDead, RetryLater, Release, DrainStoreError, envVars
<1>2. \A e \in Drainers \ {d} : Ordered(e)'
  BY OthersHoldNothing DEF Ordered
<1>3. stops' = 0 => Ordered(d)'
  BY <1>1, DrainOrdered DEF FifoInv
<1>4. RowIds'
  BY DrainKeepsIds, RowIdsKept DEF FifoInv, WriterInv
<1>5. QED
  BY <1>2, <1>3, <1>4, DrainHeldIds

LEMMA EnvStepFifo ==
    ASSUME FifoInv,
           \/ Stop \/ Start \/ Crash \/ Restart \/ StatusChange
           \/ \E t \in orphan : CommitOrphan(t)
           \/ \E k \in Keys : BackoffElapses(k),
           orphan # {} => stops # 0
    PROVE  RowIds' /\ HeldIds' /\ (stops' = 0 => \A d \in Drainers : Ordered(d)')
<1> USE DEF FifoInv, WriterInv, storeVars, drainVars, callVars, envVars
<1>1. RowIds' /\ nextId' = nextId
  BY EnvKeepsIds, RowIdsKept DEF IdsKept
<1>2. HeldIds'
  <2>1. CASE Stop
    BY <1>1, <2>1 DEF Stop, DGoto, Leave, HeldIds, TypeOK, Drainers
  <2>2. CASE ~Stop
    BY <1>1, <2>2 DEF Start, Crash, Restart, StatusChange, CommitOrphan,
                      BackoffElapses, HeldIds
  <2>3. QED
    BY <2>1, <2>2
<1>3. ASSUME stops' = 0, NEW d \in Drainers PROVE Ordered(d)'
  <2>1. CASE Crash
    BY <2>1 DEF Crash, Ordered
  <2>2. CASE Restart
    <3>1. dpc[d] = "idle" /\ batch[d] = {} /\ taken[d] = {}
      BY <2>2 DEF Restart, DownQuiet, LockHeld, HeldIds
    <3>2. QED
      BY <2>2, <3>1 DEF Restart, Ordered
  <2>3. CASE Start \/ StatusChange
    BY <1>3, <2>3 DEF Start, StatusChange, Ordered, Pending, ItemOf
  <2>4. ASSUME NEW k \in Keys, BackoffElapses(k) PROVE Ordered(d)'
    <3>1. /\ \A j \in Keys : row'[j].status = row[j].status /\ row'[j].id = row[j].id
          /\ UNCHANGED <<dpc, batch, taken, stops>>
      BY <2>4 DEF BackoffElapses, TypeOK, Row
    <3>2. Pending' = Pending /\ \A j \in Pending : ItemOf(j)' = ItemOf(j)
      BY <3>1 DEF Pending, ItemOf
    <3>3. QED
      BY <1>3, <3>1, <3>2 DEF Ordered, Pending
  <2>5. ~Stop
    BY <1>3 DEF Stop, TypeOK
  <2>6. ASSUME NEW t \in orphan, CommitOrphan(t) PROVE FALSE
    BY <1>3, <2>6 DEF CommitOrphan
  <2>7. QED
    BY <2>1, <2>2, <2>3, <2>4, <2>5, <2>6
<1>4. QED
  BY <1>1, <1>2, <1>3

\* Until stop() is called nothing is cancelled.
NeverStopped == stops = 0 =>
    orphan = {} /\ ~stopping /\ \A d \in Drainers : dpc[d] # "release"

LEMMA NeverStoppedStep == TypeOK /\ NeverStopped /\ [Next]_vars => NeverStopped'
<1> SUFFICES ASSUME TypeOK, NeverStopped, [Next]_vars, stops' = 0
             PROVE  orphan' = {} /\ ~stopping' /\ \A d \in Drainers : dpc'[d] # "release"
  BY DEF NeverStopped
<1> USE DEF storeVars, drainVars, callVars, envVars
<1>1. stops = 0 /\ ~Stop
  <2>1. ~Stop
    BY DEF TypeOK, Stop
  <2>2. ASSUME NEW c \in Calls, Submit(c) \/ CallStep(c) PROVE stops' = stops
    BY <2>2 DEF Submit, CallStep, CountBacklog, DirectSend, DirectAnswer, Enqueue,
         SubmitStoreError
  <2>3. ASSUME NEW d \in Drainers, BeginDrain(d) \/ DrainStep(d) PROVE stops' = stops
    BY <2>3 DEF BeginDrain, DrainStep, Peek, NextBatch, CheckItem, Claim, Send,
         Answer, Complete, MarkDead, RetryLater, Release, DrainStoreError
  <2>4. QED
    BY <2>1, <2>2, <2>3 DEF Next, vars, Start, Crash, Restart, StatusChange,
         CommitOrphan, BackoffElapses
<1>2. orphan = {} /\ ~stopping /\ \A d \in Drainers : dpc[d] # "release"
  BY <1>1 DEF NeverStopped
<1>3. CASE \E d \in Drainers : BeginDrain(d) \/ DrainStep(d)
  BY <1>2, <1>3 DEF TypeOK, DGoto, Leave, NextItem, BeginDrain, DrainStep, Peek,
         NextBatch, CheckItem, Claim, Send, Answer, Complete, MarkDead, RetryLater,
         Release, DrainStoreError
<1>4. CASE \E c \in Calls : Submit(c) \/ CallStep(c)
  BY <1>2, <1>4 DEF Submit, CallStep, CountBacklog, DirectSend,
         DirectAnswer, Enqueue, SubmitStoreError
<1>5. CASE Start \/ Crash \/ Restart \/ StatusChange
  BY <1>2, <1>5 DEF Start, Crash, Restart, StatusChange
<1>6. CASE (\E t \in orphan : CommitOrphan(t)) \/ \E k \in Keys : BackoffElapses(k)
  BY <1>2, <1>6 DEF CommitOrphan, BackoffElapses
<1>7. CASE UNCHANGED vars
  BY <1>2, <1>7 DEF vars
<1>8. QED
  BY <1>1, <1>3, <1>4, <1>5, <1>6, <1>7 DEF Next

LEMMA FifoStep == FifoInv /\ NeverStopped /\ [Next]_vars => FifoInv'
<1> SUFFICES ASSUME FifoInv, NeverStopped, [Next]_vars PROVE FifoInv'
  OBVIOUS
<1>1. WriterInv'
  BY WriterStep DEF FifoInv
<1>2. RowIds' /\ HeldIds' /\ (stops' = 0 => \A d \in Drainers : Ordered(d)')
  <2>1. CASE UNCHANGED vars
    BY <2>1 DEF vars, FifoInv, RowIds, HeldIds, Ordered, Stored, Pending, ItemOf
  <2>2. CASE Next
    BY <2>2, CallStepFifo, DrainStepFifo, EnvStepFifo DEF Next, NeverStopped
  <2>3. QED
    BY <2>1, <2>2
<1>3. QED
  BY <1>1, <1>2 DEF FifoInv

\* Until stop() is called, a drain hands an item to the cloud only when no older
\* one is pending: the lock, the order of peek(), the drain that ends when an
\* item is to be retried, and the unique ids make the outbox a queue, for any
\* number of concurrent sync_now() calls, crashes and store errors.
THEOREM DrainsInOrder == Spec => DrainFIFO
<1>1. Init => FifoInv /\ NeverStopped
  <2> SUFFICES ASSUME Init PROVE FifoInv /\ NeverStopped
    OBVIOUS
  <2>1. Stored = {}
    BY DEF Init, Stored, NoRow
  <2>2. RowIds
    BY <2>1, FS_EmptySet DEF RowIds
  <2>3. QED
    BY <2>2, WriterInit DEF Init, FifoInv, HeldIds, Ordered, NeverStopped
<1>2. FifoInv /\ NeverStopped /\ [Next]_vars => FifoInv' /\ NeverStopped'
  BY FifoStep, NeverStoppedStep DEF FifoInv, WriterInv
<1>3. FifoInv => (stops = 0 =>
        \A d \in Drainers : \A i \in taken[d] :
          dpc[d] = "send" /\ dpc'[d] = "ack" => \A k \in Pending : row[k].id > i.id)
  <2> SUFFICES ASSUME FifoInv, stops = 0, NEW d \in Drainers, NEW i \in taken[d],
                      dpc[d] = "send", NEW k \in Pending
               PROVE  row[k].id > i.id
    OBVIOUS
  <2>1. i.id < row[k].id
    BY DEF FifoInv, Ordered
  <2>2. i.id \in Nat /\ row[k].id \in Nat
    BY DEF FifoInv, WriterInv, TypeOK, Item, Row, Pending
  <2>3. QED
    BY <2>1, <2>2
<1>4. QED
  BY <1>1, <1>2, <1>3, PTL DEF Spec, DrainFIFO

-----------------------------------------------------------------------------
(* A row in flight has a drain that delivers it, as long as no transaction   *)
(* raises and stop() has not been called.  After a crash _open() puts back    *)
(* what was in flight.                                                        *)

OwnInv == WriterInv /\ NeverStopped /\ (stops = 0 => InFlightOwned)

\* What a transaction leaves in flight was so before, or was just claimed.
LEMMA TxnInFlight ==
    ASSUME TypeOK, NEW i \in Item, NEW k \in Keys,
           NEW r \in {Claimed(i), Completed(i), Retried(i), Parked(i)},
           r[k].status = "in_flight"
    PROVE  row[k].status = "in_flight" \/ (r = Claimed(i) /\ CanClaim(i) /\ k = i.key)
BY DEF TypeOK, Item, Row, Claimed, CanClaim, Completed, Retried, Parked, NoRow

LEMMA OutcomeNotInFlight ==
    ASSUME TypeOK, NEW i \in Item, row[i.key].status = "in_flight", row[i.key].id = i.id
    PROVE  /\ Completed(i)[i.key].status # "in_flight"
           /\ Parked(i)[i.key].status # "in_flight"
           /\ Retried(i)[i.key].status # "in_flight"
BY DEF TypeOK, Item, Row, IsRowOf, Completed, Parked, Retried, NoRow

LEMMA DrainStepOwned ==
    ASSUME OwnInv, InFlightOwned, ~StoreMayFail, stops = 0,
           NEW d \in Drainers, BeginDrain(d) \/ DrainStep(d)
    PROVE  InFlightOwned'
<1> USE DEF OwnInv, WriterInv, storeVars, drainVars, callVars, envVars,
            DGoto, Leave, NextItem
<1>1. up' = up
  BY DEF BeginDrain, DrainStep, Peek, NextBatch, CheckItem, Claim, Send, Answer,
         Complete, MarkDead, RetryLater, Release, DrainStoreError
<1>2. ASSUME NEW e \in Drainers \ {d}, NEW i \in taken[e], Claimant(e, i)
      PROVE  i \in taken'[e] /\ Claimant(e, i)'
  BY <1>2 DEF Claimant, TypeOK, BeginDrain, DrainStep, Peek, NextBatch, CheckItem,
         Claim, Send, Answer, Complete, MarkDead, RetryLater, Release, DrainStoreError
<1>3. CASE Peek(d) \/ NextBatch(d) \/ CheckItem(d) \/ BeginDrain(d)
  <2>1. row' = row /\ taken[d] = {}
    BY <1>3 DEF Peek, NextBatch, CheckItem, BeginDrain, LockFree, LockHeld
  <2>2. QED
    BY <1>1, <1>2, <2>1 DEF InFlightOwned
<1>4. CASE Send(d) \/ Answer(d)
  <2>1. row' = row /\ taken' = taken
    BY <1>4 DEF Send, Answer
  <2>2. \A i \in taken[d] : Claimant(d, i)'
    BY <1>4, <2>1 DEF Send, Answer, Claimant, TypeOK
  <2>3. QED
    BY <1>1, <1>2, <2>1, <2>2 DEF InFlightOwned
<1>5. CASE Claim(d)
  <2>1. PICK i \in taken[d] :
          /\ row' = Claimed(i)
          /\ IF CanClaim(i) THEN DGoto(d, "send") /\ UNCHANGED <<batch, taken>>
                            ELSE NextItem(d)
    BY <1>5 DEF Claim
  <2>2. i \in Item
    BY DEF TypeOK
  <2>3. \A k \in Keys : row'[k].status = "in_flight" =>
           row[k].status = "in_flight" \/ (CanClaim(i) /\ k = i.key)
    BY <2>1, <2>2, TxnInFlight
  <2>4. CanClaim(i) => i \in taken'[d] /\ Claimant(d, i)'
    BY <2>1 DEF Claimant, TypeOK
  <2>5. \A j \in taken[d] : ~Claimant(d, j)
    BY <1>5 DEF Claim, Claimant
  <2>6. QED
    BY <1>1, <1>2, <2>3, <2>4, <2>5 DEF InFlightOwned
<1>6. CASE Complete(d) \/ MarkDead(d) \/ RetryLater(d)
  <2>1. PICK i \in taken[d] : row' \in {Completed(i), Parked(i), Retried(i)}
    BY <1>6 DEF Complete, MarkDead, RetryLater
  <2>2. i \in Item /\ \A j \in taken[d] : j = i
    BY DEF TypeOK, OneTaken
  <2>3. row[i.key].status = "in_flight" /\ row[i.key].id = i.id
    BY <1>6 DEF SoleWriter, Claimant, Complete, MarkDead, RetryLater
  <2>4. row'[i.key].status # "in_flight"
    BY <2>1, <2>2, <2>3, OutcomeNotInFlight
  <2>5. \A k \in Keys \ {i.key} : row'[k] = row[k]
    BY <2>1, <2>2, OthersKept
  <2>6. QED
    BY <1>1, <1>2, <2>2, <2>4, <2>5 DEF InFlightOwned
<1>7. ~Release(d) /\ ~DrainStoreError(d)
  BY DEF Release, DrainStoreError, NeverStopped
<1>8. QED
  BY <1>3, <1>4, <1>5, <1>6, <1>7 DEF DrainStep

LEMMA OwnStep ==
    ASSUME OwnInv, InFlightOwned, ~StoreMayFail, Next, stops' = 0, stops = 0
    PROVE  InFlightOwned'
<1> USE DEF OwnInv, WriterInv, storeVars, drainVars, callVars, envVars
<1>1. ASSUME UNCHANGED <<dpc, taken, up>>,
             \A k \in Keys : row'[k].status = "in_flight" => row[k].status = "in_flight"
      PROVE  InFlightOwned'
  BY <1>1 DEF InFlightOwned, Claimant
<1>2. ASSUME NEW c \in Calls, Submit(c) \/ CallStep(c) PROVE InFlightOwned'
  <2>1. UNCHANGED <<dpc, taken, up>>
    BY <1>2 DEF Submit, CallStep, CountBacklog, DirectSend, DirectAnswer, Enqueue,
         SubmitStoreError
  <2>2. \A k \in Keys : row'[k].status = "in_flight" => row[k].status = "in_flight"
    <3>1. CASE Enqueue(c)
      BY <3>1, OutboxAssumption DEF Enqueue, Inserted, NoRow, TypeOK
    <3>2. CASE row' = row
      BY <3>2
    <3>3. QED
      BY <1>2, <3>1, <3>2 DEF Submit, CallStep, CountBacklog, DirectSend,
         DirectAnswer, SubmitStoreError
  <2>3. QED
    BY <1>1, <2>1, <2>2
<1>3. CASE Crash
  BY <1>3 DEF Crash, InFlightOwned
<1>4. CASE Restart
  BY <1>4 DEF Restart, Recovered, InFlightOwned, TypeOK, Row
<1>5. CASE Start \/ StatusChange
  BY <1>1, <1>5 DEF Start, StatusChange
<1>6. ASSUME NEW k \in Keys, BackoffElapses(k) PROVE InFlightOwned'
  <2>1. \A j \in Keys : row'[j].status = row[j].status
    BY <1>6 DEF BackoffElapses, TypeOK, Row
  <2>2. QED
    BY <1>1, <1>6, <2>1 DEF BackoffElapses
<1>7. ~Stop /\ orphan = {}
  BY DEF Stop, TypeOK, NeverStopped
<1>8. QED
  BY <1>2, <1>3, <1>4, <1>5, <1>6, <1>7, DrainStepOwned DEF Next

\* As long as the store raises nothing and stop() is not called, a row is marked
\* in flight only while a drain delivers it, crashes included: _open() puts back
\* whatever the dead process had claimed.
THEOREM InFlightIsDelivered ==
    ASSUME ~StoreMayFail, MaxStops = 0
    PROVE  Spec => []InFlightOwned
<1>1. Init => OwnInv
  BY WriterInit DEF Init, OwnInv, NeverStopped, InFlightOwned, NoRow
<1>2. OwnInv /\ [Next]_vars => OwnInv'
  <2> SUFFICES ASSUME OwnInv, [Next]_vars PROVE OwnInv'
    OBVIOUS
  <2>1. WriterInv' /\ NeverStopped'
    BY WriterStep, NeverStoppedStep DEF OwnInv, WriterInv
  <2>2. stops = 0 /\ stops' = 0
    BY <2>1 DEF OwnInv, WriterInv, TypeOK
  <2>3. CASE UNCHANGED vars
    BY <2>1, <2>2, <2>3 DEF vars, OwnInv, InFlightOwned, Claimant
  <2>4. CASE Next
    BY <2>1, <2>2, <2>4, OwnStep DEF OwnInv
  <2>5. QED
    BY <2>3, <2>4
<1>3. OwnInv => InFlightOwned
  BY DEF OwnInv, WriterInv, TypeOK
<1>4. QED
  BY <1>1, <1>2, <1>3, PTL DEF Spec

=============================================================================
