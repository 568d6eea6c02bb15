-------------------------- MODULE SyncMergeProofs ---------------------------
(***************************************************************************)
(* What TLAPS proves of the record synchroniser, for any record ids, field *)
(* values and bounds: the merge rules first, and then the synchroniser.    *)
(***************************************************************************)
EXTENDS SyncMerge, SequenceTheorems, FiniteSetTheorems, TLAPS

-----------------------------------------------------------------------------
(* The merge rules, for any fields, values and time stamps.                 *)

\* merge_fields(): an edit to a field the other side did not touch survives, and
\* a field nobody touched keeps its value.
THEOREM NoEditDropped ==
    ASSUME NEW base \in Data, NEW local \in Data, NEW server \in Data,
           NEW localTs \in Nat, NEW serverTs \in Nat
    PROVE  KeepsBothSides(base, local, server,
               MergeFields(base, local, server, localTs, serverTs))
<1> DEFINE merged == MergeFields(base, local, server, localTs, serverTs)
<1>1. SUFFICES ASSUME NEW f \in Fields
      PROVE  /\ local[f] # base[f] /\ server[f] = base[f] => merged[f] = local[f]
             /\ server[f] # base[f] /\ local[f] = base[f] => merged[f] = server[f]
             /\ local[f] = base[f] /\ server[f] = base[f] => merged[f] = base[f]
  BY DEF KeepsBothSides, ChangedBy
<1>2. merged[f] = MergedField(base[f], local[f], server[f], localTs, serverTs)
  BY DEF MergeFields
<1>3. QED
  BY <1>2 DEF MergedField

\* merge_fields() makes up no value, and what it returns is again a record's data.
THEOREM NothingInvented ==
    ASSUME NEW base \in Data, NEW local \in Data, NEW server \in Data,
           NEW localTs \in Nat, NEW serverTs \in Nat
    PROVE  LET merged == MergeFields(base, local, server, localTs, serverTs)
           IN  FromASide(local, server, merged) /\ merged \in Data
<1> DEFINE merged == MergeFields(base, local, server, localTs, serverTs)
<1>1. ASSUME NEW f \in Fields
      PROVE  merged[f] \in {local[f], server[f]}
  BY DEF MergeFields, MergedField
<1>2. merged = [f \in Fields |-> merged[f]]
  BY DEF MergeFields
<1>3. merged \in Data
  BY <1>1, <1>2 DEF Data
<1>4. QED
  BY <1>1, <1>3 DEF FromASide

\* Two devices that resolve the same pair of edits, each with its own copy as the
\* local one, reach the same data as long as the time stamps differ.
THEOREM DevicesAgree ==
    ASSUME NEW base \in Data, NEW here \in Data, NEW there \in Data,
           NEW myTs \in Nat, NEW yourTs \in Nat, myTs # yourTs
    PROVE  MergeFields(base, here, there, myTs, yourTs)
           = MergeFields(base, there, here, yourTs, myTs)
<1>1. ASSUME NEW f \in Fields
      PROVE  MergedField(base[f], here[f], there[f], myTs, yourTs)
             = MergedField(base[f], there[f], here[f], yourTs, myTs)
  BY DEF MergedField
<1>2. QED
  BY <1>1 DEF MergeFields

\* A push whose answer was lost conflicts with itself: resolving it gives back
\* the very record, deleted or not, so the retry cannot change it.
THEOREM OwnPushIsNoConflict ==
    ASSUME NEW local, NEW server,
           local.data \in Data, local.base \in Data,
           local.deleted \in BOOLEAN,
           local.ts \in Nat, server.ts = local.ts,
           server.data = local.data, server.deleted = local.deleted
    PROVE  Resolve(local, server)
           = [data |-> local.data, deleted |-> local.deleted]
<1>1. CASE local.deleted
  BY <1>1 DEF Resolve
<1>2. CASE ~local.deleted
  <2>1. MergeFields(local.base, local.data, server.data, local.ts, server.ts)
        = [f \in Fields |-> local.data[f]]
    BY DEF MergeFields, MergedField
  <2>2. local.data = [f \in Fields |-> local.data[f]]
    BY DEF Data
  <2>3. local.deleted = FALSE
    BY <1>2
  <2>4. QED
    BY <2>1, <2>2, <2>3, <1>2 DEF Resolve
<1>3. QED
  BY <1>1, <1>2

-----------------------------------------------------------------------------
(* The synchroniser's records and the server's versions.                    *)

\* Where the sync thread stands: what it has under way, and of which push.
Stages ==
    /\ inbox # {} => pc \in {"pullRead", "pullWrite"}
    /\ change # {} => pc \in {"pullWrite", "pushWrite"}
    /\ results # {} => pc \in {"results", "pushWrite"}
    /\ pc \in {"push", "pushing", "results", "pushWrite", "count"} => round < MaxRounds

\* No time stamp lies ahead of the clock: the next edit has one of its own.
Stamped ==
    \A i \in Ids :
        /\ rec[i].ts <= clock /\ sent[i].ts <= clock
        /\ \A n \in 1..Newest(i) : hist[i][n].ts <= clock

\* The versions the synchroniser speaks of are the server's.
Versions ==
    /\ \A i \in Ids : rec[i].version <= Newest(i)
    /\ \A k \in 1..Len(log) : Newest(log[k]) >= 1
    /\ \A ch \in inbox \cup change : ch.version \in 1..Newest(ch.id)
    /\ \A a \in results : a.version \in 1..Newest(a.id)
    /\ pc = "pushing" => \A i \in Ids : sent[i].version <= Newest(i)

\* A row whose time stamp is still the one that was sent is still what was sent.
Unedited(i) ==
    rec[i].present /\ rec[i].ts = sent[i].ts =>
        rec[i].data = sent[i].data /\ rec[i].deleted = sent[i].deleted
\* An accepted row is the server's version.
Pushed ==
    /\ pc = "pushing" => \A i \in Ids : sent[i].present => Unedited(i)
    /\ \A a \in results : a.status = "ok" =>
         /\ Unedited(a.id)
         /\ hist[a.id][a.version].data = sent[a.id].data
         /\ hist[a.id][a.version].deleted = sent[a.id].deleted
    /\ \A a, b \in results : a.id = b.id => a = b
    /\ \A a \in results, ch \in change : a.id # ch.id

\* A record that is not there is based on nothing.
Absent == \A i \in Ids : ~rec[i].present => rec[i].version = 0 /\ rec[i].base = Empty

SyncInv == CopiesTrue /\ Absent /\ Stages /\ Stamped /\ Versions /\ Pushed

LEMMA EmptyIsData == Empty \in Data
BY DEF Empty, Data

LEMMA NoRecordOK == NoRecord \in Record
BY EmptyIsData DEF NoRecord, Record

LEMMA InitSyncInv == Init => SyncInv
<1> SUFFICES ASSUME Init PROVE SyncInv
  OBVIOUS
<1>1. Empty \in Data
  BY EmptyIsData
<1>2. NoRecord \in Record
  BY NoRecordOK
<1>3. TypeOK
  <2>1. rec \in [Ids -> Record] /\ sent \in [Ids -> Record] /\ snap \in Record
    BY <1>2 DEF Init
  <2>2. hist \in [Ids -> Seq(Copy)] /\ log \in Seq(Ids)
    BY DEF Init
  <2>3. mine \in [Ids -> [data : Data, deleted : BOOLEAN]]
    BY <1>1 DEF Init
  <2>4. inbox \in SUBSET Change /\ change \in SUBSET Change /\ results \in SUBSET Answer
    BY DEF Init
  <2>5. /\ cursor \in Nat /\ nextCursor \in Nat /\ clock \in Nat /\ round \in 0..MaxRounds
        /\ edits \in 0..MaxEdits /\ remotes \in 0..MaxRemote
        /\ faults \in 0..MaxFaults /\ crashes \in 0..MaxCrashes
    BY SyncAssumption DEF Init
  <2>6. pc = "wait" /\ wasOnline \in BOOLEAN
    BY DEF Init
  <2> QED
    BY <2>1, <2>2, <2>3, <2>4, <2>5, <2>6 DEF TypeOK
<1>4. BaseIsServerCopy /\ CleanIsServers /\ Absent /\ Stages /\ Stamped
  BY SyncAssumption DEF Init, BaseIsServerCopy, CleanIsServers, Absent, Stages, Stamped, Newest, NoRecord
<1>5. Versions /\ Pushed
  BY DEF Init, Versions, Pushed, Newest, NoRecord
<1> QED
  BY <1>3, <1>4, <1>5 DEF SyncInv, CopiesTrue

\* What the clauses about rows and versions say of one state is said of the next when
\* only the control changes.
Rows == <<rec, hist, log, clock>>

LEMMA CopiesStay ==
    ASSUME SyncInv, UNCHANGED Rows PROVE BaseIsServerCopy' /\ CleanIsServers' /\ Absent'
BY DEF SyncInv, CopiesTrue, BaseIsServerCopy, CleanIsServers, Absent, Rows, Newest

\* A version of the server is a copy.
LEMMA VersionIsCopy ==
    ASSUME TypeOK, NEW i \in Ids, NEW n \in 1..Newest(i)
    PROVE  hist[i][n] \in Copy
BY DEF TypeOK, Newest

LEMMA ResolvedOK ==
    ASSUME NEW local \in Record, NEW server \in Copy
    PROVE  Resolve(local, server).data \in Data /\ Resolve(local, server).deleted \in BOOLEAN
<1> DEFINE merged == MergeFields(local.base, local.data, server.data, local.ts, server.ts)
<1>1. merged \in Data
  BY NothingInvented DEF Record, Copy
<1>2. CASE local.deleted \/ server.deleted
  BY <1>2 DEF Resolve, Record, Copy
<1>3. CASE ~(local.deleted \/ server.deleted)
  BY <1>1, <1>3 DEF Resolve
<1> QED
  BY <1>2, <1>3

\* What _apply_server_change does to the row: nothing, or the row is based on the version
\* that came, and clean only as the server's copy.
LEMMA AppliedRow ==
    ASSUME TypeOK, NEW ch \in Change, ch.version \in 1..Newest(ch.id)
    PROVE  LET i == ch.id
               srv == hist[ch.id][ch.version]
               row == Applied(ch)[ch.id]
           IN  /\ Applied(ch) \in [Ids -> Record]
               /\ \A j \in Ids : j # i => Applied(ch)[j] = rec[j]
               /\ \/ snap.present /\ ~rec[i].present /\ Applied(ch) = rec
                  \/ /\ row.present /\ row.version = ch.version /\ row.base = srv.data
                     /\ row.dirty \/ (row.data = srv.data /\ row.deleted = srv.deleted)
                     /\ row.ts \in {rec[i].ts, srv.ts}
<1> DEFINE i == ch.id
           srv == hist[i][ch.version]
           merged == Resolve(snap, srv)
<1>1. i \in Ids /\ srv \in Copy /\ rec \in [Ids -> Record] /\ ch.version \in Nat
  BY VersionIsCopy DEF TypeOK, Change
<1>2. CASE ~snap.present \/ ~snap.dirty
  <2> DEFINE row == [present |-> TRUE, data |-> srv.data, base |-> srv.data,
                     version |-> ch.version, ts |-> srv.ts, deleted |-> srv.deleted,
                     dirty |-> FALSE]
  <2>1. Applied(ch) = [rec EXCEPT ![i] = row]
    BY <1>2 DEF Applied
  <2>2. row \in Record
    BY <1>1 DEF Record, Copy
  <2> QED
    BY <1>1, <2>1, <2>2
<1>3. CASE snap.present /\ snap.dirty /\ ~rec[i].present
  <2>1. Applied(ch) = rec
    BY <1>3 DEF Applied
  <2> QED
    BY <1>1, <1>3, <2>1
<1>4. CASE snap.present /\ snap.dirty /\ rec[i].present
  <2> DEFINE row == [rec[i] EXCEPT !.data = merged.data, !.deleted = merged.deleted,
                                   !.base = srv.data, !.version = ch.version, !.dirty = TRUE]
  <2>1. Applied(ch) = [rec EXCEPT ![i].data = merged.data, ![i].deleted = merged.deleted,
                                  ![i].base = srv.data, ![i].version = ch.version, ![i].dirty = TRUE]
    BY <1>4 DEF Applied
  <2>2. Applied(ch) = [rec EXCEPT ![i] = row]
    BY <1>1, <2>1
  <2>3. merged.data \in Data /\ merged.deleted \in BOOLEAN
    BY <1>1, ResolvedOK DEF TypeOK
  <2>4. row \in Record /\ row.present /\ row.version = ch.version /\ row.base = srv.data
        /\ row.dirty /\ row.ts = rec[i].ts
    <3>1. rec[i] \in Record /\ srv.data \in Data
      BY <1>1 DEF Copy
    <3> QED
      BY <1>1, <1>4, <2>3, <3>1 DEF Record
  <2> HIDE DEF row
  <2> QED
    BY <1>1, <2>2, <2>4
<1> QED
  BY <1>2, <1>3, <1>4

-----------------------------------------------------------------------------
(* Every step keeps that.                                                   *)

LEMMA RowEdits ==
    ASSUME NEW row \in Record, NEW d \in Data, NEW t \in Nat
    PROVE  /\ [row EXCEPT !.present = TRUE, !.data = d, !.ts = t, !.deleted = FALSE, !.dirty = TRUE] \in Record
           /\ [row EXCEPT !.deleted = TRUE, !.dirty = TRUE, !.ts = t] \in Record
BY DEF Record

\* put() and delete(): the row is dirty, with a time stamp nothing else has.
LEMMA EditKeepsSync ==
    ASSUME SyncInv, NEW i \in Ids, Delete(i) \/ \E d \in Writes : Put(i, d)
    PROVE  SyncInv'
<1>0. rec \in [Ids -> Record] /\ rec[i] \in Record /\ clock \in Nat
  BY DEF SyncInv, CopiesTrue, TypeOK
<1>1. \E row \in Record : /\ rec' = [rec EXCEPT ![i] = row] /\ row.present /\ row.dirty /\ row.ts = clock + 1
                          /\ row.version = rec[i].version /\ row.base = rec[i].base
  <2>1. CASE Delete(i)
    <3> DEFINE row == [rec[i] EXCEPT !.deleted = TRUE, !.dirty = TRUE, !.ts = clock + 1]
    <3>1. rec' = [rec EXCEPT ![i] = row]
      BY <1>0, <2>1 DEF Delete
    <3>2. rec[i].present
      BY <2>1 DEF Delete
    <3>3. row \in Record
      <4>1. clock + 1 \in Nat /\ rec[i] \in Record
        BY <1>0
      <4> HIDE DEF Record, Data
      <4> QED
        BY <4>1, EmptyIsData, RowEdits
    <3>4. row.present /\ row.dirty /\ row.ts = clock + 1 /\ row.version = rec[i].version /\ row.base = rec[i].base
      BY <1>0, <3>2 DEF Record
    <3> QED
      BY <3>1, <3>3, <3>4
  <2>2. ASSUME NEW d \in Writes, Put(i, d)
        PROVE  \E row \in Record : /\ rec' = [rec EXCEPT ![i] = row] /\ row.present /\ row.dirty /\ row.ts = clock + 1
                                   /\ row.version = rec[i].version /\ row.base = rec[i].base
    <3> DEFINE row == [rec[i] EXCEPT !.present = TRUE, !.data = d, !.ts = clock + 1, !.deleted = FALSE, !.dirty = TRUE]
    <3>1. rec' = [rec EXCEPT ![i] = row]
      BY <1>0, <2>2 DEF Put
    <3>2. d \in Data
      BY SyncAssumption
    <3>3. row \in Record
      <4>1. clock + 1 \in Nat /\ rec[i] \in Record
        BY <1>0
      <4> HIDE DEF Record, Data
      <4> QED
        BY <4>1, <3>2, RowEdits
    <3>4. row.present /\ row.dirty /\ row.ts = clock + 1 /\ row.version = rec[i].version /\ row.base = rec[i].base
      BY <1>0 DEF Record
    <3> QED
      BY <3>1, <3>3, <3>4
  <2> QED
    BY <2>1, <2>2
<1>2. PICK row \in Record : /\ rec' = [rec EXCEPT ![i] = row] /\ row.present /\ row.dirty /\ row.ts = clock + 1
                            /\ row.version = rec[i].version /\ row.base = rec[i].base
  BY <1>1
<1>3. /\ rec' \in [Ids -> Record] /\ rec'[i] = row /\ \A j \in Ids : j # i => rec'[j] = rec[j]
  BY <1>0, <1>2
<1>4. /\ UNCHANGED <<cursor, serverVars, pc, wasOnline, pullVars, pushVars, remotes, faults, crashes>>
      /\ clock' = clock + 1 /\ edits' \in 0..MaxEdits
      /\ mine' \in [Ids -> [data : Data, deleted : BOOLEAN]]
  <2>1. edits' = edits + 1 /\ edits < MaxEdits /\ clock' = clock + 1
        /\ UNCHANGED <<cursor, serverVars, pc, wasOnline, pullVars, pushVars, remotes, faults, crashes>>
    BY DEF Put, Delete
  <2>2. edits' \in 0..MaxEdits
    BY <2>1, SyncAssumption DEF SyncInv, CopiesTrue, TypeOK
  <2>3. mine' \in [Ids -> [data : Data, deleted : BOOLEAN]]
    <3>1. mine \in [Ids -> [data : Data, deleted : BOOLEAN]]
      BY DEF SyncInv, CopiesTrue, TypeOK
    <3>2. CASE Delete(i)
      BY <3>1, <3>2 DEF Delete
    <3>3. ASSUME NEW d \in Writes, Put(i, d) PROVE mine' \in [Ids -> [data : Data, deleted : BOOLEAN]]
      BY <3>1, <3>3, SyncAssumption DEF Put
    <3> QED
      BY <3>2, <3>3
  <2> QED
    BY <2>1, <2>2, <2>3
<1>5. TypeOK'
  BY <1>0, <1>3, <1>4 DEF SyncInv, CopiesTrue, TypeOK, serverVars, pullVars, pushVars
<1>6. BaseIsServerCopy' /\ CleanIsServers' /\ Absent'
  BY <1>2, <1>3, <1>4 DEF SyncInv, CopiesTrue, BaseIsServerCopy, CleanIsServers, Absent, serverVars, Newest
<1>7. Stages' /\ Versions'
  BY <1>2, <1>3, <1>4 DEF SyncInv, Stages, Versions, serverVars, pullVars, pushVars, Newest
<1>8. Stamped'
  <2>1. \A j \in Ids : rec[j].ts \in Nat /\ sent[j].ts \in Nat /\ \A n \in 1..Newest(j) : hist[j][n].ts \in Nat
    BY VersionIsCopy DEF SyncInv, CopiesTrue, TypeOK, Record, Copy
  <2> QED
    BY <1>0, <1>2, <1>3, <1>4, <2>1 DEF SyncInv, Stamped, serverVars, pushVars, Newest
<1>9. Pushed'
  <2>1. \A j \in Ids : Unedited(j) => Unedited(j)'
    <3>1. sent[i].ts \in Nat /\ sent[i].ts # clock + 1
      BY <1>0 DEF SyncInv, CopiesTrue, TypeOK, Record, Stamped
    <3> QED
      BY <1>2, <1>3, <1>4, <3>1 DEF Unedited, pushVars
  <2> QED
    BY <1>4, <2>1 DEF SyncInv, CopiesTrue, TypeOK, Answer, Pushed, serverVars, pullVars, pushVars
<1> QED
  BY <1>5, <1>6, <1>7, <1>8, <1>9 DEF SyncInv, CopiesTrue

\* The server's versions only grow in number: what was said of one stays true.
Grown ==
    /\ hist' \in [Ids -> Seq(Copy)]
    /\ \A i \in Ids : /\ Newest(i) <= Newest(i)'
                      /\ \A n \in 1..Newest(i) : hist'[i][n] = hist[i][n]

LEMMA GrownKeeps ==
    ASSUME SyncInv, Grown, UNCHANGED rec
    PROVE  /\ BaseIsServerCopy' /\ CleanIsServers' /\ Absent'
           /\ \A i \in Ids : rec[i].version <= Newest(i)'
<1>1. \A i \in Ids : Newest(i) \in Nat /\ Newest(i)' \in Nat /\ rec[i].version \in Nat
  BY DEF SyncInv, CopiesTrue, TypeOK, Record, Newest, Grown
<1>2. \A i \in Ids : rec[i].version <= Newest(i)'
  BY <1>1 DEF SyncInv, Versions, Grown
<1>3. \A i \in Ids : \A n \in 1..Newest(i) : n \in 1..Newest(i)'
  BY <1>1 DEF Grown
<1>4. BaseIsServerCopy'
  <2> SUFFICES ASSUME NEW i \in Ids, rec[i].present, rec[i].version # 0
               PROVE  rec[i].version <= Newest(i)' /\ rec[i].base = hist'[i][rec[i].version].data
    BY DEF SyncInv, CopiesTrue, BaseIsServerCopy
  <2>1. rec[i].version \in 1..Newest(i) /\ rec[i].base = hist[i][rec[i].version].data
    BY <1>1 DEF SyncInv, CopiesTrue, BaseIsServerCopy
  <2> QED
    BY <1>2, <2>1 DEF Grown
<1>5. CleanIsServers'
  BY <1>3 DEF SyncInv, CopiesTrue, CleanIsServers, Grown
<1>6. Absent'
  BY DEF SyncInv, Absent
<1> QED
  BY <1>2, <1>4, <1>5, <1>6

\* Another client's edit.
LEMMA RemoteKeepsSync ==
    ASSUME SyncInv, NEW i \in Ids, NEW d \in Writes, NEW del \in BOOLEAN, RemoteEdit(i, d, del)
    PROVE  SyncInv'
<1> DEFINE copy == [data |-> d, ts |-> clock + 1, deleted |-> del]
<1>0. /\ clock \in Nat /\ hist \in [Ids -> Seq(Copy)] /\ log \in Seq(Ids)
      /\ hist' = [hist EXCEPT ![i] = Append(@, copy)] /\ log' = Append(log, i) /\ clock' = clock + 1
      /\ UNCHANGED <<storeVars, pc, wasOnline, pullVars, pushVars, mine, edits, faults, crashes>>
      /\ remotes < MaxRemote /\ remotes' = remotes + 1
  BY DEF RemoteEdit, SyncInv, CopiesTrue, TypeOK
<1>a. clock \in Nat /\ clock' = clock + 1
  BY <1>0
<1>b. UNCHANGED <<rec, sent, results, change, pc>>
  BY <1>0 DEF storeVars, pushVars, pullVars
<1>1. copy \in Copy /\ copy.ts = clock + 1
  BY <1>0, SyncAssumption DEF Copy
<1> HIDE DEF copy
<1>2. /\ hist' \in [Ids -> Seq(Copy)] /\ log' \in Seq(Ids)
      /\ hist'[i] = Append(hist[i], copy) /\ \A j \in Ids : j # i => hist'[j] = hist[j]
  BY <1>0, <1>1
<1>3. Newest(i)' = Newest(i) + 1 /\ hist'[i][Newest(i)'] = copy
      /\ \A n \in 1..Newest(i) : hist'[i][n] = hist[i][n]
  BY <1>0, <1>1, <1>2 DEF Newest
<1>4. Grown
  BY <1>0, <1>2, <1>3 DEF Grown, Newest
<1>5. TypeOK'
  <2>1. remotes' \in 0..MaxRemote
    BY <1>0, SyncAssumption DEF SyncInv, CopiesTrue, TypeOK
  <2> QED
    BY <1>0, <1>2, <2>1 DEF SyncInv, CopiesTrue, TypeOK, storeVars, pullVars, pushVars
<1>6. /\ BaseIsServerCopy' /\ CleanIsServers' /\ Absent'
      /\ \A j \in Ids : rec'[j].version <= Newest(j)'
  BY <1>0, <1>4, GrownKeeps DEF storeVars
<1>7. Stages'
  BY <1>0 DEF SyncInv, Stages, pullVars, pushVars
<1>8. Stamped'
  <2>1. \A j \in Ids : /\ rec[j].ts \in Nat /\ sent[j].ts \in Nat
                       /\ \A n \in 1..Newest(j) : hist[j][n].ts \in Nat /\ hist[j][n].ts <= clock
    BY VersionIsCopy DEF SyncInv, CopiesTrue, TypeOK, Record, Copy, Stamped
  <2>2. \A j \in Ids : rec'[j].ts <= clock' /\ sent'[j].ts <= clock'
    BY <1>0, <2>1 DEF SyncInv, Stamped, storeVars, pushVars
  <2>3. ASSUME NEW j \in Ids, NEW n \in 1..Newest(j)' PROVE hist'[j][n].ts <= clock'
    <3>1. CASE j = i
      <4>1. CASE n = Newest(i)'
        BY <1>a, <1>1, <1>3, <3>1, <4>1
      <4>2. CASE n # Newest(i)'
        <5>1. n \in 1..Newest(i)
          BY <1>0, <1>3, <3>1, <4>2 DEF Newest
        <5>2. hist'[j][n] = hist[i][n]
          BY <1>3, <3>1, <5>1
        <5> QED
          BY <1>a, <2>1, <3>1, <5>1, <5>2
      <4> QED
        BY <4>1, <4>2
    <3>2. CASE j # i
      BY <1>0, <1>2, <2>1, <3>2 DEF Newest
    <3> QED
      BY <3>1, <3>2
  <2> QED
    BY <2>2, <2>3 DEF Stamped
<1>9. Versions'
  <2>1. \A j \in Ids : Newest(j) \in Nat /\ Newest(j)' \in Nat
    BY <1>0, <1>2 DEF Newest
  <2>2. \A k \in 1..Len(log') : Newest(log[k])' >= 1
    <3> TAKE k \in 1..Len(log')
    <3>0. Len(log') = Len(log) + 1 /\ \A n \in 1..Len(log') : log'[n] = IF n = Len(log') THEN i ELSE log[n]
      BY <1>0
    <3>1. CASE k = Len(log')
      <4>1. Newest(log[k])' = Newest(i)'
        BY <3>0, <3>1 DEF Newest
      <4> QED
        BY <1>3, <2>1, <4>1
    <3>2. CASE k # Len(log')
      <4>1. k \in 1..Len(log) /\ log'[k] = log[k] /\ log[k] \in Ids
        BY <1>0, <3>0, <3>2
      <4>2. Newest(log[k])' = Len(hist'[log[k]]) /\ Newest(log[k]) >= 1
        BY <4>1 DEF SyncInv, Versions, Newest
      <4> QED
        BY <1>0, <1>2, <1>4, <4>1, <4>2 DEF Grown, Newest
    <3> QED
      BY <3>1, <3>2
  <2>3. \A j \in Ids : \A n : n \in 1..Newest(j) => n \in 1..Newest(j)'
    BY <1>4, <2>1 DEF Grown
  <2>4. /\ \A ch \in inbox \cup change : ch.id \in Ids
        /\ \A a \in results : a.id \in Ids
        /\ \A j \in Ids : sent[j].version \in Nat
    BY DEF SyncInv, CopiesTrue, TypeOK, Change, Answer, Record
  <2>5. pc' = "pushing" => \A j \in Ids : sent'[j].version <= Newest(j)'
    BY <1>0, <1>4, <2>1, <2>4 DEF SyncInv, Versions, Grown, pushVars
  <2> QED
    BY <1>0, <1>6, <2>2, <2>3, <2>4, <2>5 DEF SyncInv, Versions, pullVars, pushVars
<1>10. Pushed'
  <2>1. \A a \in results : a.id \in Ids /\ hist'[a.id][a.version] = hist[a.id][a.version]
    BY <1>4 DEF SyncInv, CopiesTrue, TypeOK, Answer, Versions, Grown
  <2> QED
    BY <1>b, <2>1 DEF SyncInv, Pushed, Unedited
<1> QED
  BY <1>5, <1>6, <1>7, <1>8, <1>9, <1>10 DEF SyncInv, CopiesTrue

-----------------------------------------------------------------------------
(* The push request, and the steps that touch neither rows nor versions.    *)

LEMMA AcceptedFinite == IsFiniteSet(Accepted) /\ Cardinality(Accepted) \in Nat
<1>1. Accepted \subseteq Ids
  BY DEF Accepted, Batch
<1> QED
  BY <1>1, SyncAssumption, FS_Subset, FS_CardinalityType

\* What the server makes of a batch: one more version of each record it accepts.
LEMMA ServerGrows ==
    ASSUME SyncInv, ServerPushes
    PROVE  /\ Grown /\ log' \in Seq(Ids)
           /\ \A i \in Accepted : /\ Newest(i)' = Newest(i) + 1
                                  /\ hist'[i][Newest(i) + 1].data = sent[i].data
                                  /\ hist'[i][Newest(i) + 1].deleted = sent[i].deleted
                                  /\ hist'[i][Newest(i) + 1].ts = sent[i].ts
           /\ \A i \in Ids \ Accepted : hist'[i] = hist[i]
           /\ \A k \in 1..Len(log') : \/ k \in 1..Len(log) /\ log'[k] = log[k]
                                      \/ log'[k] \in Accepted
<1> DEFINE copy(i) == [data |-> sent[i].data, ts |-> sent[i].ts, deleted |-> sent[i].deleted]
<1>1. Accepted \subseteq Ids /\ sent \in [Ids -> Record] /\ hist \in [Ids -> Seq(Copy)] /\ log \in Seq(Ids)
  BY DEF Accepted, Batch, SyncInv, CopiesTrue, TypeOK
<1>2. \A i \in Ids : hist'[i] = IF i \in Accepted THEN Append(hist[i], copy(i)) ELSE hist[i]
  BY DEF ServerPushes
<1>3. \A i \in Ids : copy(i) \in Copy
  BY <1>1 DEF Copy, Record
<1>4. DOMAIN hist' = Ids /\ hist' = [i \in Ids |-> hist'[i]]
  BY DEF ServerPushes
<1>5. \A i \in Accepted :
        /\ hist'[i] \in Seq(Copy) /\ Newest(i)' = Newest(i) + 1 /\ hist'[i][Newest(i) + 1] = copy(i)
        /\ \A n \in 1..Newest(i) : hist'[i][n] = hist[i][n]
  <2> TAKE i \in Accepted
  <2>1. hist[i] \in Seq(Copy) /\ copy(i) \in Copy /\ hist'[i] = Append(hist[i], copy(i))
    BY <1>1, <1>2, <1>3
  <2> HIDE DEF copy
  <2> QED
    BY <2>1 DEF Newest
<1>6. \A i \in Ids \ Accepted : hist'[i] = hist[i]
  BY <1>2
<1>7. Grown
  <2>1. ASSUME NEW i \in Ids PROVE hist'[i] \in Seq(Copy)
    BY <1>1, <1>5, <1>6
  <2>2. hist' \in [Ids -> Seq(Copy)]
    BY <1>4, <2>1
  <2>3. \A i \in Ids : Newest(i) \in Nat
    BY <1>1 DEF Newest
  <2>4. ASSUME NEW i \in Ids
        PROVE  Newest(i) <= Newest(i)' /\ \A n \in 1..Newest(i) : hist'[i][n] = hist[i][n]
    <3>1. CASE i \in Accepted
      <4>1. Newest(i)' = Newest(i) + 1 /\ \A n \in 1..Newest(i) : hist'[i][n] = hist[i][n]
        BY <1>5, <3>1
      <4> QED
        BY <2>3, <4>1
    <3>2. CASE i \notin Accepted
      BY <1>6, <2>3, <3>2 DEF Newest
    <3> QED
      BY <3>1, <3>2
  <2> QED
    BY <2>2, <2>4 DEF Grown
<1>8. /\ log' \in Seq(Ids)
      /\ \A k \in 1..Len(log') : (k \in 1..Len(log) /\ log'[k] = log[k]) \/ log'[k] \in Accepted
  <2>1. PICK order \in [1..Cardinality(Accepted) -> Accepted] : log' = log \o order
    BY DEF ServerPushes
  <2> DEFINE c == Cardinality(Accepted)
  <2>2. order \in Seq(Accepted) /\ order \in Seq(Ids)
    <3>1. c \in Nat /\ order \in [1..c -> Accepted] /\ order \in [1..c -> Ids]
      BY <1>1, AcceptedFinite
    <3> HIDE DEF c
    <3> QED
      BY <3>1, SeqDef
  <2>3. log' \in Seq(Ids) /\ Len(log') = Len(log) + Len(order)
        /\ \A k \in 1..Len(log') : log'[k] = IF k <= Len(log) THEN log[k] ELSE order[k - Len(log)]
    BY <1>1, <2>1, <2>2, ConcatProperties
  <2>4. \A n \in 1..Len(order) : order[n] \in Accepted
    BY <2>2, ElementOfSeq
  <2>5. Len(log) \in Nat /\ Len(order) \in Nat
    BY <1>1, <2>2
  <2> QED
    BY <2>3, <2>4, <2>5
<1>9. \A i \in Accepted : /\ hist'[i][Newest(i) + 1].data = sent[i].data
                          /\ hist'[i][Newest(i) + 1].deleted = sent[i].deleted
                          /\ hist'[i][Newest(i) + 1].ts = sent[i].ts
  <2> TAKE i \in Accepted
  <2>1. hist'[i][Newest(i) + 1] = copy(i)
    BY <1>5
  <2> QED
    BY <2>1
<1> QED
  BY <1>5, <1>6, <1>7, <1>8, <1>9

\* The versions after a request that the server processed, or did not get.
LEMMA PushGrows ==
    ASSUME SyncInv, ServerPushes \/ UNCHANGED serverVars
    PROVE  /\ Grown /\ log' \in Seq(Ids)
           /\ \A i \in Ids : \A n \in 1..Newest(i)' : \/ n \in 1..Newest(i) /\ hist'[i][n] = hist[i][n]
                                                      \/ hist'[i][n].ts = sent[i].ts
           /\ \A k \in 1..Len(log') : Newest(log[k])' >= 1
<1>0. hist \in [Ids -> Seq(Copy)] /\ log \in Seq(Ids) /\ \A i \in Ids : Newest(i) \in Nat
  BY DEF SyncInv, CopiesTrue, TypeOK, Newest
<1>1. CASE ServerPushes
  <2>1. /\ Grown /\ log' \in Seq(Ids)
        /\ \A i \in Accepted : Newest(i)' = Newest(i) + 1 /\ hist'[i][Newest(i) + 1].ts = sent[i].ts
        /\ \A i \in Ids \ Accepted : hist'[i] = hist[i]
        /\ \A k \in 1..Len(log') : (k \in 1..Len(log) /\ log'[k] = log[k]) \/ log'[k] \in Accepted
    BY <1>1, ServerGrows
  <2>2. ASSUME NEW i \in Ids, NEW n \in 1..Newest(i)'
        PROVE  (n \in 1..Newest(i) /\ hist'[i][n] = hist[i][n]) \/ hist'[i][n].ts = sent[i].ts
    <3>1. CASE i \in Accepted
      <4>1. n \in 1..Newest(i) \/ n = Newest(i) + 1
        BY <1>0, <2>1, <3>1
      <4> QED
        BY <2>1, <3>1, <4>1 DEF Grown
    <3>2. CASE i \notin Accepted
      BY <2>1, <3>2 DEF Newest
    <3> QED
      BY <3>1, <3>2
  <2>3. ASSUME NEW k \in 1..Len(log') PROVE Newest(log[k])' >= 1
    <3>0. Newest(log[k])' = Len(hist'[log'[k]]) /\ \A i : Newest(i)' = Len(hist'[i])
      BY DEF Newest
    <3>1. CASE k \in 1..Len(log) /\ log'[k] = log[k]
      <4>1. log[k] \in Ids /\ Newest(log[k]) >= 1
        BY <1>0, <3>1 DEF SyncInv, Versions
      <4>2. Len(hist'[log[k]]) \in Nat /\ Len(hist'[log[k]]) >= Newest(log[k])
        BY <2>1, <3>0, <4>1 DEF Grown
      <4> QED
        BY <1>0, <3>0, <3>1, <4>1, <4>2
    <3>2. CASE log'[k] \in Accepted
      <4>1. log'[k] \in Ids /\ Len(hist'[log'[k]]) = Newest(log'[k]) + 1
        BY <2>1, <3>0, <3>2 DEF Accepted, Batch
      <4> QED
        BY <1>0, <3>0, <4>1
    <3> QED
      BY <2>1, <3>1, <3>2
  <2> QED
    BY <2>1, <2>2, <2>3
<1>2. CASE UNCHANGED serverVars
  BY <1>0, <1>2 DEF serverVars, Grown, Newest, SyncInv, Versions
<1> QED
  BY <1>1, <1>2

LEMMA PushKeepsSync == ASSUME SyncInv, PushRequest PROVE SyncInv'
<1>0. /\ pc = "pushing" /\ UNCHANGED <<wasOnline, pullVars, sent, round, storeVars, clock, mine, edits, remotes, crashes>>
      /\ faults' \in 0..MaxFaults /\ pc' \in {"results", "wait"}
      /\ results = {} /\ change = {} /\ inbox = {}
  <2>1. faults' = faults \/ (faults < MaxFaults /\ faults' = faults + 1)
    BY DEF PushRequest, Abort, Fault, bounds
  <2>2. faults' \in 0..MaxFaults
    BY <2>1, SyncAssumption DEF SyncInv, CopiesTrue, TypeOK
  <2> QED
    BY <2>2 DEF PushRequest, Abort, Goto, bounds, SyncInv, Stages
<1>1. /\ Grown /\ log' \in Seq(Ids)
      /\ \A i \in Ids : \A n \in 1..Newest(i)' : \/ n \in 1..Newest(i) /\ hist'[i][n] = hist[i][n]
                                                 \/ hist'[i][n].ts = sent[i].ts
      /\ \A k \in 1..Len(log') : Newest(log[k])' >= 1
  BY PushGrows DEF PushRequest
<1>2. /\ BaseIsServerCopy' /\ CleanIsServers' /\ Absent'
      /\ \A i \in Ids : rec'[i].version <= Newest(i)'
  BY <1>0, <1>1, GrownKeeps DEF storeVars
<1>3. Stamped'
  <2>1. \A i \in Ids : /\ rec'[i].ts <= clock' /\ sent'[i].ts <= clock'
                       /\ \A n \in 1..Newest(i) : hist[i][n].ts <= clock'
    BY <1>0 DEF SyncInv, Stamped, storeVars
  <2> QED
    BY <1>0, <1>1, <2>1 DEF Stamped
<1>4. CASE results' = {} /\ pc' = "wait"
  <2>1. TypeOK'
    BY <1>0, <1>1, <1>4 DEF SyncInv, CopiesTrue, TypeOK, Grown, storeVars, pullVars
  <2>2. Stages' /\ Pushed'
    BY <1>0, <1>4 DEF Stages, Pushed, pullVars
  <2>3. Versions'
    BY <1>0, <1>1, <1>2, <1>4 DEF Versions, pullVars
  <2> QED
    BY <1>2, <1>3, <2>1, <2>2, <2>3 DEF SyncInv, CopiesTrue
<1>5. CASE ServerPushes /\ results' = Answers /\ pc' = "results"
  <2>0. \A i \in Ids : Newest(i) \in Nat /\ sent[i].version \in Nat /\ sent[i].version <= Newest(i)
    BY <1>0 DEF SyncInv, CopiesTrue, TypeOK, Newest, Versions, Record
  <2>1. Accepted \subseteq Batch /\ Batch \subseteq Ids
    BY DEF Accepted, Batch
  <2>2. \A i \in Accepted : /\ Newest(i)' = Newest(i) + 1
                            /\ hist'[i][Newest(i) + 1].data = sent[i].data
                            /\ hist'[i][Newest(i) + 1].deleted = sent[i].deleted
    BY <1>0, <1>5, ServerGrows
  <2>3. \A i \in Batch \ Accepted : Newest(i) >= 1 /\ Newest(i) <= Newest(i)'
    BY <1>1, <2>0, <2>1 DEF Accepted, Grown
  <2>4. ASSUME NEW a \in results'
        PROVE  /\ a \in Answer /\ a.id \in Batch /\ a.version \in 1..Newest(a.id)'
               /\ a.status = "ok" <=> a.id \in Accepted
               /\ a.version = IF a.id \in Accepted THEN Newest(a.id) + 1 ELSE Newest(a.id)
    <3>1. CASE \E i \in Accepted : a = [id |-> i, status |-> "ok", version |-> Newest(i) + 1]
      BY <2>0, <2>1, <2>2, <3>1 DEF Answer
    <3>2. CASE \E i \in Batch \ Accepted : a = [id |-> i, status |-> "conflict", version |-> Newest(i)]
      <4>1. PICK i \in Batch \ Accepted : a = [id |-> i, status |-> "conflict", version |-> Newest(i)]
        BY <3>2
      <4>2. Newest(i)' \in Nat
        BY <1>1, <2>1 DEF Grown, Newest
      <4> QED
        BY <2>0, <2>1, <2>3, <4>1, <4>2 DEF Answer
    <3> QED
      BY <1>5, <3>1, <3>2 DEF Answers
  <2>5. TypeOK'
    <3>1. results' \in SUBSET Answer
      BY <2>4
    <3> QED
      BY <1>0, <1>1, <1>5, <3>1 DEF SyncInv, CopiesTrue, TypeOK, Grown, storeVars, pullVars
  <2>6. Stages'
    BY <1>0, <1>5 DEF SyncInv, Stages, pullVars
  <2>7. Versions'
    BY <1>0, <1>1, <1>2, <1>5, <2>4 DEF Versions, pullVars
  <2>8. Pushed'
    <3>1. \A i \in Batch : Unedited(i)'
      BY <1>0, <2>1 DEF SyncInv, Pushed, Batch, Unedited, storeVars
    <3>2. \A a, b \in results' : a.id = b.id => a = b
      <4> TAKE a, b \in results'
      <4> HAVE a.id = b.id
      <4>1. a.version = b.version /\ (a.status = "ok" <=> b.status = "ok") /\ a \in Answer /\ b \in Answer
        BY <2>4
      <4>2. a.status = b.status
        BY <4>1 DEF Answer
      <4> QED
        BY <4>1, <4>2 DEF Answer
    <3>3. change' = {}
      BY <1>0 DEF pullVars
    <3>4. ASSUME NEW a \in results', a.status = "ok"
          PROVE  /\ hist'[a.id][a.version].data = sent'[a.id].data
                 /\ hist'[a.id][a.version].deleted = sent'[a.id].deleted
      BY <1>0, <2>2, <2>4, <3>4
    <3> QED
      BY <1>5, <2>4, <3>1, <3>2, <3>3, <3>4 DEF Pushed
  <2> QED
    BY <1>2, <1>3, <2>5, <2>6, <2>7, <2>8 DEF SyncInv, CopiesTrue
<1> QED
  BY <1>0, <1>4, <1>5 DEF PushRequest, Abort, Goto

-----------------------------------------------------------------------------
(* The steps that write a row.                                              *)

\* A change of the server is applied, in pull() or after a conflict.
LEMMA ApplyKeepsSync ==
    ASSUME SyncInv, PullWrite \/ PushWrite
    PROVE  SyncInv'
<1>0. /\ \/ pc = "pullWrite" /\ pc' = "pullRead"
         \/ pc = "pushWrite" /\ pc' = "results"
      /\ change' = {} /\ snap' = NoRecord
      /\ UNCHANGED <<cursor, serverVars, wasOnline, inbox, nextCursor, pushVars, clock, mine, bounds>>
  BY DEF PullWrite, PushWrite, Goto
<1>1. PICK ch \in change : rec' = Applied(ch)
  BY DEF PullWrite, PushWrite
<1> DEFINE i == ch.id
           srv == hist[i][ch.version]
<1>2. ch \in Change /\ i \in Ids /\ ch.version \in 1..Newest(i) /\ srv \in Copy
  BY VersionIsCopy DEF SyncInv, CopiesTrue, TypeOK, Versions, Change
<1>3. /\ rec' \in [Ids -> Record] /\ \A j \in Ids : j # i => rec'[j] = rec[j]
      /\ \/ snap.present /\ ~rec[i].present /\ rec' = rec
         \/ /\ rec'[i].present /\ rec'[i].version = ch.version /\ rec'[i].base = srv.data
            /\ rec'[i].dirty \/ (rec'[i].data = srv.data /\ rec'[i].deleted = srv.deleted)
            /\ rec'[i].ts \in {rec[i].ts, srv.ts}
  BY <1>1, <1>2, AppliedRow DEF SyncInv, CopiesTrue
<1> HIDE DEF i, srv
<1>4. TypeOK'
  <2>1. snap' \in Record /\ change' \in SUBSET Change
    BY <1>0, NoRecordOK
  <2> QED
    BY <1>0, <1>3, <2>1 DEF SyncInv, CopiesTrue, TypeOK, serverVars, pushVars, bounds
<1>5. BaseIsServerCopy' /\ CleanIsServers' /\ Absent'
  <2>1. ch.version # 0
    BY <1>2
  <2>2. UNCHANGED <<hist>> /\ \A j \in Ids : Newest(j)' = Newest(j)
    BY <1>0 DEF serverVars, Newest
  <2>3. ch.version <= Newest(i)
    BY <1>2 DEF SyncInv, CopiesTrue, TypeOK, Newest
  <2>4. BaseIsServerCopy'
    BY <1>3, <2>1, <2>2, <2>3 DEF SyncInv, CopiesTrue, BaseIsServerCopy, srv, i
  <2>5. CleanIsServers'
    BY <1>2, <1>3, <2>2 DEF SyncInv, CopiesTrue, CleanIsServers, srv, i
  <2>6. Absent'
    BY <1>3 DEF SyncInv, Absent
  <2> QED
    BY <2>4, <2>5, <2>6
<1>6. Stages'
  BY <1>0 DEF SyncInv, Stages, pushVars
<1>7. Stamped'
  <2>1. srv.ts <= clock
    BY <1>2 DEF SyncInv, Stamped, srv
  <2>2. \A j \in Ids : rec'[j].ts <= clock
    BY <1>2, <1>3, <2>1 DEF SyncInv, Stamped
  <2> QED
    BY <1>0, <2>2 DEF SyncInv, Stamped, serverVars, pushVars, Newest
<1>8. Versions'
  <2>1. \A j \in Ids : rec'[j].version <= Newest(j)
    BY <1>2, <1>3 DEF SyncInv, CopiesTrue, TypeOK, Newest, Versions
  <2> QED
    BY <1>0, <2>1 DEF SyncInv, Versions, serverVars, pushVars, Newest
<1>9. Pushed'
  <2>1. \A a \in results : a.id \in Ids /\ a.id # i
    BY DEF SyncInv, CopiesTrue, TypeOK, Answer, Pushed, i
  <2>2. \A a \in results : Unedited(a.id) => Unedited(a.id)'
    BY <1>0, <1>3, <2>1 DEF Unedited, pushVars
  <2> QED
    BY <1>0, <2>2 DEF SyncInv, Pushed, serverVars, pushVars
<1> QED
  BY <1>4, <1>5, <1>6, <1>7, <1>8, <1>9 DEF SyncInv, CopiesTrue

\* The server has accepted a row: it is the base now, and all there is to say unless the
\* row was edited meanwhile.
LEMMA ResultOkKeepsSync == ASSUME SyncInv, ResultOk PROVE SyncInv'
<1>0. pc = "results" /\ UNCHANGED <<cursor, serverVars, pc, wasOnline, pullVars, sent, round, clock, mine, bounds>>
  BY DEF ResultOk
<1>1. PICK a \in results :
        /\ a.status = "ok" /\ results' = results \ {a}
        /\ rec' = IF ~rec[a.id].present THEN rec
                  ELSE [rec EXCEPT ![a.id].version = a.version, ![a.id].base = sent[a.id].data,
                                   ![a.id].dirty = (rec[a.id].ts # sent[a.id].ts)]
  BY DEF ResultOk
<1> DEFINE i == a.id
<1>2. /\ i \in Ids /\ rec \in [Ids -> Record] /\ rec[i] \in Record /\ sent[i] \in Record /\ a.version \in Nat
      /\ a.version \in 1..Newest(i) /\ Newest(i) \in Nat /\ Unedited(i)
      /\ hist[i][a.version].data = sent[i].data /\ hist[i][a.version].deleted = sent[i].deleted
  BY <1>1 DEF SyncInv, CopiesTrue, TypeOK, Answer, Versions, Pushed, Newest
<1>3. /\ rec' \in [Ids -> Record] /\ \A j \in Ids : j # i => rec'[j] = rec[j]
      /\ \/ ~rec[i].present /\ rec' = rec
         \/ /\ rec[i].present /\ rec'[i].present /\ rec'[i].version = a.version /\ rec'[i].base = sent[i].data
            /\ rec'[i].data = rec[i].data /\ rec'[i].deleted = rec[i].deleted /\ rec'[i].ts = rec[i].ts
            /\ rec'[i].dirty \/ rec[i].ts = sent[i].ts
  <2>1. CASE ~rec[i].present
    BY <1>1, <1>2, <2>1
  <2>2. CASE rec[i].present
    <3> DEFINE edited == rec[i].ts # sent[i].ts
               row == [rec[i] EXCEPT !.version = a.version, !.base = sent[i].data, !.dirty = edited]
    <3>1. rec' = [rec EXCEPT ![i] = row]
      BY <1>1, <1>2, <2>2
    <3>2. edited \in BOOLEAN /\ sent[i].data \in Data
      BY <1>2 DEF Record
    <3>3. /\ row \in Record /\ row.present /\ row.version = a.version /\ row.base = sent[i].data
          /\ row.data = rec[i].data /\ row.deleted = rec[i].deleted /\ row.ts = rec[i].ts
          /\ row.dirty = edited
      <4> HIDE DEF edited
      <4> QED
        BY <1>2, <2>2, <3>2 DEF Record
    <3> HIDE DEF row
    <3> QED
      BY <1>2, <2>2, <3>1, <3>3
  <2> QED
    BY <2>1, <2>2
<1>4. results' \subseteq results
  BY <1>1
<1> HIDE DEF i
<1>5. TypeOK'
  BY <1>0, <1>3, <1>4 DEF SyncInv, CopiesTrue, TypeOK, serverVars, pullVars, bounds
<1>6. BaseIsServerCopy' /\ CleanIsServers' /\ Absent'
  <2>1. a.version # 0 /\ a.version <= Newest(i)
    BY <1>2
  <2>2. UNCHANGED <<hist>> /\ \A j \in Ids : Newest(j)' = Newest(j)
    BY <1>0 DEF serverVars, Newest
  <2>3. BaseIsServerCopy'
    BY <1>2, <1>3, <2>1, <2>2 DEF SyncInv, CopiesTrue, BaseIsServerCopy
  <2>4. CleanIsServers'
    BY <1>2, <1>3, <2>2 DEF SyncInv, CopiesTrue, CleanIsServers, Unedited
  <2>5. Absent'
    BY <1>3 DEF SyncInv, Absent
  <2> QED
    BY <2>3, <2>4, <2>5
<1>7. Stages'
  BY <1>0, <1>4 DEF SyncInv, Stages, pullVars
<1>8. Stamped'
  <2>1. \A j \in Ids : rec'[j].ts = rec[j].ts
    BY <1>3
  <2> QED
    BY <1>0, <2>1 DEF SyncInv, Stamped, serverVars, Newest
<1>9. Versions'
  <2>1. \A j \in Ids : rec'[j].version <= Newest(j)
    BY <1>2, <1>3 DEF SyncInv, Versions
  <2> QED
    BY <1>0, <1>4, <2>1 DEF SyncInv, Versions, serverVars, pullVars, Newest
<1>10. Pushed'
  <2>1. \A b \in results' : b.id \in Ids /\ b.id # i
    BY <1>1, <1>4 DEF SyncInv, CopiesTrue, TypeOK, Answer, Pushed, i
  <2>2. \A b \in results' : Unedited(b.id) => Unedited(b.id)'
    BY <1>0, <1>3, <2>1 DEF Unedited
  <2> QED
    BY <1>0, <1>4, <2>2 DEF SyncInv, Pushed, serverVars, pullVars
<1> QED
  BY <1>5, <1>6, <1>7, <1>8, <1>9, <1>10 DEF SyncInv, CopiesTrue

\* Tombstones the server has are dropped.
LEMMA PurgeKeepsSync == ASSUME SyncInv, Purge PROVE SyncInv'
<1>0. /\ pc = "results" /\ results = {} /\ pc' = "count" /\ sent' = [i \in Ids |-> NoRecord]
      /\ UNCHANGED <<cursor, serverVars, wasOnline, pullVars, results, round, clock, mine, bounds>>
  BY DEF Purge, Goto
<1>1. rec' = [i \in Ids |-> IF rec[i].deleted /\ ~rec[i].dirty THEN NoRecord ELSE rec[i]]
  BY DEF Purge
<1>2. /\ rec' \in [Ids -> Record] /\ sent' \in [Ids -> Record]
      /\ \A i \in Ids : rec'[i] \in {rec[i], NoRecord} /\ sent'[i] = NoRecord
  BY <1>0, <1>1, NoRecordOK DEF SyncInv, CopiesTrue, TypeOK
<1>3. TypeOK'
  BY <1>0, <1>2 DEF SyncInv, CopiesTrue, TypeOK, serverVars, pullVars, bounds
<1>4. ~NoRecord.present /\ NoRecord.version = 0 /\ NoRecord.base = Empty /\ NoRecord.ts = 0
  BY DEF NoRecord
<1>5. /\ \A i \in Ids : Newest(i)' = Newest(i) /\ Newest(i) \in Nat /\ rec[i].ts \in Nat
      /\ hist' = hist /\ clock' = clock /\ clock \in Nat
  BY <1>0 DEF serverVars, Newest, SyncInv, CopiesTrue, TypeOK, Record
<1>6. BaseIsServerCopy' /\ CleanIsServers' /\ Absent'
  BY <1>2, <1>4, <1>5 DEF SyncInv, CopiesTrue, BaseIsServerCopy, CleanIsServers, Absent
<1>7. Stages'
  BY <1>0 DEF SyncInv, Stages, pullVars
<1>8. Stamped'
  BY <1>2, <1>4, <1>5 DEF SyncInv, Stamped
<1>9. Versions' /\ Pushed'
  <2>1. Pushed'
    BY <1>0 DEF SyncInv, Pushed, pullVars
  <2>2. \A i \in Ids : rec'[i].version <= Newest(i)'
    BY <1>2, <1>4, <1>5 DEF SyncInv, Versions
  <2>3. log \in Seq(Ids) /\ \A ch \in inbox \cup change : ch.id \in Ids
    BY DEF SyncInv, CopiesTrue, TypeOK, Change
  <2> QED
    BY <1>0, <1>5, <2>1, <2>2, <2>3 DEF SyncInv, Versions, serverVars, pullVars
<1> QED
  BY <1>3, <1>6, <1>7, <1>8, <1>9 DEF SyncInv, CopiesTrue

-----------------------------------------------------------------------------
(* The steps of the sync thread that only read, and its end and restart.    *)

LEMMA ReadBatchKeepsSync == ASSUME SyncInv, ReadBatch PROVE SyncInv'
<1>0. /\ pc = "push" /\ UNCHANGED <<storeVars, serverVars, wasOnline, pullVars, results, round, clock, mine, bounds>>
      /\ \/ pc' = "wait" /\ sent' = sent
         \/ pc' = "pushing" /\ sent' = [i \in Ids |-> IF i \in Dirty THEN rec[i] ELSE NoRecord]
      /\ results = {} /\ change = {}
  BY DEF ReadBatch, Goto, SyncInv, Stages
<1>1. sent' \in [Ids -> Record] /\ \A i \in Ids : sent'[i] \in {sent[i], rec[i], NoRecord}
  BY <1>0, NoRecordOK DEF SyncInv, CopiesTrue, TypeOK
<1>2. pc' = "pushing" => \A i \in Ids : sent'[i] = NoRecord \/ sent'[i] = rec[i]
  BY <1>0
<1>3. TypeOK'
  BY <1>0, <1>1 DEF SyncInv, CopiesTrue, TypeOK, storeVars, serverVars, pullVars, bounds
<1>4. BaseIsServerCopy' /\ CleanIsServers' /\ Absent'
  BY <1>0, CopiesStay DEF Rows, storeVars, serverVars
<1>5. Stages'
  BY <1>0 DEF SyncInv, Stages, pullVars
<1>6. ~NoRecord.present /\ NoRecord.version = 0 /\ NoRecord.ts = 0 /\ clock \in Nat /\ \A i \in Ids : Newest(i) \in Nat
  BY DEF NoRecord, SyncInv, CopiesTrue, TypeOK, Newest
<1>7. Stamped'
  BY <1>0, <1>1, <1>6 DEF SyncInv, Stamped, storeVars, serverVars, Newest
<1>8. Versions'
  BY <1>0, <1>2, <1>6 DEF SyncInv, Versions, storeVars, serverVars, pullVars, Newest
<1>9. Pushed'
  BY <1>0, <1>2, <1>6 DEF SyncInv, Pushed, Unedited, storeVars, serverVars, pullVars
<1> QED
  BY <1>3, <1>4, <1>5, <1>7, <1>8, <1>9 DEF SyncInv, CopiesTrue

\* The steps that leave rows, versions and the batch alone.
Still == <<rec, hist, log, clock, sent, mine, edits, remotes>>

LEMMA StillKeeps ==
    ASSUME SyncInv, UNCHANGED Still, TypeOK', Stages', pc' # "pushing", results' \subseteq results,
           \A ch \in (inbox \cup change)' : ch.version \in 1..Newest(ch.id),
           \A a \in results', ch \in change' : a.id # ch.id
    PROVE  SyncInv'
<1>1. BaseIsServerCopy' /\ CleanIsServers' /\ Absent'
  BY CopiesStay DEF Rows, Still
<1>2. Stamped' /\ Versions'
  BY DEF SyncInv, Stamped, Versions, Still, Newest
<1>3. Pushed'
  BY DEF SyncInv, Pushed, Unedited, Still
<1> QED
  BY <1>1, <1>2, <1>3 DEF SyncInv, CopiesTrue

LEMMA PullKeepsSync == ASSUME SyncInv, Pull PROVE SyncInv'
<1>0. /\ pc = "pull" /\ UNCHANGED <<serverVars, wasOnline, change, snap, pushVars>>
      /\ UNCHANGED <<storeVars, clock, mine, edits, remotes, crashes>>
      /\ change = {} /\ results = {} /\ inbox = {}
  BY DEF Pull, Abort, bounds, SyncInv, Stages
<1>1. log \in Seq(Ids) /\ cursor \in Nat /\ \A i \in Ids : Newest(i) \in Nat
  BY DEF SyncInv, CopiesTrue, TypeOK, Newest
<1>2. /\ nextCursor' \in Nat /\ inbox' \in SUBSET Change
      /\ \A ch \in inbox' : ch.version \in 1..Newest(ch.id)
      /\ inbox' # {} => pc' = "pullRead"
      /\ pc' \in {"pullRead", "wait"} /\ faults' \in 0..MaxFaults
  <2>1. ASSUME NEW n \in cursor..Len(log), nextCursor' = n, pc' = "pullRead", UNCHANGED bounds,
               inbox' = {[id |-> log[k], version |-> Newest(log[k])] : k \in (cursor + 1)..n}
        PROVE  /\ nextCursor' \in Nat /\ inbox' \in SUBSET Change
               /\ \A ch \in inbox' : ch.version \in 1..Newest(ch.id)
               /\ pc' = "pullRead" /\ faults' \in 0..MaxFaults
    <3>1. ASSUME NEW k \in (cursor + 1)..n
          PROVE  log[k] \in Ids /\ Newest(log[k]) \in 1..Newest(log[k])
      BY <1>1 DEF SyncInv, Versions
    <3>2. \A ch \in inbox' : ch \in Change /\ ch.version \in 1..Newest(ch.id)
      BY <1>1, <2>1, <3>1 DEF Change
    <3>3. faults' \in 0..MaxFaults
      BY <2>1 DEF SyncInv, CopiesTrue, TypeOK, bounds
    <3>4. nextCursor' \in Nat
      BY <1>1, <2>1
    <3> QED
      BY <2>1, <3>2, <3>3, <3>4
  <2>2. CASE Abort /\ UNCHANGED <<inbox, nextCursor>>
    BY <1>0, <2>2, SyncAssumption DEF Abort, Fault, Goto, SyncInv, CopiesTrue, TypeOK
  <2> QED
    BY <2>1, <2>2 DEF Pull, Goto
<1>3. TypeOK'
  BY <1>0, <1>2 DEF SyncInv, CopiesTrue, TypeOK, serverVars, storeVars, pushVars
<1>4. Stages'
  BY <1>0, <1>2 DEF Stages, pushVars
<1> QED
  BY <1>0, <1>2, <1>3, <1>4, StillKeeps DEF Still, storeVars, serverVars, pushVars

LEMMA ReadKeepsSync == ASSUME SyncInv, PullRead \/ ResultConflict PROVE SyncInv'
<1>1. CASE PullRead
  <2>0. /\ pc = "pullRead" /\ pc' = "pullWrite" /\ results = {}
        /\ UNCHANGED <<storeVars, serverVars, wasOnline, nextCursor, pushVars, clock, mine, bounds>>
    BY <1>1 DEF PullRead, Goto, SyncInv, Stages
  <2>1. PICK ch \in inbox : change' = {ch} /\ inbox' = inbox \ {ch} /\ snap' = rec[ch.id]
    BY <1>1 DEF PullRead
  <2>2. ch \in Change /\ ch.id \in Ids /\ ch.version \in 1..Newest(ch.id)
    BY DEF SyncInv, CopiesTrue, TypeOK, Change, Versions
  <2>3. TypeOK'
    BY <2>0, <2>1, <2>2 DEF SyncInv, CopiesTrue, TypeOK, storeVars, serverVars, pushVars, bounds
  <2>4. Stages'
    BY <2>0 DEF Stages, pushVars
  <2>5. \A c \in (inbox \cup change)' : c.version \in 1..Newest(c.id)
    BY <2>1, <2>2 DEF SyncInv, Versions
  <2> QED
    BY <2>0, <2>3, <2>4, <2>5, StillKeeps DEF Still, storeVars, serverVars, pushVars, bounds
<1>2. CASE ResultConflict
  <2>0. /\ pc = "results" /\ pc' = "pushWrite" /\ inbox = {}
        /\ UNCHANGED <<storeVars, serverVars, wasOnline, inbox, nextCursor, sent, round, clock, mine, bounds>>
    BY <1>2 DEF ResultConflict, Goto, SyncInv, Stages
  <2>1. PICK a \in results : /\ results' = results \ {a} /\ snap' = rec[a.id]
                             /\ change' = {[id |-> a.id, version |-> a.version]}
    BY <1>2 DEF ResultConflict
  <2>2. a.id \in Ids /\ a.version \in Nat /\ a.version \in 1..Newest(a.id)
    BY DEF SyncInv, CopiesTrue, TypeOK, Answer, Versions
  <2>3. TypeOK'
    BY <2>0, <2>1, <2>2 DEF SyncInv, CopiesTrue, TypeOK, Change, storeVars, serverVars, bounds
  <2>4. Stages'
    BY <2>0 DEF SyncInv, Stages
  <2>5. \A c \in (inbox \cup change)' : c.version \in 1..Newest(c.id)
    BY <2>0, <2>1, <2>2
  <2>6. \A b \in results', c \in change' : b.id # c.id
    BY <2>1 DEF SyncInv, Pushed
  <2> QED
    BY <2>0, <2>1, <2>3, <2>4, <2>5, <2>6, StillKeeps DEF Still, storeVars, serverVars, bounds
<1> QED
  BY <1>1, <1>2

LEMMA LoopKeepsSync == ASSUME SyncInv, Probe \/ PullEnds \/ Count \/ Start \/ Restart PROVE SyncInv'
<1>1. CASE Probe
  <2>1. /\ faults' \in 0..MaxFaults /\ round' \in 0..MaxRounds /\ wasOnline' \in BOOLEAN
        /\ pc = "wait" /\ pc' \in {"wait", "pull"}
        /\ UNCHANGED <<storeVars, serverVars, pullVars, sent, results, clock, mine, edits, remotes, crashes>>
    <3>1. faults' = faults \/ (faults < MaxFaults /\ faults' = faults + 1)
      BY <1>1 DEF Probe, Fault
    <3>2. faults' \in 0..MaxFaults
      BY <3>1, SyncAssumption DEF SyncInv, CopiesTrue, TypeOK
    <3>3. round' \in {round, 0} /\ round' \in 0..MaxRounds
      BY <1>1, SyncAssumption DEF Probe, SyncInv, CopiesTrue, TypeOK
    <3> QED
      BY <1>1, <3>2, <3>3 DEF Probe, Goto
  <2>2. TypeOK'
    BY <2>1 DEF SyncInv, CopiesTrue, TypeOK, storeVars, serverVars, pullVars
  <2>3. Stages'
    BY <2>1 DEF SyncInv, Stages, pullVars
  <2> QED
    BY <2>1, <2>2, <2>3, StillKeeps DEF Still, storeVars, serverVars, pullVars, SyncInv, Versions, Pushed
<1>2. CASE PullEnds
  <2>1. /\ pc = "pullRead" /\ cursor' = nextCursor
        /\ UNCHANGED <<rec, serverVars, wasOnline, pullVars, pushVars, clock, mine, bounds>>
        /\ inbox = {} /\ change = {} /\ results = {}
    BY <1>2 DEF PullEnds, SyncInv, Stages
  <2>2. \/ pc' \in {"pull", "wait"}
        \/ pc' = "push" /\ round < MaxRounds
    BY <1>2, Zenon DEF PullEnds, Goto
  <2>3. TypeOK'
    BY <2>1, <2>2 DEF SyncInv, CopiesTrue, TypeOK, serverVars, pullVars, pushVars, bounds
  <2>4. Stages'
    BY <2>1, <2>2 DEF Stages, pullVars, pushVars
  <2> QED
    BY <2>1, <2>2, <2>3, <2>4, StillKeeps DEF Still, serverVars, pullVars, pushVars, bounds
<1>3. CASE Count
  <2>1. /\ pc = "count" /\ pc' \in {"wait", "pull"} /\ round' \in {round, round + 1}
        /\ UNCHANGED <<storeVars, serverVars, wasOnline, pullVars, sent, results, clock, mine, bounds>>
    BY <1>3 DEF Count, Goto
  <2>2. round' \in 0..MaxRounds
    BY <2>1, SyncAssumption DEF SyncInv, CopiesTrue, TypeOK, Stages
  <2>3. TypeOK'
    BY <2>1, <2>2 DEF SyncInv, CopiesTrue, TypeOK, storeVars, serverVars, pullVars, bounds
  <2>4. Stages'
    BY <2>1 DEF SyncInv, Stages, pullVars
  <2> QED
    BY <2>1, <2>3, <2>4, StillKeeps DEF Still, storeVars, serverVars, pullVars, bounds, SyncInv, Versions, Pushed
<1>4. CASE Start \/ Restart
  <2>1. /\ pc \in {"ended", "dead"} /\ pc' = "wait"
        /\ UNCHANGED <<storeVars, serverVars, wasOnline, pullVars, pushVars, clock, mine, bounds>>
    BY <1>4 DEF Start, Restart, Goto
  <2>2. TypeOK'
    BY <2>1 DEF SyncInv, CopiesTrue, TypeOK, storeVars, serverVars, pullVars, pushVars, bounds
  <2>3. Stages'
    BY <2>1 DEF SyncInv, Stages, pullVars, pushVars
  <2> QED
    BY <2>1, <2>2, <2>3, StillKeeps DEF Still, storeVars, serverVars, pullVars, pushVars, bounds, SyncInv, Versions, Pushed
<1> QED
  BY <1>1, <1>2, <1>3, <1>4

\* The thread ends, or the process; the server may have got a last request.
LEMMA EndKeepsSync == ASSUME SyncInv, Escape \/ Crash PROVE SyncInv'
<1>0. /\ pc' \in {"ended", "dead"} /\ wasOnline' = FALSE /\ round' = 0 /\ inbox' = {} /\ nextCursor' = 0
      /\ change' = {} /\ snap' = NoRecord /\ sent' = [i \in Ids |-> NoRecord] /\ results' = {}
      /\ UNCHANGED <<storeVars, clock, mine, edits, remotes>>
  BY DEF Escape, Crash, ThreadGone, Goto
<1>1. crashes' \in 0..MaxCrashes /\ faults' \in 0..MaxFaults
  <2>1. /\ crashes' = crashes \/ (crashes < MaxCrashes /\ crashes' = crashes + 1)
        /\ faults' = faults \/ (faults < MaxFaults /\ faults' = faults + 1)
    BY DEF Escape, Crash, Fault
  <2> QED
    BY <2>1, SyncAssumption DEF SyncInv, CopiesTrue, TypeOK
<1>2. /\ Grown /\ log' \in Seq(Ids)
      /\ \A i \in Ids : \A n \in 1..Newest(i)' : \/ n \in 1..Newest(i) /\ hist'[i][n] = hist[i][n]
                                                 \/ hist'[i][n].ts = sent[i].ts
      /\ \A k \in 1..Len(log') : Newest(log[k])' >= 1
  BY PushGrows DEF Escape, Crash
<1>3. TypeOK'
  <2>1. sent' \in [Ids -> Record] /\ snap' \in Record
    BY <1>0, NoRecordOK
  <2>2. 0 \in 0..MaxRounds
    BY SyncAssumption
  <2> QED
    BY <1>0, <1>1, <1>2, <2>1, <2>2 DEF SyncInv, CopiesTrue, TypeOK, Grown, storeVars
<1>4. /\ BaseIsServerCopy' /\ CleanIsServers' /\ Absent'
      /\ \A i \in Ids : rec'[i].version <= Newest(i)'
  BY <1>0, <1>2, GrownKeeps DEF storeVars
<1>5. Stages' /\ Versions' /\ Pushed'
  BY <1>0, <1>2, <1>4 DEF Stages, Versions, Pushed
<1>6. Stamped'
  <2>1. \A i \in Ids : /\ rec'[i].ts <= clock' /\ sent[i].ts <= clock'
                       /\ \A n \in 1..Newest(i) : hist[i][n].ts <= clock'
    BY <1>0 DEF SyncInv, Stamped, storeVars
  <2>2. \A i \in Ids : sent'[i].ts <= clock'
    BY <1>0 DEF SyncInv, CopiesTrue, TypeOK, NoRecord
  <2> QED
    BY <1>2, <2>1, <2>2 DEF Stamped
<1> QED
  BY <1>3, <1>4, <1>5, <1>6 DEF SyncInv, CopiesTrue

LEMMA NextSyncInv == SyncInv /\ [Next]_vars => SyncInv'
<1> SUFFICES ASSUME SyncInv, [Next]_vars PROVE SyncInv'
  OBVIOUS
<1>1. CASE UNCHANGED vars
  <2>1. UNCHANGED Still /\ UNCHANGED <<pc, inbox, change, results>>
    BY <1>1 DEF vars, Still
  <2>2. TypeOK' /\ Stages'
    BY <1>1 DEF vars, SyncInv, CopiesTrue, TypeOK, Stages
  <2>3. BaseIsServerCopy' /\ CleanIsServers' /\ Absent'
    BY <2>1, CopiesStay DEF Rows, Still
  <2>4. Stamped' /\ Versions' /\ Pushed'
    BY <2>1 DEF SyncInv, Stamped, Versions, Pushed, Unedited, Still, Newest
  <2> QED
    BY <2>2, <2>3, <2>4 DEF SyncInv, CopiesTrue
<1> QED
  BY <1>1, EditKeepsSync, RemoteKeepsSync, PushKeepsSync, ApplyKeepsSync, ResultOkKeepsSync,
     PurgeKeepsSync, ReadBatchKeepsSync, PullKeepsSync, ReadKeepsSync, LoopKeepsSync, EndKeepsSync
  DEF Next, SyncStep

\* However edits, other clients, lost requests and crashes interleave with the rounds of
\* the synchroniser: the merge base of a record is what the server had at its version, and
\* a record that counts as synced is what the server has at it.
THEOREM CopiesStayTrue == Spec => []CopiesTrue
<1>1. SyncInv => CopiesTrue
  BY DEF SyncInv
<1> QED
  BY <1>1, InitSyncInv, NextSyncInv, PTL DEF Spec

-----------------------------------------------------------------------------
(* The cursor: what lies before it has reached the records.                 *)

\* How many of the first k changes of a log are of record i.
Seen(l, k, i) == Cardinality({j \in 1..k : l[j] = i})

\* Record i, of version v, has got to the n-th of its versions h, or is deleted since.
Arrived(v, n, h) == v >= n \/ \E w \in n..Len(h) : h[w].deleted

\* The log has an entry of a record for each of its versions at most.
Counted == \A i \in Ids : Seen(log, Len(log), i) <= Newest(i)

\* One change is applied at a time, none is applied twice, and none takes a record back.
Ahead ==
    /\ \A ch \in inbox \cup change : rec[ch.id].version <= ch.version
    /\ \A a \in results : rec[a.id].version <= a.version
    /\ \A c, d \in inbox : c.id = d.id => c = d
    /\ \A c \in inbox, d \in change : c.id # d.id
    /\ \A c, d \in change : c = d
    /\ \A ch \in change : snap.present => rec[ch.id].present

\* The k-th change of the log has reached its record, or is about to.
Reached(k) == Arrived(rec[log[k]].version, Seen(log, k, log[k]), hist[log[k]])
Awaited(k) == \E ch \in inbox \cup change :
                 ch.id = log[k] /\ ch.version >= Seen(log, k, log[k])

Covered ==
    /\ cursor <= Len(log) /\ nextCursor <= Len(log)
    /\ \A k \in 1..cursor : Reached(k)
    /\ pc \in {"pullRead", "pullWrite"} => \A k \in 1..nextCursor : Reached(k) \/ Awaited(k)

CursorInv == Counted /\ Ahead /\ Covered

LEMMA SeenFinite == ASSUME NEW l, NEW k \in Nat, NEW i PROVE IsFiniteSet({j \in 1..k : l[j] = i})
<1>1. IsFiniteSet(1..k) /\ {j \in 1..k : l[j] = i} \in SUBSET (1..k)
  BY FS_Interval
<1> QED
  BY <1>1, FS_Subset

LEMMA SeenType == ASSUME NEW l, NEW k \in Nat, NEW i PROVE Seen(l, k, i) \in Nat
<1> DEFINE S == {j \in 1..k : l[j] = i}
<1>1. IsFiniteSet(S)
  BY SeenFinite
<1>2. Cardinality(S) \in Nat
  <2> HIDE DEF S
  <2> QED
    BY <1>1, FS_CardinalityType
<1> QED
  BY <1>2 DEF Seen

LEMMA SeenMonotone ==
    ASSUME NEW l, NEW n \in Nat, NEW k \in Nat, n <= k, NEW i
    PROVE  Seen(l, n, i) <= Seen(l, k, i)
<1>1. {j \in 1..n : l[j] = i} \in SUBSET {j \in 1..k : l[j] = i}
  OBVIOUS
<1>2. IsFiniteSet({j \in 1..k : l[j] = i})
  BY SeenFinite
<1> QED
  BY <1>1, <1>2, FS_Subset DEF Seen

\* The log only grows: its entries keep their places.
Logged ==
    /\ log' \in Seq(Ids) /\ Len(log) <= Len(log')
    /\ \A k \in 1..Len(log) : log'[k] = log[k]

LEMMA SeenStays ==
    ASSUME TypeOK, Logged, NEW k \in 0..Len(log), NEW i
    PROVE  Seen(log', k, i) = Seen(log, k, i)
<1>0. Len(log) \in Nat /\ \A j \in 1..Len(log) : log'[j] = log[j]
  BY DEF TypeOK, Logged
<1>a. \A j \in 1..k : j \in 1..Len(log)
  BY <1>0
<1>1. {j \in 1..k : log'[j] = i} = {j \in 1..k : log[j] = i}
  BY <1>0, <1>a
<1> QED
  BY <1>1 DEF Seen

\* A version that has arrived stays so when the record goes forward, or is purged as the
\* tombstone it was.
LEMMA ArrivedStays ==
    ASSUME NEW h \in Seq(Copy), NEW g \in Seq(Copy), Len(h) <= Len(g),
           \A w \in 1..Len(h) : g[w] = h[w],
           NEW n \in Nat, NEW v \in Nat, NEW u \in Nat, Arrived(v, n, h),
           v <= u \/ (v \in 1..Len(h) /\ h[v].deleted)
    PROVE  Arrived(u, n, g)
<1>0. Len(h) \in Nat /\ Len(g) \in Nat
  OBVIOUS
<1>1. CASE n = 0
  BY <1>1 DEF Arrived
<1>2. ASSUME n # 0, NEW w \in n..Len(h), h[w].deleted PROVE Arrived(u, n, g)
  <2>1. w \in 1..Len(h) /\ w \in n..Len(g)
    BY <1>0, <1>2
  <2> QED
    BY <1>2, <2>1 DEF Arrived
<1>3. ASSUME n # 0, v >= n PROVE Arrived(u, n, g)
  <2>1. CASE v <= u
    BY <1>3, <2>1 DEF Arrived
  <2>2. CASE v \in 1..Len(h) /\ h[v].deleted
    <3>1. v \in n..Len(h)
      BY <1>0, <1>3, <2>2
    <3> QED
      BY <1>2, <1>3, <2>2, <3>1
  <2> QED
    BY <2>1, <2>2
<1> QED
  BY <1>1, <1>2, <1>3 DEF Arrived

\* No record goes back, but for a tombstone that is purged.
Forward ==
    /\ rec' \in [Ids -> Record]
    /\ \A i \in Ids : \/ rec[i].version <= rec'[i].version
                      \/ rec[i].version \in 1..Newest(i) /\ hist[i][rec[i].version].deleted

LEMMA ReachedStays ==
    ASSUME SyncInv, Logged, Grown, Forward, NEW k \in 1..Len(log), Reached(k)
    PROVE  Reached(k)'
<1> DEFINE i == log[k]
           n == Seen(log, k, i)
<1>0. TypeOK /\ log \in Seq(Ids) /\ rec \in [Ids -> Record] /\ hist \in [Ids -> Seq(Copy)]
  BY DEF SyncInv, CopiesTrue, TypeOK
<1>1. /\ i \in Ids /\ log'[k] = i /\ Seen(log', k, i) = n /\ n \in Nat
  <2>1. k \in Nat /\ k \in 0..Len(log) /\ i \in Ids /\ log'[k] = i
    BY <1>0 DEF Logged
  <2> QED
    BY <1>0, <2>1, SeenStays, SeenType
<1>2. rec[i].version \in Nat /\ rec'[i].version \in Nat /\ hist[i] \in Seq(Copy) /\ hist'[i] \in Seq(Copy)
  BY <1>0, <1>1 DEF Record, Forward, Grown
<1>3. Len(hist[i]) <= Len(hist'[i]) /\ \A w \in 1..Len(hist[i]) : hist'[i][w] = hist[i][w]
  BY <1>1 DEF Grown, Newest
<1>4. rec[i].version <= rec'[i].version
      \/ (rec[i].version \in 1..Len(hist[i]) /\ hist[i][rec[i].version].deleted)
  BY <1>1 DEF Forward, Newest
<1>5. Arrived(rec[i].version, n, hist[i])
  BY DEF Reached
<1> DEFINE h == hist[i]
           g == hist'[i]
           v == rec[i].version
           u == rec'[i].version
<1>6. Arrived(u, n, g)
  <2>1. /\ h \in Seq(Copy) /\ g \in Seq(Copy) /\ Len(h) <= Len(g) /\ \A w \in 1..Len(h) : g[w] = h[w]
        /\ n \in Nat /\ v \in Nat /\ u \in Nat /\ Arrived(v, n, h)
        /\ v <= u \/ (v \in 1..Len(h) /\ h[v].deleted)
    BY <1>1, <1>2, <1>3, <1>4, <1>5
  <2> HIDE DEF h, g, v, u, n
  <2> QED
    BY <2>1, ArrivedStays
<1> QED
  BY <1>1, <1>6 DEF Reached

-----------------------------------------------------------------------------
(* What the steps do to the server, to its log and to the versions.         *)

LEMMA ServerSteps ==
    ASSUME [Next]_vars
    PROVE  \/ UNCHANGED <<hist, log>>
           \/ ServerPushes
           \/ \E i \in Ids, d \in Writes, del \in BOOLEAN : RemoteEdit(i, d, del)
<1>1. CASE UNCHANGED vars
  BY <1>1 DEF vars
<1>2. CASE \E i \in Ids : Delete(i) \/ \E d \in Writes : Put(i, d)
  BY <1>2 DEF Delete, Put, serverVars
<1>3. CASE PushRequest \/ Escape
  BY <1>3 DEF PushRequest, Escape, serverVars
<1>4. CASE Probe \/ Pull \/ PullRead \/ PullWrite \/ PullEnds \/ ReadBatch
  BY <1>4 DEF Probe, Pull, PullRead, PullWrite, PullEnds, ReadBatch, serverVars
<1>5. CASE ResultOk \/ ResultConflict \/ PushWrite \/ Purge \/ Count \/ Start \/ Crash \/ Restart
  BY <1>5 DEF ResultOk, ResultConflict, PushWrite, Purge, Count, Start, Crash, Restart, serverVars
<1> QED
  BY <1>1, <1>2, <1>3, <1>4, <1>5 DEF Next, SyncStep

\* A log that gets at most one more entry of a record counts at most one more.
LEMMA SeenGrows ==
    ASSUME TypeOK, Logged, NEW i, NEW p \in Int,
           \A k \in (Len(log) + 1)..Len(log') : log'[k] = i => k = p
    PROVE  Seen(log', Len(log'), i) <= Seen(log, Len(log), i) + 1
<1> DEFINE S == {j \in 1..Len(log) : log[j] = i}
           T == {j \in 1..Len(log') : log'[j] = i}
<1>0. Len(log) \in Nat /\ Len(log') \in Nat /\ Len(log) <= Len(log')
  BY DEF TypeOK, Logged
<1>1. IsFiniteSet(S) /\ Cardinality(S) \in Nat
  <2>a. \A n \in Nat : IsFiniteSet({j \in 1..n : log[j] = i})
    BY SeenFinite
  <2>1. IsFiniteSet(S)
    BY <1>0, <2>a
  <2> HIDE DEF S
  <2> QED
    BY <2>1, FS_CardinalityType
<1>2. ASSUME NEW j \in T PROVE j \in S \cup {p}
  <2>1. CASE j \in 1..Len(log)
    BY <1>2, <2>1 DEF Logged
  <2>2. CASE j \in (Len(log) + 1)..Len(log')
    BY <1>2, <2>2
  <2> QED
    BY <1>0, <2>1, <2>2
<1>3. IsFiniteSet(S \cup {p}) /\ Cardinality(S \cup {p}) <= Cardinality(S) + 1
  <2> HIDE DEF S
  <2>1. /\ IsFiniteSet(S \cup {p})
        /\ Cardinality(S \cup {p}) = IF p \in S THEN Cardinality(S) ELSE Cardinality(S) + 1
    BY <1>1, FS_AddElement
  <2> QED
    BY <1>1, <2>1
<1>4. T \in SUBSET (S \cup {p})
  BY <1>2
<1>5. Cardinality(T) <= Cardinality(S \cup {p}) /\ Cardinality(T) \in Nat /\ Cardinality(S \cup {p}) \in Nat
  BY <1>3, <1>4, FS_Subset, FS_CardinalityType
<1>6. Seen(log', Len(log'), i) = Cardinality(T) /\ Seen(log, Len(log), i) = Cardinality(S)
  BY DEF Seen
<1> QED
  BY <1>1, <1>3, <1>5, <1>6

LEMMA SeenSame ==
    ASSUME TypeOK, Logged, NEW i, \A k \in (Len(log) + 1)..Len(log') : log'[k] # i
    PROVE  Seen(log', Len(log'), i) = Seen(log, Len(log), i)
<1>0. Len(log) \in Nat /\ Len(log') \in Nat /\ Len(log) <= Len(log')
  BY DEF TypeOK, Logged
<1>1. {j \in 1..Len(log') : log'[j] = i} = {j \in 1..Len(log) : log[j] = i}
  BY <1>0 DEF Logged
<1> QED
  BY <1>1 DEF Seen

LEMMA NextCounted ==
    ASSUME SyncInv, Counted, [Next]_vars
    PROVE  Logged /\ Grown /\ Counted'
<1>0. /\ TypeOK /\ log \in Seq(Ids) /\ hist \in [Ids -> Seq(Copy)] /\ Len(log) \in Nat
      /\ \A i \in Ids : Newest(i) \in Nat /\ Seen(log, Len(log), i) \in Nat
  <2>1. TypeOK
    BY DEF SyncInv, CopiesTrue
  <2>2. log \in Seq(Ids) /\ hist \in [Ids -> Seq(Copy)] /\ Len(log) \in Nat /\ \A i \in Ids : Newest(i) \in Nat
    BY <2>1 DEF TypeOK, Newest
  <2> QED
    BY <2>1, <2>2, SeenType
<1>1. CASE UNCHANGED <<hist, log>>
  BY <1>0, <1>1 DEF Logged, Grown, Counted, Newest
<1>2. ASSUME NEW i \in Ids, NEW d \in Writes, NEW del \in BOOLEAN, RemoteEdit(i, d, del)
      PROVE  Logged /\ Grown /\ Counted'
  <2> DEFINE copy == [data |-> d, ts |-> clock + 1, deleted |-> del]
  <2>1. /\ hist' = [hist EXCEPT ![i] = Append(@, copy)] /\ log' = Append(log, i)
    BY <1>2 DEF RemoteEdit
  <2>2. copy \in Copy
    BY <1>0, SyncAssumption DEF TypeOK, Copy
  <2>3. /\ log' \in Seq(Ids) /\ Len(log') = Len(log) + 1 /\ log'[Len(log) + 1] = i
        /\ \A k \in 1..Len(log) : log'[k] = log[k]
    BY <1>0, <2>1
  <2>4. Logged
    <3>1. Len(log) <= Len(log')
      BY <1>0, <2>3
    <3> QED
      BY <2>3, <3>1 DEF Logged
  <2>5. hist'[i] = Append(hist[i], copy) /\ \A j \in Ids : j # i => hist'[j] = hist[j]
    BY <1>0, <2>1
  <2>6. /\ hist'[i] \in Seq(Copy) /\ Len(hist'[i]) = Len(hist[i]) + 1
        /\ \A n \in 1..Len(hist[i]) : hist'[i][n] = hist[i][n]
    BY <1>0, <2>2, <2>5
  <2>7. hist' \in [Ids -> Seq(Copy)]
    BY <1>0, <2>1, <2>2
  <2>8. Newest(i)' = Newest(i) + 1 /\ \A j \in Ids : j # i => Newest(j)' = Newest(j)
    BY <2>5, <2>6 DEF Newest
  <2>9. Grown
    <3>1. \A j \in Ids : Newest(j) <= Newest(j)'
      <4> TAKE j \in Ids
      <4>1. Newest(j) \in Nat
        BY <1>0
      <4> QED
        BY <2>8, <4>1
    <3>2. \A j \in Ids : \A n \in 1..Newest(j) : hist'[j][n] = hist[j][n]
      BY <2>5, <2>6 DEF Newest
    <3> QED
      BY <2>7, <3>1, <3>2 DEF Grown
  <2>10. Seen(log', Len(log'), i) <= Seen(log, Len(log), i) + 1
    BY <1>0, <2>3, <2>4, SeenGrows
  <2>11. \A j \in Ids : j # i => Seen(log', Len(log'), j) = Seen(log, Len(log), j)
    BY <1>0, <2>3, <2>4, SeenSame
  <2>12. Seen(log', Len(log'), i) \in Nat
    <3>1. Len(log') \in Nat
      BY <2>3
    <3> QED
      BY <3>1, SeenType
  <2>13. ASSUME NEW j \in Ids PROVE Seen(log', Len(log'), j) <= Newest(j)'
    <3>1. Seen(log, Len(log), j) <= Newest(j) /\ Seen(log, Len(log), j) \in Nat /\ Newest(j) \in Nat
      BY <1>0 DEF Counted
    <3>2. CASE j = i
      BY <2>8, <2>10, <2>12, <3>1, <3>2
    <3>3. CASE j # i
      BY <2>8, <2>11, <3>1, <3>3
    <3> QED
      BY <3>2, <3>3
  <2> QED
    BY <2>4, <2>9, <2>13 DEF Counted
<1>3. CASE ServerPushes
  <2>1. /\ Grown /\ \A i \in Accepted : Newest(i)' = Newest(i) + 1
        /\ \A i \in Ids \ Accepted : Newest(i)' = Newest(i)
    BY <1>3, ServerGrows DEF Newest
  <2>2. PICK order \in [1..Cardinality(Accepted) -> Accepted] :
           (\A a \in Accepted : \E k \in DOMAIN order : order[k] = a) /\ log' = log \o order
    BY <1>3 DEF ServerPushes
  <2> DEFINE c == Cardinality(Accepted)
  <2>3. Accepted \subseteq Ids /\ IsFiniteSet(Accepted) /\ c \in Nat
    BY AcceptedFinite DEF Accepted, Batch
  <2>4. order \in Seq(Ids) /\ Len(order) = c
    BY <2>3, IsASeq, LenProperties
  <2>5. /\ log' \in Seq(Ids) /\ Len(log') = Len(log) + c
        /\ \A k \in 1..Len(log) : log'[k] = log[k]
        /\ \A k \in (Len(log) + 1)..Len(log') : k - Len(log) \in 1..c /\ log'[k] = order[k - Len(log)]
    <3> HIDE DEF c
    <3>1. log' = log \o order /\ log \in Seq(Ids) /\ order \in Seq(Ids) /\ Len(order) = c
      BY <1>0, <2>2, <2>4
    <3>2. /\ log \o order \in Seq(Ids) /\ Len(log \o order) = Len(log) + c
          /\ \A k \in 1..Len(log) + c : (log \o order)[k] = IF k <= Len(log) THEN log[k] ELSE order[k - Len(log)]
      BY <3>1, <2>3, ConcatProperties
    <3> QED
      BY <1>0, <2>3, <3>1, <3>2
  <2>6. Logged
    BY <1>0, <2>3, <2>5 DEF Logged
  <2>7. \A k, m \in 1..c : order[k] = order[m] => k = m
    <3>1. IsFiniteSet(1..c) /\ Cardinality(1..c) = c
      BY <2>3, FS_Interval
    <3>2. order \in Surjection(1..c, Accepted)
      BY <2>2 DEF Surjection
    <3>3. order \in Injection(1..c, Accepted)
      BY <2>3, <3>1, <3>2, FS_SurjSameCardinalityImpliesInj
    <3> QED
      BY <3>3 DEF Injection, IsInjective
  <2>8. ASSUME NEW i \in Accepted PROVE Seen(log', Len(log'), i) <= Seen(log, Len(log), i) + 1
    <3>1. PICK m \in 1..c : order[m] = i
      BY <2>2
    <3>2. \A k \in (Len(log) + 1)..Len(log') : log'[k] = i => k = m + Len(log)
      <4> TAKE k \in (Len(log) + 1)..Len(log')
      <4>1. k - Len(log) \in 1..c /\ log'[k] = order[k - Len(log)]
        BY <2>5
      <4>2. log'[k] = i => k - Len(log) = m
        BY <2>7, <3>1, <4>1
      <4> QED
        BY <1>0, <2>5, <4>2
    <3>3. m + Len(log) \in Int
      BY <1>0
    <3> QED
      BY <1>0, <2>6, <3>2, <3>3, SeenGrows
  <2>9. ASSUME NEW i \in Ids \ Accepted PROVE Seen(log', Len(log'), i) = Seen(log, Len(log), i)
    <3>1. \A k \in (Len(log) + 1)..Len(log') : log'[k] # i
      <4> TAKE k \in (Len(log) + 1)..Len(log')
      <4>1. k - Len(log) \in 1..c /\ log'[k] = order[k - Len(log)]
        BY <2>5
      <4> QED
        BY <2>9, <4>1
    <3> QED
      BY <1>0, <2>6, <3>1, SeenSame
  <2>10. \A i \in Ids : Seen(log', Len(log'), i) \in Nat
    <3>1. Len(log') \in Nat
      BY <2>5
    <3> QED
      BY <3>1, SeenType
  <2>11. ASSUME NEW i \in Ids PROVE Seen(log', Len(log'), i) <= Newest(i)'
    <3>1. Seen(log, Len(log), i) <= Newest(i) /\ Seen(log, Len(log), i) \in Nat /\ Newest(i) \in Nat
      BY <1>0 DEF Counted
    <3>2. CASE i \in Accepted
      BY <2>1, <2>8, <2>10, <3>1, <3>2
    <3>3. CASE i \notin Accepted
      BY <2>1, <2>9, <3>1, <3>3
    <3> QED
      BY <3>2, <3>3
  <2> QED
    BY <2>1, <2>6, <2>11 DEF Counted
<1> QED
  BY <1>1, <1>2, <1>3, ServerSteps

LEMMA NextForward == ASSUME SyncInv, SyncInv', Ahead, [Next]_vars PROVE Forward
<1>0. rec \in [Ids -> Record] /\ rec' \in [Ids -> Record] /\ \A i \in Ids : rec[i].version \in Nat
  BY DEF SyncInv, CopiesTrue, TypeOK, Record
<1>1. CASE UNCHANGED rec
  BY <1>0, <1>1 DEF Forward
<1>2. ASSUME NEW i \in Ids, Delete(i) \/ \E d \in Writes : Put(i, d) PROVE Forward
  <2>1. \A j \in Ids : rec'[j].version = rec[j].version
    <3> TAKE j \in Ids
    <3>1. CASE j = i /\ Delete(i)
      BY <1>0, <3>1 DEF Delete
    <3>a. CASE j = i /\ \E d \in Writes : Put(i, d)
      BY <1>0, <3>a DEF Put
    <3>2. CASE j # i
      BY <1>0, <1>2, <3>2 DEF Delete, Put
    <3> QED
      BY <1>2, <3>1, <3>a, <3>2
  <2> QED
    BY <1>0, <2>1 DEF Forward
<1>3. CASE PullWrite \/ PushWrite
  <2>1. PICK ch \in change : rec' = Applied(ch)
    BY <1>3 DEF PullWrite, PushWrite
  <2>2. ch \in Change /\ ch.id \in Ids /\ ch.version \in 1..Newest(ch.id) /\ TypeOK
    BY DEF SyncInv, CopiesTrue, TypeOK, Versions, Change
  <2>3. /\ \A j \in Ids : j # ch.id => rec'[j] = rec[j]
        /\ rec' = rec \/ rec'[ch.id].version = ch.version
    BY <2>1, <2>2, AppliedRow
  <2>4. rec[ch.id].version <= ch.version
    BY <2>1 DEF Ahead
  <2> QED
    BY <1>0, <2>2, <2>3, <2>4 DEF Forward
<1>4. CASE ResultOk
  <2>1. PICK a \in results :
          rec' = IF ~rec[a.id].present THEN rec
                 ELSE [rec EXCEPT ![a.id].version = a.version,
                                  ![a.id].base = sent[a.id].data,
                                  ![a.id].dirty = (rec[a.id].ts # sent[a.id].ts)]
    BY <1>4 DEF ResultOk
  <2>2. a.id \in Ids /\ rec[a.id].version <= a.version
    BY DEF SyncInv, CopiesTrue, TypeOK, Answer, Ahead
  <2>3. \A j \in Ids : j # a.id => rec'[j] = rec[j]
    BY <1>0, <2>1
  <2>4. rec' = rec \/ rec'[a.id].version = a.version
    BY <1>0, <2>1, <2>2
  <2> QED
    BY <1>0, <2>2, <2>3, <2>4 DEF Forward
<1>5. CASE Purge
  <2>1. \A i \in Ids : rec'[i] = IF rec[i].deleted /\ ~rec[i].dirty THEN NoRecord ELSE rec[i]
    BY <1>5 DEF Purge
  <2>2. ASSUME NEW i \in Ids
        PROVE  \/ rec[i].version <= rec'[i].version
               \/ rec[i].version \in 1..Newest(i) /\ hist[i][rec[i].version].deleted
    <3>1. CASE ~(rec[i].deleted /\ ~rec[i].dirty)
      BY <1>0, <2>1, <3>1
    <3>2. CASE rec[i].deleted /\ ~rec[i].dirty /\ rec[i].present
      BY <3>2 DEF SyncInv, CopiesTrue, CleanIsServers
    <3>3. CASE ~rec[i].present
      BY <1>0, <3>3 DEF SyncInv, Absent, Record
    <3> QED
      BY <3>1, <3>2, <3>3
  <2> QED
    BY <1>0, <2>2 DEF Forward
<1>6. CASE Probe \/ Pull \/ PullRead \/ PullEnds \/ ReadBatch \/ PushRequest \/ ResultConflict
  BY <1>1, <1>6 DEF Probe, Pull, PullRead, PullEnds, ReadBatch, PushRequest, Abort, ResultConflict, storeVars
<1>7. CASE Count \/ Escape \/ Start \/ Crash \/ Restart \/ UNCHANGED vars
  BY <1>1, <1>7 DEF Count, Escape, Start, Crash, Restart, ThreadGone, storeVars, vars
<1>8. CASE \E i \in Ids, d \in Writes, del \in BOOLEAN : RemoteEdit(i, d, del)
  BY <1>1, <1>8 DEF RemoteEdit, storeVars
<1> QED
  BY <1>2, <1>3, <1>4, <1>5, <1>6, <1>7, <1>8 DEF Next, SyncStep

-----------------------------------------------------------------------------
(* Each change and each answer is applied to a record that is not past it.  *)

\* A step that gives nothing new to apply keeps Ahead when it moves no version.
LEMMA NothingNew ==
    ASSUME Ahead, inbox' \subseteq inbox, change' \subseteq change, results' \subseteq results,
           snap' = snap \/ change' = {},
           \A ch \in inbox' \cup change' \cup results' : rec'[ch.id].version = rec[ch.id].version,
           \A ch \in change' : rec[ch.id].present => rec'[ch.id].present
    PROVE  Ahead'
BY DEF Ahead

LEMMA EditAhead ==
    ASSUME SyncInv, Ahead, NEW i \in Ids, Delete(i) \/ \E d \in Writes : Put(i, d)
    PROVE  Ahead'
<1>0. rec \in [Ids -> Record] /\ \A ch \in inbox \cup change \cup results : ch.id \in Ids
  BY DEF SyncInv, CopiesTrue, TypeOK, Change, Answer
<1>1. UNCHANGED <<inbox, change, results, snap>>
  BY DEF Delete, Put, pullVars, pushVars
<1>2. ASSUME NEW j \in Ids
      PROVE  rec'[j].version = rec[j].version /\ (rec[j].present => rec'[j].present)
  <2>1. CASE j = i /\ Delete(i)
    BY <1>0, <2>1 DEF Delete
  <2>a. ASSUME j = i, NEW d \in Writes, Put(i, d)
        PROVE  rec'[j].version = rec[j].version /\ rec'[j].present
    <3>1. rec' = [rec EXCEPT ![i].present = TRUE, ![i].data = d, ![i].ts = clock + 1,
                             ![i].deleted = FALSE, ![i].dirty = TRUE]
      BY <2>a DEF Put
    <3>2. /\ rec'[i] = [rec[i] EXCEPT !.present = TRUE, !.data = d, !.ts = clock + 1,
                                      !.deleted = FALSE, !.dirty = TRUE]
          /\ rec[i] \in Record
      BY <1>0, <3>1
    <3> QED
      BY <2>a, <3>2 DEF Record
  <2>2. CASE j # i
    BY <1>0, <2>2 DEF Delete, Put
  <2> QED
    BY <2>1, <2>a, <2>2
<1>3. \A ch \in inbox' \cup change' \cup results' :
         rec'[ch.id].version = rec[ch.id].version /\ (rec[ch.id].present => rec'[ch.id].present)
  BY <1>0, <1>1, <1>2
<1> QED
  BY <1>1, <1>3, NothingNew

LEMMA PullAhead == ASSUME SyncInv, Ahead, Pull PROVE Ahead'
<1>0. /\ UNCHANGED <<rec, change, snap, results>> /\ change = {} /\ results = {} /\ inbox = {}
      /\ log \in Seq(Ids) /\ cursor \in Nat
  BY DEF Pull, Abort, bounds, SyncInv, CopiesTrue, TypeOK, Stages, pushVars, storeVars
<1>1. CASE inbox' = inbox
  BY <1>0, <1>1, NothingNew
<1>2. ASSUME NEW n \in cursor..Len(log),
             inbox' = {[id |-> log[k], version |-> Newest(log[k])] : k \in (cursor + 1)..n}
      PROVE  Ahead'
  <2>1. \A ch \in inbox' : ch.id \in Ids /\ ch = [id |-> ch.id, version |-> Newest(ch.id)]
    <3> TAKE ch \in inbox'
    <3>1. PICK k \in (cursor + 1)..n : ch = [id |-> log[k], version |-> Newest(log[k])]
      BY <1>2
    <3>2. log[k] \in Ids
      BY <1>0, <3>1
    <3> QED
      BY <3>1, <3>2
  <2>2. \A ch \in inbox' : rec[ch.id].version <= ch.version
    <3> TAKE ch \in inbox'
    <3>1. ch.id \in Ids /\ ch.version = Newest(ch.id)
      BY <2>1
    <3> QED
      BY <3>1 DEF SyncInv, Versions
  <2>3. \A c, d \in inbox' : c.id = d.id => c = d
    BY <2>1
  <2> QED
    BY <1>0, <2>2, <2>3 DEF Ahead
<1> QED
  BY <1>1, <1>2 DEF Pull

LEMMA PullReadAhead == ASSUME SyncInv, Ahead, PullRead PROVE Ahead'
<1>1. PICK ch \in inbox : change' = {ch} /\ inbox' = inbox \ {ch} /\ snap' = rec[ch.id]
  BY DEF PullRead
<1>2. UNCHANGED <<rec, results>>
  BY DEF PullRead, storeVars, pushVars
<1> QED
  BY <1>1, <1>2 DEF Ahead

LEMMA ConflictAhead == ASSUME SyncInv, Ahead, ResultConflict PROVE Ahead'
<1>1. PICK a \in results : /\ results' = results \ {a} /\ snap' = rec[a.id]
                           /\ change' = {[id |-> a.id, version |-> a.version]}
  BY DEF ResultConflict
<1>2. UNCHANGED <<rec, inbox>> /\ inbox = {}
  BY DEF ResultConflict, storeVars, SyncInv, Stages
<1> QED
  BY <1>1, <1>2 DEF Ahead

LEMMA ApplyAhead == ASSUME SyncInv, Ahead, PullWrite \/ PushWrite PROVE Ahead'
<1>1. PICK ch \in change : rec' = Applied(ch)
  BY DEF PullWrite, PushWrite
<1>2. change' = {} /\ UNCHANGED <<inbox, results>>
  BY DEF PullWrite, PushWrite, pushVars
<1>3. ch \in Change /\ ch.version \in 1..Newest(ch.id) /\ TypeOK
  BY DEF SyncInv, CopiesTrue, TypeOK, Versions
<1>4. \A j \in Ids : j # ch.id => rec'[j] = rec[j]
  BY <1>1, <1>3, AppliedRow
<1>5. \A c \in inbox \cup results : c.id \in Ids /\ c.id # ch.id
  BY DEF SyncInv, CopiesTrue, TypeOK, Change, Answer, Ahead, Pushed
<1>6. \A c \in inbox' \cup change' \cup results' : rec'[c.id].version = rec[c.id].version
  BY <1>2, <1>4, <1>5
<1> QED
  BY <1>2, <1>6, NothingNew

LEMMA ResultOkAhead == ASSUME SyncInv, Ahead, ResultOk PROVE Ahead'
<1>1. PICK a \in results :
        /\ results' = results \ {a}
        /\ rec' = IF ~rec[a.id].present THEN rec
                  ELSE [rec EXCEPT ![a.id].version = a.version,
                                   ![a.id].base = sent[a.id].data,
                                   ![a.id].dirty = (rec[a.id].ts # sent[a.id].ts)]
  BY DEF ResultOk
<1>2. UNCHANGED <<inbox, change, snap>> /\ inbox = {} /\ change = {} /\ rec \in [Ids -> Record]
  BY DEF ResultOk, pullVars, SyncInv, CopiesTrue, TypeOK, Stages
<1>3. \A b \in results' : b.id \in Ids /\ b.id # a.id
  BY <1>1 DEF SyncInv, CopiesTrue, TypeOK, Answer, Pushed
<1>4. \A b \in inbox' \cup change' \cup results' : rec'[b.id].version = rec[b.id].version
  BY <1>1, <1>2, <1>3
<1>5. results' \subseteq results
  BY <1>1
<1> QED
  BY <1>2, <1>4, <1>5, NothingNew

LEMMA PushAhead == ASSUME SyncInv, Ahead, PushRequest PROVE Ahead'
<1>1. UNCHANGED <<rec, inbox, change, snap>> /\ results = {} /\ (results' = Answers \/ results' = results)
  BY DEF PushRequest, Abort, storeVars, pullVars, SyncInv, Stages
<1>2. \A i \in Batch : i \in Ids
  BY DEF Batch
<1>3. \A i \in Ids : rec[i].version <= Newest(i) /\ rec[i].version \in Nat /\ Newest(i) \in Nat
  BY DEF SyncInv, Versions, CopiesTrue, TypeOK, Record, Newest
<1>4. \A a \in Answers : \E i \in Ids : a.id = i /\ (a.version = Newest(i) + 1 \/ a.version = Newest(i))
  BY <1>2 DEF Answers, Accepted
<1>5. \A a \in results' : rec[a.id].version <= a.version
  <2> TAKE a \in results'
  <2>1. PICK i \in Ids : a.id = i /\ (a.version = Newest(i) + 1 \/ a.version = Newest(i))
    BY <1>1, <1>4
  <2> QED
    BY <1>3, <2>1
<1> QED
  BY <1>1, <1>5 DEF Ahead

LEMMA NextAhead == ASSUME SyncInv, Ahead, [Next]_vars PROVE Ahead'
<1>1. CASE UNCHANGED <<rec, inbox, change, results, snap>>
  BY <1>1, NothingNew
<1>2. CASE Purge
  <2>1. results' = {} /\ inbox' = {} /\ change' = {}
    BY <1>2 DEF Purge, pullVars, SyncInv, Stages
  <2> QED
    BY <2>1 DEF Ahead
<1>3. CASE Escape \/ Crash
  BY <1>3 DEF Escape, Crash, ThreadGone, Ahead
<1>4. CASE Probe \/ PullEnds \/ ReadBatch \/ Count \/ Start \/ Restart \/ UNCHANGED vars
  BY <1>1, <1>4 DEF Probe, PullEnds, ReadBatch, Count, Start, Restart, storeVars, pullVars, pushVars, vars
<1>5. CASE \E i \in Ids, d \in Writes, del \in BOOLEAN : RemoteEdit(i, d, del)
  BY <1>1, <1>5 DEF RemoteEdit, storeVars, pullVars, pushVars
<1> QED
  BY <1>2, <1>3, <1>4, <1>5, EditAhead, PullAhead, PullReadAhead, ConflictAhead, ApplyAhead,
     ResultOkAhead, PushAhead DEF Next, SyncStep

-----------------------------------------------------------------------------
(* The cursor moves over what has reached the records.                      *)

LEMMA ReachedStaysAll ==
    ASSUME SyncInv, Covered, Logged, Grown, Forward
    PROVE  /\ \A k \in 1..cursor : k \in 1..Len(log) /\ Reached(k)'
           /\ \A k \in 1..Len(log) : Reached(k) => Reached(k)'
           /\ cursor <= Len(log') /\ nextCursor <= Len(log')
<1>0. Len(log) \in Nat /\ Len(log') \in Nat /\ Len(log) <= Len(log') /\ cursor \in Nat /\ nextCursor \in Nat
  BY DEF SyncInv, CopiesTrue, TypeOK, Logged
<1>1. \A k \in 1..Len(log) : Reached(k) => Reached(k)'
  BY ReachedStays
<1>2. \A k \in 1..cursor : k \in 1..Len(log) /\ Reached(k)
  BY <1>0 DEF Covered
<1> QED
  BY <1>0, <1>1, <1>2 DEF Covered

LEMMA AwaitedStays ==
    ASSUME SyncInv, Logged, NEW k \in 1..Len(log), Awaited(k),
           (inbox \cup change)' = inbox \cup change
    PROVE  Awaited(k)'
<1>1. TypeOK /\ k \in 0..Len(log) /\ log'[k] = log[k]
  BY DEF SyncInv, CopiesTrue, Logged
<1>2. Seen(log', k, log[k]) = Seen(log, k, log[k])
  BY <1>1, SeenStays
<1> QED
  BY <1>1, <1>2 DEF Awaited

\* Steps that leave the pull alone, and steps outside it.
LEMMA AsideCovered ==
    ASSUME SyncInv, Covered, Logged, Grown, Forward, UNCHANGED cursor,
           \/ UNCHANGED <<pc, nextCursor, inbox, change>>
           \/ pc' \notin {"pullRead", "pullWrite"} /\ nextCursor' \in {0, nextCursor}
    PROVE  Covered'
<1>0. Len(log) \in Nat /\ Len(log') \in Nat /\ Len(log) <= Len(log') /\ cursor \in Nat /\ nextCursor \in Nat
  BY DEF SyncInv, CopiesTrue, TypeOK, Logged
<1>1. /\ \A k \in 1..cursor' : Reached(k)'
      /\ cursor' <= Len(log') /\ nextCursor' <= Len(log')
  BY <1>0, ReachedStaysAll
<1>2. ASSUME UNCHANGED <<pc, nextCursor, inbox, change>>, pc \in {"pullRead", "pullWrite"},
             NEW k \in 1..nextCursor
      PROVE  Reached(k)' \/ Awaited(k)'
  <2>1. k \in 1..Len(log) /\ (Reached(k) \/ Awaited(k))
    BY <1>0, <1>2 DEF Covered
  <2>2. CASE Reached(k)
    BY <2>1, <2>2, ReachedStays
  <2>3. CASE Awaited(k)
    BY <1>2, <2>1, <2>3, AwaitedStays
  <2> QED
    BY <2>1, <2>2, <2>3
<1>3. pc' \in {"pullRead", "pullWrite"} => \A k \in 1..nextCursor' : (Reached(k) \/ Awaited(k))'
  BY <1>2
<1> QED
  BY <1>1, <1>3 DEF Covered

LEMMA PullCovered ==
    ASSUME SyncInv, Counted, Covered, Logged, Grown, Forward, Pull
    PROVE  Covered'
<1>0. /\ UNCHANGED <<rec, hist, log, cursor>> /\ log \in Seq(Ids) /\ cursor \in Nat /\ Len(log) \in Nat
      /\ nextCursor \in Nat
  BY DEF Pull, Abort, bounds, storeVars, serverVars, SyncInv, CopiesTrue, TypeOK
<1>1. CASE Abort /\ UNCHANGED <<inbox, nextCursor>>
  BY <1>0, <1>1, AsideCovered DEF Abort, Goto
<1>2. ASSUME NEW n \in cursor..Len(log), nextCursor' = n,
             inbox' = {[id |-> log[k], version |-> Newest(log[k])] : k \in (cursor + 1)..n}
      PROVE  Covered'
  <2>1. /\ \A k \in 1..cursor : Reached(k)'
        /\ cursor' <= Len(log') /\ nextCursor' <= Len(log')
    BY <1>0, <1>2, ReachedStaysAll
  <2>2. ASSUME NEW k \in (cursor + 1)..n PROVE Awaited(k)'
    <3> DEFINE ch == [id |-> log[k], version |-> Newest(log[k])]
    <3>1. k \in 1..Len(log) /\ log[k] \in Ids /\ k \in Nat
      BY <1>0, <2>2
    <3>2. ch \in inbox'
      BY <1>2, <2>2
    <3>3. Seen(log, k, log[k]) <= Seen(log, Len(log), log[k]) /\ Seen(log, k, log[k]) \in Nat
          /\ Seen(log, Len(log), log[k]) \in Nat
      <4>1. k <= Len(log) /\ k \in Nat
        BY <1>0, <3>1
      <4> QED
        BY <1>0, <4>1, SeenType, SeenMonotone
    <3>4. Seen(log, Len(log), log[k]) <= Newest(log[k]) /\ Newest(log[k]) \in Nat
      BY <3>1 DEF Counted, SyncInv, CopiesTrue, TypeOK, Newest
    <3>5. ch.id = log[k] /\ ch.version >= Seen(log, k, log[k])
      BY <3>3, <3>4
    <3> QED
      BY <1>0, <3>2, <3>5 DEF Awaited
  <2>3. \A k \in 1..nextCursor' : Reached(k)' \/ Awaited(k)'
    <3> TAKE k \in 1..nextCursor'
    <3>1. k \in 1..cursor \/ k \in (cursor + 1)..n
      BY <1>0, <1>2
    <3> QED
      BY <2>1, <2>2, <3>1
  <2> QED
    BY <1>0, <2>1, <2>3 DEF Covered
<1> QED
  BY <1>1, <1>2 DEF Pull

LEMMA PullReadCovered ==
    ASSUME SyncInv, Covered, Logged, Grown, Forward, PullRead
    PROVE  Covered'
<1>0. /\ UNCHANGED <<cursor, nextCursor>> /\ pc = "pullRead"
      /\ Len(log) \in Nat /\ nextCursor \in Nat /\ cursor \in Nat /\ change = {}
  BY DEF PullRead, storeVars, SyncInv, CopiesTrue, TypeOK, Stages
<1>1. (inbox \cup change)' = inbox \cup change
  BY <1>0 DEF PullRead
<1>2. /\ \A k \in 1..cursor' : Reached(k)'
      /\ cursor' <= Len(log') /\ nextCursor' <= Len(log')
  BY <1>0, ReachedStaysAll
<1>3. \A k \in 1..nextCursor' : Reached(k)' \/ Awaited(k)'
  <2> TAKE k \in 1..nextCursor'
  <2>1. k \in 1..Len(log) /\ (Reached(k) \/ Awaited(k))
    BY <1>0 DEF Covered
  <2> QED
    BY <1>1, <2>1, ReachedStays, AwaitedStays
<1> QED
  BY <1>2, <1>3 DEF Covered

LEMMA PullWriteCovered ==
    ASSUME SyncInv, Ahead, Covered, Logged, Grown, Forward, PullWrite
    PROVE  Covered'
<1>0. /\ UNCHANGED <<cursor, nextCursor, inbox, hist, log>> /\ change' = {} /\ pc = "pullWrite"
      /\ Len(log) \in Nat /\ nextCursor \in Nat /\ cursor \in Nat
  BY DEF PullWrite, serverVars, SyncInv, CopiesTrue, TypeOK
<1>1. PICK ch \in change : rec' = Applied(ch)
  BY DEF PullWrite
<1>2. ch \in Change /\ ch.id \in Ids /\ ch.version \in 1..Newest(ch.id) /\ TypeOK
  BY DEF SyncInv, CopiesTrue, TypeOK, Versions, Change
<1>3. rec'[ch.id].version = ch.version
  <2>1. ~(snap.present /\ ~rec[ch.id].present)
    BY <1>1 DEF Ahead
  <2> QED
    BY <1>1, <1>2, <2>1, AppliedRow
<1>4. /\ \A k \in 1..cursor' : Reached(k)'
      /\ cursor' <= Len(log') /\ nextCursor' <= Len(log')
  BY <1>0, ReachedStaysAll
<1>5. \A k \in 1..nextCursor' : Reached(k)' \/ Awaited(k)'
  <2> TAKE k \in 1..nextCursor'
  <2>1. k \in 1..Len(log) /\ (Reached(k) \/ Awaited(k))
    BY <1>0 DEF Covered
  <2>2. CASE Reached(k)
    BY <2>1, <2>2, ReachedStays
  <2>3. ASSUME NEW c \in inbox, c.id = log[k], c.version >= Seen(log, k, log[k])
        PROVE  Awaited(k)'
    BY <1>0, <2>3 DEF Awaited
  <2>4. ASSUME NEW c \in change, c.id = log[k], c.version >= Seen(log, k, log[k])
        PROVE  Reached(k)'
    <3>1. c = ch
      BY <1>1, <2>4 DEF Ahead
    <3> QED
      BY <1>0, <1>3, <2>4, <3>1 DEF Reached, Arrived
  <2> QED
    BY <2>1, <2>2, <2>3, <2>4 DEF Awaited
<1> QED
  BY <1>4, <1>5 DEF Covered

LEMMA PullEndsCovered ==
    ASSUME SyncInv, Covered, Logged, Grown, Forward, PullEnds
    PROVE  Covered'
<1>0. /\ UNCHANGED <<rec, hist, log, nextCursor>> /\ cursor' = nextCursor
      /\ pc = "pullRead" /\ inbox = {} /\ change = {}
      /\ Len(log) \in Nat /\ nextCursor \in Nat
  BY DEF PullEnds, pullVars, serverVars, SyncInv, CopiesTrue, TypeOK, Stages
<1>1. pc' \in {"pull", "push", "wait"}
  <2>1. CASE nextCursor # cursor
    BY <2>1 DEF PullEnds, Goto
  <2>2. CASE nextCursor = cursor /\ round < MaxRounds
    BY <2>2 DEF PullEnds, Goto
  <2>3. CASE nextCursor = cursor /\ ~(round < MaxRounds)
    BY Zenon, <2>3 DEF PullEnds, Goto
  <2> QED
    BY <2>1, <2>2, <2>3
<1>2. \A k \in 1..nextCursor : k \in 1..Len(log) /\ Reached(k)
  <2> TAKE k \in 1..nextCursor
  <2>1. k \in 1..Len(log) /\ (Reached(k) \/ Awaited(k))
    BY <1>0 DEF Covered
  <2>2. ~Awaited(k)
    BY <1>0 DEF Awaited
  <2> QED
    BY <2>1, <2>2
<1>3. \A k \in 1..cursor' : Reached(k)'
  BY <1>0, <1>2, ReachedStays
<1>4. cursor' <= Len(log') /\ nextCursor' <= Len(log')
  BY <1>0 DEF Covered
<1> QED
  BY <1>1, <1>3, <1>4 DEF Covered

LEMMA NextCovered ==
    ASSUME SyncInv, CursorInv, Logged, Grown, Forward, [Next]_vars
    PROVE  Covered'
<1>0. Counted /\ Ahead /\ Covered
  BY DEF CursorInv
<1>1. CASE \/ UNCHANGED vars \/ ResultOk
           \/ \E i \in Ids : Delete(i) \/ \E d \in Writes : Put(i, d)
           \/ \E i \in Ids, d \in Writes, del \in BOOLEAN : RemoteEdit(i, d, del)
  <2>1. UNCHANGED <<cursor, pc, nextCursor, inbox, change>>
    BY <1>1 DEF vars, ResultOk, Delete, Put, RemoteEdit, storeVars, pullVars
  <2> QED
    BY <1>0, <2>1, AsideCovered
<1>2. CASE Probe \/ ReadBatch \/ PushRequest \/ ResultConflict \/ PushWrite \/ Purge \/ Count
  <2>1. UNCHANGED <<cursor, nextCursor>>
    BY <1>2 DEF Probe, ReadBatch, PushRequest, Abort, ResultConflict, PushWrite, Purge, Count,
       storeVars, pullVars
  <2>2. UNCHANGED <<pc, inbox, change>> \/ pc' \notin {"pullRead", "pullWrite"}
    BY <1>2 DEF Probe, ReadBatch, PushRequest, Abort, ResultConflict, PushWrite, Purge, Count,
       pullVars, Goto
  <2> QED
    BY <1>0, <2>1, <2>2, AsideCovered
<1>3. CASE Escape \/ Start \/ Crash \/ Restart
  <2>1. UNCHANGED cursor /\ pc' \notin {"pullRead", "pullWrite"} /\ nextCursor' \in {0, nextCursor}
    BY <1>3 DEF Escape, Start, Crash, Restart, ThreadGone, storeVars, pullVars, Goto
  <2> QED
    BY <1>0, <2>1, AsideCovered
<1> QED
  BY <1>0, <1>1, <1>2, <1>3, PullCovered, PullReadCovered, PullWriteCovered, PullEndsCovered
  DEF Next, SyncStep

LEMMA NextCursorInv == SyncInv /\ CursorInv /\ [Next]_vars => SyncInv' /\ CursorInv'
<1> SUFFICES ASSUME SyncInv, CursorInv, [Next]_vars PROVE SyncInv' /\ CursorInv'
  OBVIOUS
<1>1. SyncInv'
  BY NextSyncInv
<1>2. Logged /\ Grown /\ Counted'
  BY NextCounted DEF CursorInv
<1>3. Forward
  BY <1>1, NextForward DEF CursorInv
<1>4. Ahead'
  BY NextAhead DEF CursorInv
<1>5. Covered'
  BY <1>2, <1>3, NextCovered
<1> QED
  BY <1>1, <1>2, <1>4, <1>5 DEF CursorInv

LEMMA InitCursorInv == Init => CursorInv
<1> SUFFICES ASSUME Init PROVE CursorInv
  OBVIOUS
<1>1. log = <<>> /\ Len(log) = 0 /\ cursor = 0 /\ nextCursor = 0 /\ pc = "wait"
      /\ inbox = {} /\ change = {} /\ results = {} /\ \A i \in Ids : hist[i] = <<>>
  BY DEF Init
<1>2. ASSUME NEW i \in Ids PROVE Seen(log, Len(log), i) <= Newest(i)
  <2>1. {j \in 1..Len(log) : log[j] = i} = {}
    BY <1>1
  <2>2. Seen(log, Len(log), i) = 0
    BY <2>1, FS_EmptySet DEF Seen
  <2> QED
    BY <1>1, <1>2, <2>2 DEF Newest
<1>3. Counted
  BY <1>2 DEF Counted
<1>4. Ahead
  BY <1>1 DEF Ahead
<1>5. Covered
  BY <1>1 DEF Covered
<1> QED
  BY <1>3, <1>4, <1>5 DEF CursorInv

\* Though the records are changed one by one, by merges that edits race, and a crash or a
\* lost answer may come anywhere in a pull: the cursor never passes a server change that
\* its record has not got, unless the record was deleted on the server since.
THEOREM CursorStaysSound == Spec => []CursorSound
<1>1. SyncInv /\ CursorInv => CursorSound
  <2> SUFFICES ASSUME SyncInv, CursorInv, NEW k \in 1..cursor
               PROVE  LET i == log[k]
                          v == Cardinality({j \in 1..k : log[j] = i})
                      IN rec[i].version >= v \/ \E w \in v..Newest(i) : hist[i][w].deleted
    BY DEF CursorSound
  <2>1. Reached(k)
    BY DEF CursorInv, Covered
  <2> QED
    BY <2>1 DEF Reached, Arrived, Seen, Newest
<1>2. Init => SyncInv /\ CursorInv
  BY InitSyncInv, InitCursorInv
<1>3. SyncInv /\ CursorInv /\ [Next]_vars => (SyncInv /\ CursorInv)'
  BY NextCursorInv
<1> QED
  BY <1>1, <1>2, <1>3, PTL DEF Spec

\* The synchroniser applies the merge rules to what it read: when no edit came between the
\* read and the write of a dirty row, a field that only one side changed since the last
\* synced copy keeps that side's value, in a pull and after a conflict alike.
THEOREM MergesKeepBothSides == Spec => MergedWell
<1> DEFINE Kept(ch) ==
             LET srv == hist[ch.id][ch.version] IN
             Merging(ch.id) /\ ~srv.deleted =>
                KeepsBothSides(snap.base, snap.data, srv.data, rec'[ch.id].data)
<1>1. ASSUME SyncInv, CursorInv, [Next]_vars PROVE [\A ch \in change : Kept(ch)]_vars
  <2> SUFFICES ASSUME Next, NEW ch \in change, Merging(ch.id), ~hist[ch.id][ch.version].deleted
               PROVE  KeepsBothSides(snap.base, snap.data, hist[ch.id][ch.version].data, rec'[ch.id].data)
    BY <1>1
  <2> DEFINE i == ch.id
             srv == hist[i][ch.version]
             merged == Resolve(snap, srv)
  <2>1. PullWrite \/ PushWrite
    BY DEF Merging, Next, SyncStep, Delete, Put, RemoteEdit, Probe, Pull, PullRead, PullEnds,
       ReadBatch, PushRequest, ResultOk, ResultConflict, Purge, Count, Escape,
       Start, Crash, Restart, Goto
  <2>2. PICK c \in change : rec' = Applied(c)
    BY <2>1 DEF PullWrite, PushWrite
  <2>3. c = ch
    BY <1>1, <2>2 DEF CursorInv, Ahead
  <2>4. /\ ch \in Change /\ i \in Ids /\ ch.version \in 1..Newest(i) /\ TypeOK
        /\ snap \in Record /\ rec \in [Ids -> Record]
    BY <1>1 DEF SyncInv, CopiesTrue, TypeOK, Versions, Change
  <2>5. srv \in Copy
    BY <2>4, VersionIsCopy
  <2>6. snap.present /\ snap.dirty /\ rec[i].present /\ ~snap.deleted /\ ~srv.deleted
    BY DEF Merging
  <2>7. rec' = [rec EXCEPT ![i].data = merged.data, ![i].deleted = merged.deleted,
                           ![i].base = srv.data, ![i].version = ch.version, ![i].dirty = TRUE]
    BY <2>2, <2>3, <2>6 DEF Applied
  <2>8. rec'[i].data = merged.data
    <3>1. rec[i] \in Record
      BY <2>4
    <3> QED
      BY <2>4, <2>7, <3>1 DEF Record
  <2>9. merged.data = MergeFields(snap.base, snap.data, srv.data, snap.ts, srv.ts)
    BY <2>6 DEF Resolve
  <2>10. KeepsBothSides(snap.base, snap.data, srv.data,
                        MergeFields(snap.base, snap.data, srv.data, snap.ts, srv.ts))
    <3>1. /\ snap.base \in Data /\ snap.data \in Data /\ srv.data \in Data
          /\ snap.ts \in Nat /\ srv.ts \in Nat
      BY <2>4, <2>5 DEF Record, Copy
    <3> HIDE DEF srv
    <3> QED
      BY <3>1, NoEditDropped
  <2> QED
    BY <2>8, <2>9, <2>10
<1>2. Init => SyncInv /\ CursorInv
  BY InitSyncInv, InitCursorInv
<1>3. SyncInv /\ CursorInv /\ [Next]_vars => (SyncInv /\ CursorInv)'
  BY NextCursorInv
<1> QED
  BY <1>1, <1>2, <1>3, PTL DEF Spec, MergedWell

=============================================================================
