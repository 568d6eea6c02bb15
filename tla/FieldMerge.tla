----------------------------- MODULE FieldMerge -----------------------------
(***************************************************************************)
(* The merge rules of the stand-alone sync_manager.py: merge_fields() and  *)
(* resolve().  A record's data is a dict; a field it does not have is      *)
(* Missing in it.                                                          *)
(***************************************************************************)
EXTENDS Naturals

CONSTANTS Fields, Values, Missing

ASSUME MergeAssumption == Missing \notin Values

Data == [Fields -> Values \cup {Missing}]
Empty == [f \in Fields |-> Missing]

\* Slip: a field only we changed is treated as changed by both.
MergedFieldNewest(b, l, s, localTs, serverTs) ==
    IF l = s THEN l
    ELSE IF l = b THEN s
    ELSE IF localTs > serverTs THEN l ELSE s
MergedField(b, l, s, localTs, serverTs) ==
    IF l = s THEN l
    ELSE IF l = b THEN s                      \* only the server changed it
    ELSE IF s = b THEN l                      \* only we changed it
    ELSE IF localTs >= serverTs THEN l ELSE s \* newest wins

MergeFields(base, local, server, localTs, serverTs) ==
    [f \in Fields |-> MergedField(base[f], local[f], server[f], localTs, serverTs)]

\* local: a row with data, base, ts, deleted; server: a copy with data, ts, deleted.
Resolve(local, server) ==
    IF local.deleted \/ server.deleted
    THEN LET winner == IF local.ts >= server.ts THEN local ELSE server
         IN [data |-> winner.data, deleted |-> winner.deleted]
    ELSE [data |-> MergeFields(local.base, local.data, server.data, local.ts, server.ts),
          deleted |-> FALSE]

\* What the rules promise, stated apart from how they are computed.
ChangedBy(base, copy) == {f \in Fields : copy[f] # base[f]}

\* Edits to different fields both survive, and the others stay as they were.
KeepsBothSides(base, local, server, merged) ==
    LET L == ChangedBy(base, local)
        S == ChangedBy(base, server)
    IN \A f \in Fields :
         /\ f \in L \ S => merged[f] = local[f]
         /\ f \in S \ L => merged[f] = server[f]
         /\ f \notin L \cup S => merged[f] = base[f]

\* No value is invented: each field holds what one of the sides has.
FromASide(local, server, merged) ==
    \A f \in Fields : merged[f] \in {local[f], server[f]}
=============================================================================
