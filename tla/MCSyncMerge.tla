---------------------------- MODULE MCSyncMerge -----------------------------
(* Instances of SyncMerge for TLC.                                          *)
EXTENDS SyncMerge

CONSTANTS f, g, a, b

\* One field, with two values or none: what a record's history needs.
OneField == {[x \in Fields |-> v] : v \in {a, b}}
\* Two fields, so that edits to different fields are merged.
TwoFields == {[x \in Fields |-> IF x = f THEN v ELSE w] : v \in {a, b}, w \in {a, Missing}}
=============================================================================
