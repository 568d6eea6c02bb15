------------------------------ MODULE MCOutbox ------------------------------
(* Instances of Outbox for TLC.                                            *)
EXTENDS Outbox, TLC

CONSTANTS c1, c2, c3, k1, k2

\* Calls c1 and c3 share a key: a caller that retries with its own key.
SharedKey == (c1 :> k1) @@ (c2 :> k2) @@ (c3 :> k1)

\* With SharedKey, c1 and c3 may be exchanged.
SameKey == Permutations({c1, c3})

\* Every call draws a key of its own, the default of submit().
OwnKeys == (c1 :> k1) @@ (c2 :> k2)
=============================================================================
