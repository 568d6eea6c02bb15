--------------------------- MODULE MCOfflineQueue ---------------------------
(* Instances of OfflineQueue for TLC.                                       *)
EXTENDS OfflineQueue

CONSTANTS c1, c2, t1, t2, svc

\* Every call comes from the service.
OneProcess == [c \in Calls |-> svc]
\* Each call has a host of its own.
OwnHost == [c \in Calls |-> IF c = c1 THEN t1 ELSE t2]
\* The calls differ in nothing but their names and those of their hosts: c1 is
\* taken to be the first that stores its request.  Halves the states.
FirstIsC1 == call[c1] = "new" => call'[c2] = "new"
=============================================================================
