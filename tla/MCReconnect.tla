---------------------------- MODULE MCReconnect -----------------------------
(* Instances of Reconnect for TLC.                                          *)
EXTENDS Reconnect

\* Two hooks of one family: enough for a command to be half done.
OneFamily == <<"ip">>
TwoHooks == <<"in", "out">>
=============================================================================
