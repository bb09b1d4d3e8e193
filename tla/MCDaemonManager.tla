--------------------------- MODULE MCDaemonManager ---------------------------
(* DaemonManager for TLC, whose state space is finite as it is.             *)
EXTENDS DaemonManager
=============================================================================
