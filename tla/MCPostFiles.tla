----------------------------- MODULE MCPostFiles -----------------------------
(* PostFiles for TLC, whose bounds make its state space finite.             *)
EXTENDS PostFiles
=============================================================================
