----------------------------- MODULE MCAutoUpdate -----------------------------
(* AutoUpdate for TLC, whose bounds make its state space finite.  There is   *)
(* no symmetry: it is not sound for the liveness property that is checked.   *)
EXTENDS AutoUpdate
=============================================================================
