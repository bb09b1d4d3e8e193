---------------------------- MODULE MCDataManager ----------------------------
(* DataManager for TLC.                                                    *)
EXTENDS DataManager
=============================================================================
