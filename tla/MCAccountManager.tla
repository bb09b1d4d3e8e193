--------------------------- MODULE MCAccountManager ---------------------------
(* AccountManager for TLC. The accounts are interchangeable.                *)
EXTENDS AccountManager

Symmetry == Permutations(Ids)
=============================================================================
