--------------------------- MODULE MCTransferManager ---------------------------
(* TLC instances of TransferManager. *)
EXTENDS TransferManager, TLC

\* Task identities are interchangeable, and so are files.
Symmetry == Permutations(Tasks) \cup Permutations(Files)

=============================================================================
