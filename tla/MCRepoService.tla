---------------------------- MODULE MCRepoService ----------------------------
(* RepoService for TLC: two accounts, a folder of one and a library of the *)
(* other.                                                                  *)
EXTENDS RepoService

CONSTANTS A, B, LibB, FolderA

MCOwner == (FolderA :> A) @@ (LibB :> B)
=============================================================================
