----------------------------- MODULE MCFileUpload -----------------------------
(* FileUpload for TLC.  A chunk is two units, and a file of more than two is *)
(* sent in chunks: a file of two goes in one request, one of four ends in a  *)
(* full chunk, one of five in a short one.                                   *)
EXTENDS FileUpload
=============================================================================
