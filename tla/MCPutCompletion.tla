--------------------------- MODULE MCPutCompletion ---------------------------
(* Instances of PutCompletion for TLC. *)
EXTENDS PutCompletion
=============================================================================
