---------------------------- MODULE MCValueWorker ----------------------------
(* Instances of ValueWorker for TLC. *)
EXTENDS ValueWorker
=============================================================================
