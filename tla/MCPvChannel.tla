----------------------------- MODULE MCPvChannel -----------------------------
(* Instances of PvChannel for TLC: model values. *)
EXTENDS PvChannel

CONSTANTS v1, v2, h1, h2, e1, e2
=============================================================================
