---------------------------- MODULE MCUserEvents ----------------------------
(* Instances of UserEvents for TLC: model values. *)
EXTENDS UserEvents

CONSTANTS r1, c1, c2
=============================================================================
