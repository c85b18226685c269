--------------------------- MODULE MCChangeDetect ---------------------------
(* Instances of ChangeDetect for TLC: model values. *)
EXTENDS ChangeDetect

CONSTANTS p1, p2, b1, b2
=============================================================================
