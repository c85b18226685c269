------------------------ MODULE MCInstanceLifecycle ------------------------
(* Instances of InstanceLifecycle for TLC. *)
EXTENDS InstanceLifecycle, TLC

Symmetry == Permutations(VIs) \cup Permutations(Data)
BothOps == {"getValue", "putValue"}
=============================================================================
