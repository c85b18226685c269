----------------------------- MODULE LastValue -----------------------------
(***************************************************************************)
(* What the path of the monitor updates (calab.cpp) promises to a reader   *)
(* of PVItems: an item shows a value that the server has delivered for it, *)
(* updates may be passed over, but none is shown after a newer one.        *)
(***************************************************************************)
EXTENDS Naturals

CONSTANTS PVs,
          MaxUpdates  \* bound on the updates of one PV

VARIABLES delivered,  \* per PV: the number of the last value delivered
          shown       \* per PV: the number of the value its item shows

Init == delivered = [p \in PVs |-> 0] /\ shown = [p \in PVs |-> 0]

\* Updates that carry only an error status have numbers, too.
Deliver(p) ==
  /\ \E n \in delivered[p] + 1 .. MaxUpdates : delivered' = [delivered EXCEPT ![p] = n]
  /\ UNCHANGED shown

Show(p) ==
  /\ \E n \in shown[p] + 1 .. delivered[p] : shown' = [shown EXCEPT ![p] = n]
  /\ UNCHANGED delivered

Spec == Init /\ [][\E p \in PVs : Deliver(p) \/ Show(p)]_<<delivered, shown>>
=============================================================================
