----------------------------- MODULE PvTeardown -----------------------------
(***************************************************************************)
(* The part of unreserved (calab.cpp) that resets the PVs of an instance:  *)
(* the PV and its child PVs, unless another instance still uses the PV or  *)
(* a user event shows it.  It runs against the calls of the other VIs, the *)
(* worker and the poll thread of RecordFields, against other teardowns,    *)
(* and against addEvent and destroyEvent.  That unreserved waits for the   *)
(* calls of its own VI is in InstanceLifecycle.                            *)
(***************************************************************************)
EXTENDS RecordFields

VARIABLES event,    \* is a user event registered for the base PV?
          pending,  \* per VI: the PVs its teardown is to reset
          came,     \* history: the VIs that were bound since its teardown looked for users
          owed      \* history: the base PV has not been reset since a VI was last bound,
                    \* and no teardown had a reason not to reset it

teardownVars == <<event, pending, came, owed>>
vars == <<recordVars, teardownVars>>

LeavingSteps == {"walk", "events", "reset"}
Leaving(v) == pc[v] \in LeavingSteps

Init ==
  /\ RecordInit
  /\ event = FALSE
  /\ pending = [v \in VIs |-> {}]
  /\ came = [v \in VIs |-> {}]
  /\ owed = FALSE

\* The reset holds pvRegistryLock shared: nobody else has it exclusively.
RegistryFree == \A v \in VIs : pc[v] # "reset"

-----------------------------------------------------------------------------
\* isUnreserving is set and no call of this VI is in progress; the PVs of the array, and
\* all whose parent is among them.
Unreserve(v) ==
  /\ pc[v] = "ready"
  /\ pending' = [pending EXCEPT ![v] = {p \in PVs : chan[p] # "absent"}]
  /\ late' = late \ {v}
  /\ Goto(v, "walk")
  /\ UNCHANGED <<caVars, budget, linkVars, workVars, itemVars, bound, uninit, got, lost,
                 event, came, owed>>

\* The registry is not got within 200 ms: the children are left out.
CollectTimesOut(v) ==
  /\ pc[v] = "ready" /\ Spend("timeout")
  /\ pending' = [pending EXCEPT ![v] = {Base}]
  /\ late' = late \ {v}
  /\ Goto(v, "walk")
  /\ UNCHANGED <<caVars, linkVars, workVars, itemVars, bound, uninit, got, lost,
                 event, came, owed>>

\* Mutant: an instance no call of which is in progress does not count.
UsersInCalls(v) == {u \in bound \ {v} : ~Leaving(u) /\ pc[u] # "ready"}

Users(v) == {u \in bound \ {v} : ~Leaving(u)}

\* Mutant: an instance that is leaving, too, counts as a user.
WalkCountsLeaving(v) ==
  /\ pc[v] = "walk"
  /\ pending' = [pending EXCEPT ![v] = IF bound \ {v} # {} THEN {} ELSE @]
  /\ Goto(v, "events")
  /\ UNCHANGED <<caVars, budget, linkVars, workVars, itemVars, bound, uninit, got, lost, late,
                 event, came, owed>>

\* pvsUsedElsewhere, under instancesMutex: a PV another instance uses is kept, and so
\* are its children.
Walk(v) ==
  /\ pc[v] = "walk"
  /\ pending' = [pending EXCEPT ![v] = IF Users(v) # {} THEN {} ELSE @]
  /\ Goto(v, "events")
  /\ UNCHANGED <<caVars, budget, linkVars, workVars, itemVars, bound, uninit, got, lost, late,
                 event, came, owed>>

\* eventPvNames: the PV of a user event is kept, its children are not.  Then the
\* registry is locked, unless that takes more than 200 ms.
ReadEvents(v) ==
  /\ pc[v] = "events"
  /\ pending' = [pending EXCEPT ![v] = IF event THEN @ \ {Base} ELSE @]
  /\ owed' = (owed /\ ~event)
  /\ Goto(v, "reset")
  /\ UNCHANGED <<caVars, budget, linkVars, workVars, itemVars, bound, uninit, got, lost, late,
                 event, came>>

ResetTimesOut(v) ==
  /\ pc[v] = "events" /\ Spend("timeout")
  /\ pending' = [pending EXCEPT ![v] = {}]
  /\ owed' = FALSE
  /\ Goto(v, "reset")
  /\ UNCHANGED <<caVars, linkVars, workVars, itemVars, bound, uninit, got, lost, late,
                 event, came>>

\* Mutant: the subscription of a child PV is kept.
ResetPvAlone(v, p) ==
  /\ pc[v] = "reset" /\ p \in pending[v]
  /\ pending' = [pending EXCEPT ![v] = @ \ {p}]
  /\ chan' = [chan EXCEPT ![p] = "none"]
  /\ sub' = [sub EXCEPT ![p] = IF p = Base THEN "none" ELSE @]
  /\ IF p = Base
     THEN Forget(Rtyp \notin pending[v]) /\ owed' = FALSE
     ELSE UNCHANGED <<value, recordType, lost, owed>>
  /\ UNCHANGED <<caVars, budget, workVars, fields, fieldValues, callVars, late,
                 event, came>>

\* The handles are taken out of the item, under its mutex; what it held is forgotten.
ResetPv(v, p) ==
  /\ pc[v] = "reset" /\ p \in pending[v]
  /\ pending' = [pending EXCEPT ![v] = @ \ {p}]
  /\ chan' = [chan EXCEPT ![p] = "none"]
  /\ sub' = [sub EXCEPT ![p] = "none"]
  /\ IF p = Base
     THEN Forget(Rtyp \notin pending[v]) /\ owed' = FALSE
     ELSE UNCHANGED <<value, recordType, lost, owed>>
  /\ UNCHANGED <<caVars, budget, workVars, fields, fieldValues, callVars, late,
                 event, came>>

\* The entries are cleaned up, the instance is taken off the list and deleted.
Unlist(v) ==
  /\ pc[v] = "reset" /\ pending[v] = {}
  /\ bound' = bound \ {v}
  /\ came' = [u \in VIs |-> IF u = v THEN {} ELSE came[u] \ {v}]
  /\ Goto(v, "unreserved")
  /\ UNCHANGED <<caVars, budget, linkVars, workVars, itemVars, uninit, got, lost, late,
                 event, pending, owed>>

-----------------------------------------------------------------------------
\* addEvent makes the item, which the poll thread then connects.
AddEvent ==
  /\ ~event /\ RegistryFree /\ Spend("event")
  /\ event' = TRUE
  /\ chan' = [chan EXCEPT ![Base] = IF @ = "absent" THEN "none" ELSE @]
  /\ UNCHANGED <<caVars, sub, workVars, itemVars, callVars, lost, late,
                 pending, came, owed>>

DestroyEvent ==
  /\ event /\ event' = FALSE
  /\ UNCHANGED <<recordVars, pending, came, owed>>

\* A VI that is bound needs the PV from now on.
BindHere(v) ==
  /\ Bind(v)
  /\ owed' = TRUE
  /\ came' = [u \in VIs |-> IF pc[u] \in {"events", "reset"} THEN came[u] \cup ({v} \ bound) ELSE {}]
  /\ UNCHANGED <<event, pending>>

-----------------------------------------------------------------------------
TeardownStep(v) == Walk(v) \/ ReadEvents(v) \/ (\E p \in PVs : ResetPv(v, p)) \/ Unlist(v)
TeardownTimeout(v) == CollectTimesOut(v) \/ ResetTimesOut(v)

CallStep(v) ==
  \/ RegistryFree /\ RegistryStep(v) /\ UNCHANGED teardownVars
  \/ OtherCallStep(v) /\ UNCHANGED teardownVars
  \/ BindHere(v)

Next ==
  \/ (ServerStep \/ WorkerStep \/ WorkerTimeout) /\ UNCHANGED teardownVars
  \/ \E p \in PVs : (CaStep(p) \/ PollStep(p)) /\ UNCHANGED teardownVars
  \/ \E v \in VIs :
       \/ (Reserve(v) \/ CallAgain(v) \/ CallTimeout(v)) /\ UNCHANGED teardownVars
       \/ CallStep(v) \/ Unreserve(v) \/ TeardownStep(v) \/ TeardownTimeout(v)
  \/ AddEvent \/ DestroyEvent

Spec == Init /\ [][Next]_vars

\* The threads run on, the library tells a state that lasts, and calls and teardowns
\* that have begun come to their end.
FairSpec ==
  /\ Spec
  /\ WF_recordVars(HandToParent)
  /\ \A p \in PVs : SF_recordVars(ConnUp(p)) /\ WF_recordVars(ConnDown(p)) /\ WF_recordVars(Deliver(p))
                     /\ WF_recordVars(PollConnect(p)) /\ WF_recordVars(Subscribe(p)) /\ WF_recordVars(Store(p))
  /\ \A v \in VIs : WF_vars(CallStep(v)) /\ WF_vars(TeardownStep(v))

-----------------------------------------------------------------------------
(* Properties.                                                             *)

\* The types of the state, and what goes together in it.
TypeOK ==
  /\ chan \in [PVs -> {"absent", "none", "down", "up"}]
  /\ sub \in [PVs -> {"none", "due", "served"}]
  /\ queue \in [PVs -> Seq(Nat)]
  /\ job \in Children \cup {NULL}
  /\ recordType \in BOOLEAN
  /\ fields \subseteq Fields /\ fieldValues \subseteq Fields
  /\ bound \subseteq VIs /\ uninit \subseteq VIs /\ lost \subseteq PVs /\ late \subseteq VIs
  /\ pending \in [VIs -> SUBSET PVs] /\ came \in [VIs -> SUBSET VIs]

\* unreserved resets no PV that another instance uses, one that is bound to its arrays and
\* not on its way out itself, but for an instance that came between the walk over the
\* instances and the reset, between which instancesMutex is left (NeverResetInUse).
SparedWhileNeeded ==
  [][\A v \in VIs : \A p \in PVs : ResetPv(v, p) =>
       \A u \in bound \ {v} : Leaving(u) \/ u \in came[v]]_vars

\* Of instances that leave at the same time, each keeping off what the others use, the
\* last one does reset the PV, unless a lock was not got or a user event shows the PV.
LastOneResets ==
  (\A v \in VIs : pc[v] = "unreserved") => ~owed


\* ... and the parent comes to know its record type, and with it the fields of every VI
\* that has asked for them in time.
ParentLearns ==
  <>[](server =>
    /\ chan[Rtyp] # "absent" => recordType \/ Rtyp \in lost
    /\ \A v \in Wanting \ late : pc[v] = "ready" => Fields \subseteq fieldValues \cup lost)

-----------------------------------------------------------------------------
(* Expectations that the code does not meet: see the README, Deviations.   *)

\* changelog.txt:11 "protect PVs used by other instances or active user events to prevent
\* unwanted resets": also those that come into use meanwhile.
NeverResetInUse ==
  [][\A v \in VIs : ResetPv(v, Base) => ~event /\ \A u \in bound \ {v} : Leaving(u)]_vars

\* calab.cpp:2830 "Clear record type to force RTYP fetch": the type is fetched again.
RecordTypeRefetched ==
  <>[](server /\ chan[Rtyp] = "up" => recordType)

\* A VI that asks for fields gets them in the end, if not with its first call.
FieldsArrive ==
  <>[](server => \A v \in Wanting : pc[v] = "ready" => Fields \subseteq fieldValues)
=============================================================================
