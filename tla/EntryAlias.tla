----------------------------- MODULE EntryAlias -----------------------------
(***************************************************************************)
(* EntryReclaim with the habit of LabVIEW to copy array elements: the      *)
(* address of an entry may then be in several slots.  This is what         *)
(* g_deletionScheduled (calab.cpp:237) is there for; what else the         *)
(* protocol promises is lost (README, Deviations).                         *)
(***************************************************************************)
EXTENDS EntryReclaim

CONSTANT Aliases  \* pairs of slots LabVIEW may copy between

\* LabVIEW copies an array element, address and all.
CopyElt(s, t) ==
  /\ <<s, t>> \in Aliases
  /\ slot[s] # NULL /\ slot[t] = NULL
  /\ slot' = [slot EXCEPT ![t] = slot[s]]
  /\ UNCHANGED <<entryVars, poolVars, registryLock, op, pc, ent, at, old, overtaken>>

AliasNext == Next \/ \E s, t \in Slots : CopyElt(s, t)

AliasSpec == Init /\ [][AliasNext]_vars

-----------------------------------------------------------------------------
(* Expectations that the code does not meet: see the README, Deviations.   *)

\* calab.cpp:237 says the scheduler avoids double deletes "when same entry pointer
\* appears in multiple arrays": no second deleter may get to a freed entry.
NoSecondDelete ==
  \A t \in Reclaimers : pc[t] \in {"mark", "delete"} => mem[ent[t]] # "freed"
=============================================================================
