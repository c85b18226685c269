----------------------------- MODULE SafeReclaim -----------------------------
(***************************************************************************)
(* What the lifetime control of PvIndexEntry (calab.h) promises to the     *)
(* code that uses index entries, without slots' addresses, flags or        *)
(* counters: an entry is published once, may be used only by readers that  *)
(* got hold of it while it was published, is retired once, and its memory  *)
(* is given back once, when nobody uses it any more.  The memory may then  *)
(* become an entry again.                                                  *)
(***************************************************************************)
CONSTANTS Readers,   \* the threads that use entries
          Entries,   \* the memory of entries
          NULL       \* "no entry"

VARIABLES phase,     \* where each entry is in its life
          holding    \* the entry each reader uses

vars == <<phase, holding>>

Phases == {"new", "published", "retired", "reclaimed"}

Init ==
  /\ phase \in [Entries -> {"new", "published"}]
  /\ holding = [r \in Readers |-> NULL]

Publish(e) ==
  /\ phase[e] \in {"new", "reclaimed"}
  /\ \A r \in Readers : holding[r] # e
  /\ phase' = [phase EXCEPT ![e] = "published"]
  /\ UNCHANGED holding

Acquire(r, e) ==
  /\ holding[r] = NULL
  /\ phase[e] = "published"
  /\ holding' = [holding EXCEPT ![r] = e]
  /\ UNCHANGED phase

Release(r) ==
  /\ holding[r] # NULL
  /\ holding' = [holding EXCEPT ![r] = NULL]
  /\ UNCHANGED phase

Retire(e) ==
  /\ phase[e] = "published"
  /\ phase' = [phase EXCEPT ![e] = "retired"]
  /\ UNCHANGED holding

Reclaim(e) ==
  /\ phase[e] = "retired"
  /\ \A r \in Readers : holding[r] # e
  /\ phase' = [phase EXCEPT ![e] = "reclaimed"]
  /\ UNCHANGED holding

Next ==
  \/ \E e \in Entries : Publish(e) \/ Retire(e) \/ Reclaim(e)
  \/ \E r \in Readers : Release(r) \/ \E e \in Entries : Acquire(r, e)

Spec == Init /\ [][Next]_vars
==============================================================================
