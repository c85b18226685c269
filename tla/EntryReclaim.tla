---------------------------- MODULE EntryReclaim ----------------------------
(***************************************************************************)
(* The lifetime of a PvIndexEntry (calab.h, calab.cpp).  A slot of a       *)
(* LabVIEW PvIndexArray holds the address of an entry.  Readers take an    *)
(* entry from a slot without a lock (acquireEntryFromElt), use it and      *)
(* release it.  Installers replace the entry of a slot                     *)
(* (setupPvIndexAndRegistry and putValue: tryClaimAndDeletePvIndexEntry,   *)
(* then a store), the teardown of a VI instance claims the slots of its    *)
(* array and reclaims the entries (unreserved: tryReclaimAndDelete), and   *)
(* detached workers retry what the teardown could not reclaim in time      *)
(* (deferredDeletionWorker).  One action per access to shared memory.      *)
(*                                                                         *)
(* An element of Entries is an address the allocator hands out, and may    *)
(* hand out again once it is freed.  Reading the flag of a freed entry     *)
(* yields any value.  EntryAlias adds that LabVIEW copies array elements.  *)
(***************************************************************************)
EXTENDS Naturals, FiniteSets

CONSTANTS Readers,         \* threads in getValue, putValue, unreserved that read slots
          Deleters,        \* LabVIEW threads that install entries or tear an instance down
          Workers,         \* detached deferredDeletionWorker threads
          Slots,           \* elements of PvIndexArrays
          Entries,         \* addresses of PvIndexEntry allocations
          NULL,
          SuspiciousRefs,  \* 1 << 24 in the code
          RefMax           \* largest uint32_t in the code

ASSUME ThreadsAssumption ==
  /\ Readers \cap Deleters = {} /\ Readers \cap Workers = {} /\ Deleters \cap Workers = {}
  /\ NULL \notin Entries \cup Deleters \cup Workers \cup Slots
ASSUME CountAssumption ==
  /\ IsFiniteSet(Readers)
  /\ RefMax \in Nat /\ SuspiciousRefs \in Nat
  /\ Cardinality(Readers) <= RefMax

VARIABLES slot,          \* the address in each array element
          mem,           \* what each entry's memory holds
          refs,          \* PvIndexEntry::refs
          deleting,      \* PvIndexEntry::deleting
          scheduled,     \* g_deletionScheduled
          deferred,      \* entries handed to detached deletion workers
          abandoned,     \* entries the last worker gave up on
          registryLock,  \* the exclusive holder of pvRegistryLock
          op,            \* what each Deleter is doing
          pc, ent, at,   \* per thread: next step, entry at hand, slot at hand
          old,           \* per reader: `old' of try_acquire
          overtaken      \* history: an address was handed out while a reader had it pinned

entryVars == <<mem, refs, deleting>>
poolVars  == <<scheduled, deferred, abandoned>>
vars == <<slot, entryVars, poolVars, registryLock, op, pc, ent, at, old, overtaken>>

Threads  == Readers \cup Deleters \cup Workers
Reclaimers == Deleters \cup Workers

ReaderSteps == {"idle", "again", "check", "clear", "load", "flag", "cas", "recheck", "use", "undo"}
DeleterSteps == {"idle", "retry", "load", "claim", "premark", "schedule", "checklive", "mark",
                 "wait", "handoff", "dispose", "done", "drop", "delete", "store"}

\* g_entryRegistry: the constructor registers an entry, the destructor removes it.
isLiveEntry(e) == mem[e] \in {"live", "gutted"}

\* A read of entry->deleting; freed memory may hold anything.
SeenDeleting(e) == IF mem[e] = "freed" THEN BOOLEAN ELSE {deleting[e]}

\* The readers between their CAS on the counter of e and their release.
Pins(e) == {r \in Readers : pc[r] \in {"recheck", "use", "undo"} /\ ent[r] = e}

\* The uint32_t counter wraps.
Incr(n) == IF n = RefMax THEN 0 ELSE n + 1
Decr(n) == IF n = 0 THEN RefMax ELSE n - 1

Init ==
  /\ slot = [s \in Slots |-> NULL]
  /\ mem = [e \in Entries |-> "unborn"]
  /\ refs = [e \in Entries |-> 0]
  /\ deleting = [e \in Entries |-> FALSE]
  /\ scheduled = {} /\ deferred = {} /\ abandoned = {}
  /\ registryLock = NULL
  /\ op = [d \in Deleters |-> "unreserve"]
  /\ pc = [t \in Threads |-> "idle"]
  /\ ent = [t \in Threads |-> NULL]
  /\ at = [t \in Threads |-> NULL]
  /\ old = [r \in Readers |-> 0]
  /\ overtaken = FALSE

\* Next step of a thread; its locals end with the loop pass or the operation.
Goto(t, step) ==
  /\ pc' = [pc EXCEPT ![t] = step]
  /\ ent' = [ent EXCEPT ![t] = IF step \in {"idle", "again", "store"} THEN NULL ELSE @]
  /\ at' = [at EXCEPT ![t] = IF step = "idle" THEN NULL ELSE @]

-----------------------------------------------------------------------------
(* Readers: acquireEntryFromElt, PvEntryHandle and releaseEntry.           *)

\* The load of the slot at the head of the loop; an empty slot yields nullptr.
LoadElt(r, s) ==
  /\ pc[r] = "idle" \/ (pc[r] = "again" /\ at[r] = s)
  /\ IF slot[s] = NULL
     THEN pc[r] = "again" /\ Goto(r, "idle")
     ELSE /\ pc' = [pc EXCEPT ![r] = "check"]
          /\ ent' = [ent EXCEPT ![r] = slot[s]]
          /\ at' = [at EXCEPT ![r] = s]
  /\ UNCHANGED <<slot, entryVars, poolVars, registryLock, op, old, overtaken>>

CheckLive(r) ==
  /\ pc[r] = "check"
  /\ Goto(r, IF isLiveEntry(ent[r]) THEN "load" ELSE "clear")
  /\ UNCHANGED <<slot, entryVars, poolVars, registryLock, op, old, overtaken>>

\* compare_exchange of a dead address with 0, then return nullptr.
ClearElt(r) ==
  /\ pc[r] = "clear"
  /\ slot' = [slot EXCEPT ![at[r]] = IF @ = ent[r] THEN NULL ELSE @]
  /\ Goto(r, "idle")
  /\ UNCHANGED <<entryVars, poolVars, registryLock, op, old, overtaken>>

\* try_acquire: refs.load, then the loop of deleting.load and the CAS.
LoadRefs(r) ==
  /\ pc[r] = "load"
  /\ old' = [old EXCEPT ![r] = refs[ent[r]]]
  /\ Goto(r, "flag")
  /\ UNCHANGED <<slot, entryVars, poolVars, registryLock, op, overtaken>>

TestDeleting(r) ==
  /\ pc[r] = "flag"
  /\ \E seen \in SeenDeleting(ent[r]) :
       /\ Goto(r, IF seen THEN "idle" ELSE "cas")
       /\ old' = [old EXCEPT ![r] = IF seen THEN 0 ELSE @]
  /\ UNCHANGED <<slot, entryVars, poolVars, registryLock, op, overtaken>>

\* Mutant: the counter is loaded and stored, not compared and exchanged.
TryAcquireNoCas(r) ==
  /\ pc[r] = "cas"
  /\ refs' = [refs EXCEPT ![ent[r]] = Incr(old[r])]
  /\ Goto(r, "recheck")
  /\ old' = [old EXCEPT ![r] = 0]
  /\ UNCHANGED <<slot, mem, deleting, poolVars, registryLock, op, overtaken>>

TryAcquire(r) ==
  /\ pc[r] = "cas"
  /\ \/ /\ refs[ent[r]] = old[r]
        /\ refs' = [refs EXCEPT ![ent[r]] = Incr(@)]
        /\ Goto(r, "recheck")
        /\ old' = [old EXCEPT ![r] = 0]
     \/ /\ refs[ent[r]] # old[r]
        /\ old' = [old EXCEPT ![r] = refs[ent[r]]]
        /\ Goto(r, "flag")
        /\ UNCHANGED refs
  /\ UNCHANGED <<slot, mem, deleting, poolVars, registryLock, op, overtaken>>

\* Mutant: the slot is not looked at again after the acquisition.
RecheckSkipped(r) ==
  /\ pc[r] = "recheck"
  /\ Goto(r, "use")
  /\ UNCHANGED <<slot, entryVars, poolVars, registryLock, op, old, overtaken>>

\* Is the acquired entry still the element?  Only then is it returned.
Recheck(r) ==
  /\ pc[r] = "recheck"
  /\ Goto(r, IF slot[at[r]] = ent[r] THEN "use" ELSE "undo")
  /\ UNCHANGED <<slot, entryVars, poolVars, registryLock, op, old, overtaken>>

\* releaseEntry, at the end of a use or because the slot has moved on.
Release(r) ==
  /\ pc[r] \in {"use", "undo"}
  /\ refs' = [refs EXCEPT ![ent[r]] = Decr(@)]
  /\ Goto(r, IF pc[r] = "use" THEN "idle" ELSE "again")
  /\ UNCHANGED <<slot, mem, deleting, poolVars, registryLock, op, old, overtaken>>

ReaderStep(r) ==
  \/ CheckLive(r) \/ ClearElt(r) \/ LoadRefs(r) \/ TestDeleting(r)
  \/ TryAcquire(r) \/ Recheck(r) \/ Release(r)
  \/ (pc[r] = "again" /\ LoadElt(r, at[r]))

-----------------------------------------------------------------------------
(* Installers and teardown: how an address gets out of its slot.           *)

\* setupPvIndexAndRegistry and getPvItemForIndex take pvRegistryLock
\* exclusively; setup that finds it taken tries once more.
StartInstall(d, s) ==
  /\ pc[d] = "idle"
  /\ op' = [op EXCEPT ![d] = "install"]
  /\ at' = [at EXCEPT ![d] = s]
  /\ \/ registryLock = NULL /\ registryLock' = d /\ pc' = [pc EXCEPT ![d] = "load"]
     \/ registryLock # NULL /\ UNCHANGED registryLock /\ pc' = [pc EXCEPT ![d] = "retry"]
  /\ UNCHANGED <<slot, entryVars, poolVars, ent, old, overtaken>>

\* retryGuard is a local of the if-block: it is released where the block ends.
RetryInstall(d) ==
  /\ pc[d] = "retry"
  /\ Goto(d, IF registryLock = NULL THEN "load" ELSE "idle")
  /\ op' = [op EXCEPT ![d] = IF registryLock = NULL THEN @ ELSE "unreserve"]
  /\ UNCHANGED <<slot, entryVars, poolVars, registryLock, old, overtaken>>

StartUnreserve(d, s) ==
  /\ pc[d] = "idle"
  /\ op' = [op EXCEPT ![d] = "unreserve"]
  /\ at' = [at EXCEPT ![d] = s]
  /\ pc' = [pc EXCEPT ![d] = "load"]
  /\ UNCHANGED <<slot, entryVars, poolVars, registryLock, ent, old, overtaken>>

\* Where a thread goes on when it is through with the old entry of a slot.
NextJob(t) == IF t \in Deleters /\ op[t] = "install" THEN "store" ELSE "idle"

\* Mutant: an empty slot is claimed like any other.
LoadForClaimAny(d) ==
  /\ pc[d] = "load"
  /\ pc' = [pc EXCEPT ![d] = "claim"]
  /\ ent' = [ent EXCEPT ![d] = slot[at[d]]]
  /\ UNCHANGED <<slot, entryVars, poolVars, registryLock, op, at, old, overtaken>>

LoadForClaim(d) ==
  /\ pc[d] = "load"
  /\ IF slot[at[d]] = NULL
     THEN Goto(d, NextJob(d))
     ELSE /\ pc' = [pc EXCEPT ![d] = "claim"]
          /\ ent' = [ent EXCEPT ![d] = slot[at[d]]]
          /\ UNCHANGED at
  /\ UNCHANGED <<slot, entryVars, poolVars, registryLock, op, old, overtaken>>

\* Mutant: the slot is cleared by a plain store.
ClaimByStore(d) ==
  /\ pc[d] = "claim"
  /\ slot' = [slot EXCEPT ![at[d]] = NULL]
  /\ Goto(d, IF op[d] = "install" THEN "schedule" ELSE "premark")
  /\ UNCHANGED <<entryVars, poolVars, registryLock, op, old, overtaken>>

\* Mutant: the address stays in the slot while the entry is being deleted.
ClaimKeepsElt(d) ==
  /\ pc[d] = "claim"
  /\ Goto(d, IF slot[at[d]] # ent[d] THEN NextJob(d)
             ELSE IF op[d] = "install" THEN "schedule" ELSE "premark")
  /\ UNCHANGED <<slot, entryVars, poolVars, registryLock, op, old, overtaken>>

\* The CAS of the slot to 0.  The teardown marks the entry at once.
Claim(d) ==
  /\ pc[d] = "claim"
  /\ IF slot[at[d]] = ent[d]
     THEN /\ slot' = [slot EXCEPT ![at[d]] = NULL]
          /\ Goto(d, IF op[d] = "install" THEN "schedule" ELSE "premark")
     ELSE Goto(d, NextJob(d)) /\ UNCHANGED slot
  /\ UNCHANGED <<entryVars, poolVars, registryLock, op, old, overtaken>>

PreMark(d) ==
  /\ pc[d] = "premark"
  /\ deleting' = [deleting EXCEPT ![ent[d]] = TRUE]
  /\ Goto(d, "schedule")
  /\ UNCHANGED <<slot, mem, refs, poolVars, registryLock, op, old, overtaken>>

\* pvRegistryLock, if it is held, is released at the end.
EndInstall(d) ==
  /\ registryLock' = IF registryLock = d THEN NULL ELSE registryLock
  /\ op' = [op EXCEPT ![d] = "unreserve"]
  /\ Goto(d, "idle")

\* A new PvIndexEntry, stored in the slot.  A reader that pinned the address
\* before, when the memory was freed, loses its count in the new entry.
Install(d, e) ==
  /\ pc[d] = "store"
  /\ mem[e] \in {"unborn", "freed"}
  /\ mem' = [mem EXCEPT ![e] = "live"]
  /\ refs' = [refs EXCEPT ![e] = 0]
  /\ deleting' = [deleting EXCEPT ![e] = FALSE]
  /\ slot' = [slot EXCEPT ![at[d]] = e]
  /\ overtaken' = (overtaken \/ Pins(e) # {})
  /\ EndInstall(d)
  /\ UNCHANGED <<poolVars, old>>

\* An empty PV name: the slot stays empty.
SkipInstall(d) ==
  /\ pc[d] = "store"
  /\ EndInstall(d)
  /\ UNCHANGED <<slot, entryVars, poolVars, old, overtaken>>

-----------------------------------------------------------------------------
(* Deletion: tryClaimAndDeletePvIndexEntry after the claim,                *)
(* tryReclaimAndDelete, deferredDeletionWorker.                            *)

\* Mutant: g_deletionScheduled is not asked.
ScheduleAlways(t) ==
  /\ pc[t] = "schedule"
  /\ scheduled' = scheduled \cup {ent[t]}
  /\ Goto(t, IF NextJob(t) = "store" THEN "mark" ELSE "checklive")
  /\ UNCHANGED <<slot, entryVars, deferred, abandoned, registryLock, op, old, overtaken>>

Schedule(t) ==
  /\ pc[t] = "schedule"
  /\ IF ent[t] \in scheduled
     THEN Goto(t, NextJob(t)) /\ UNCHANGED scheduled
     ELSE /\ scheduled' = scheduled \cup {ent[t]}
          /\ Goto(t, IF NextJob(t) = "store" THEN "mark" ELSE "checklive")
  /\ UNCHANGED <<slot, entryVars, deferred, abandoned, registryLock, op, old, overtaken>>

\* Only tryReclaimAndDelete looks the address up before it touches it.
ReclaimCheckLive(t) ==
  /\ pc[t] = "checklive"
  /\ Goto(t, IF isLiveEntry(ent[t]) THEN "mark" ELSE "drop")
  /\ UNCHANGED <<slot, entryVars, poolVars, registryLock, op, old, overtaken>>

MarkDeleting(t) ==
  /\ pc[t] = "mark"
  /\ deleting' = [deleting EXCEPT ![ent[t]] = TRUE]
  /\ Goto(t, "wait")
  /\ UNCHANGED <<slot, mem, refs, poolVars, registryLock, op, old, overtaken>>

\* Mutant: the entry is deleted although readers hold it.
SeeNoRefsBlind(t) ==
  /\ pc[t] = "wait"
  /\ Goto(t, "dispose")
  /\ UNCHANGED <<slot, entryVars, poolVars, registryLock, op, old, overtaken>>

\* current_refs() == 0 ends the wait.
SeeNoRefs(t) ==
  /\ pc[t] = "wait"
  /\ refs[ent[t]] = 0
  /\ Goto(t, "dispose")
  /\ UNCHANGED <<slot, entryVars, poolVars, registryLock, op, old, overtaken>>

\* The claiming installer hands an entry with too many references to a worker
\* and only then gives its deletion token back.
SuspectRefs(t) ==
  /\ pc[t] = "wait" /\ NextJob(t) = "store"
  /\ refs[ent[t]] > SuspiciousRefs
  /\ deferred' = deferred \cup {ent[t]}
  /\ Goto(t, "handoff")
  /\ UNCHANGED <<slot, entryVars, scheduled, abandoned, registryLock, op, old, overtaken>>

\* Mutant: no worker is started for an entry that was not reclaimed in time.
ExpireForgets(t) ==
  /\ pc[t] = "wait" /\ NextJob(t) = "idle"
  /\ refs[ent[t]] # 0
  /\ scheduled' = scheduled \ {ent[t]}
  /\ abandoned' = IF t \in Workers THEN abandoned \cup {ent[t]} ELSE abandoned
  /\ Goto(t, "idle")
  /\ UNCHANGED <<slot, entryVars, deferred, registryLock, op, old, overtaken>>

\* The time limit of tryReclaimAndDelete: 3 s in unreserved, 60 s in a worker.
\* The former starts a worker for the entry, the latter skips it.
Expire(t) ==
  /\ pc[t] = "wait" /\ NextJob(t) = "idle"
  /\ refs[ent[t]] # 0
  /\ scheduled' = scheduled \ {ent[t]}
  /\ deferred' = IF t \in Workers THEN deferred ELSE deferred \cup {ent[t]}
  /\ abandoned' = IF t \in Workers THEN abandoned \cup {ent[t]} ELSE abandoned
  /\ Goto(t, "idle")
  /\ UNCHANGED <<slot, entryVars, registryLock, op, old, overtaken>>

\* delete metaInfo; pvItem = nullptr.
Dispose(t) ==
  /\ pc[t] = "dispose"
  /\ mem' = [mem EXCEPT ![ent[t]] = "gutted"]
  /\ Goto(t, "done")
  /\ UNCHANGED <<slot, refs, deleting, poolVars, registryLock, op, old, overtaken>>

\* mark_deletion_done, on the three ways that lead to it.
MarkDeletionDone(t) ==
  /\ pc[t] \in {"handoff", "drop", "done"}
  /\ scheduled' = scheduled \ {ent[t]}
  /\ Goto(t, IF pc[t] = "done" THEN "delete" ELSE NextJob(t))
  /\ UNCHANGED <<slot, entryVars, deferred, abandoned, registryLock, op, old, overtaken>>

\* delete entry: the destructor unregisters the address.
Delete(t) ==
  /\ pc[t] = "delete"
  /\ mem' = [mem EXCEPT ![ent[t]] = "freed"]
  /\ Goto(t, NextJob(t))
  /\ UNCHANGED <<slot, refs, deleting, poolVars, registryLock, op, old, overtaken>>

StartWorker(w, e) ==
  /\ pc[w] = "idle"
  /\ e \in deferred
  /\ deferred' = deferred \ {e}
  /\ ent' = [ent EXCEPT ![w] = e]
  /\ pc' = [pc EXCEPT ![w] = "schedule"]
  /\ UNCHANGED <<slot, entryVars, scheduled, abandoned, registryLock, op, at, old, overtaken>>

DeleteStep(t) ==
  \/ Schedule(t) \/ ReclaimCheckLive(t) \/ MarkDeleting(t) \/ SeeNoRefs(t)
  \/ SuspectRefs(t) \/ Expire(t) \/ Dispose(t) \/ MarkDeletionDone(t) \/ Delete(t)

-----------------------------------------------------------------------------
DeleterStep(d) ==
  \/ RetryInstall(d) \/ LoadForClaim(d) \/ Claim(d) \/ PreMark(d)
  \/ SkipInstall(d) \/ DeleteStep(d)

Next ==
  \/ \E r \in Readers : ReaderStep(r) \/ \E s \in Slots : LoadElt(r, s)
  \/ \E d \in Deleters :
       \/ DeleterStep(d)
       \/ \E s \in Slots : StartInstall(d, s) \/ StartUnreserve(d, s)
       \/ \E e \in Entries : Install(d, e)
  \/ \E w \in Workers : DeleteStep(w) \/ \E e \in Entries : StartWorker(w, e)

Spec == Init /\ [][Next]_vars

\* Threads keep running; nobody is forced to start a new operation, but a
\* detached worker that was created does run.
Fairness ==
  /\ \A r \in Readers : WF_vars(ReaderStep(r))
  /\ \A d \in Deleters : WF_vars(DeleterStep(d))
  /\ \A w \in Workers : WF_vars(DeleteStep(w)) /\ WF_vars(\E e \in Entries : StartWorker(w, e))

FairSpec == Spec /\ Fairness

-----------------------------------------------------------------------------
(* Properties.                                                             *)

\* A thread that has claimed the entry out of its slot and is not through with it.
OwnerSteps == {"premark", "schedule", "checklive", "mark", "wait", "dispose", "done", "drop", "delete"}
\* ... and those of them that hold the deletion token of the entry.
TokenSteps == {"checklive", "mark", "wait", "handoff", "dispose", "done", "drop"}
\* The steps in which a reader reads or writes the entry's memory.
TouchSteps == {"load", "flag", "cas", "recheck", "use", "undo"}

InSlot(e)  == \E s \in Slots : slot[s] = e
Owns(t, e) == pc[t] \in OwnerSteps /\ ent[t] = e
Using(r)   == pc[r] = "use"

\* The types of the state.
TypeOK ==
  /\ slot \in [Slots -> Entries \cup {NULL}]
  /\ mem \in [Entries -> {"unborn", "live", "gutted", "freed"}]
  /\ refs \in [Entries -> 0 .. RefMax]
  /\ deleting \in [Entries -> BOOLEAN]
  /\ scheduled \subseteq Entries /\ deferred \subseteq Entries /\ abandoned \subseteq Entries
  /\ registryLock \in Deleters \cup {NULL}
  /\ op \in [Deleters -> {"install", "unreserve"}]
  /\ pc \in [Threads -> ReaderSteps \cup DeleterSteps]
  /\ \A r \in Readers : pc[r] \in ReaderSteps
  /\ \A t \in Reclaimers : pc[t] \in DeleterSteps
  /\ ent \in [Threads -> Entries \cup {NULL}]
  /\ at \in [Threads -> Slots \cup {NULL}]
  /\ old \in [Readers -> 0 .. RefMax]
  /\ overtaken \in BOOLEAN

\* What acquireEntryFromElt is for: an entry it returned is intact (its metaInfo
\* and its memory are there) until the reader releases it, whatever installers,
\* teardowns and workers do in the meantime, also when addresses are used again;
\* until one is handed out that a reader has pinned (README, Deviations).
HeldEntryIntact == overtaken \/ \A r \in Readers : Using(r) => mem[ent[r]] = "live"

\* refs counts exactly the readers between their CAS and their release, so a
\* deleter that reads 0 has really outwaited every one of them, until an address
\* is handed out that a reader has pinned.
RefsCountPins ==
  overtaken \/ \A e \in Entries : mem[e] = "live" => refs[e] = Cardinality(Pins(e))

\* The address in a slot is that of an entry that nobody is deleting: claiming a
\* slot comes before marking, scheduling and freeing its entry.
SlotEntryFresh ==
  \A e \in Entries : InSlot(e) =>
    mem[e] = "live" /\ ~deleting[e] /\ e \notin scheduled \cup deferred \cup abandoned

\* g_deletionScheduled is a mutual exclusion between the deleters of one entry.
SoleDeleter ==
  \A t, u \in Reclaimers :
    t # u /\ pc[t] \in TokenSteps /\ pc[u] \in TokenSteps => ent[t] # ent[u]

\* A deleter never reads, writes or frees an entry whose memory is already freed.
DeleterOnLiveMemory ==
  \A t \in Reclaimers :
    pc[t] \in {"premark", "mark", "wait", "dispose", "delete"} => isLiveEntry(ent[t])

\* Handed to a worker because of its count, which the worker may find still
\* scheduled and leave: see the README, Deviations.
HandedOver(e) == e \in deferred /\ refs[e] > SuspiciousRefs

\* Every claimed entry is freed in the end, unless the deferred worker ran out of
\* its 60 seconds ("skipping for now"), or was given an entry with a suspicious count.
ClaimedIsReclaimed ==
  \A e \in Entries :
    (\/ \E d \in Deleters : Owns(d, e)
     \/ \E w \in Workers : Owns(w, e) /\ pc[w] # "schedule")
      ~> (mem[e] = "freed" \/ e \in abandoned \/ HandedOver(e))

\* The abstract promise: claimed once, used only if got while published, freed
\* once and only when unused, until an address is handed out that a reader has pinned.
phaseBar == [e \in Entries |->
  CASE mem[e] = "unborn" -> "new"
    [] mem[e] \in {"gutted", "freed"} -> "reclaimed"
    [] OTHER -> IF deleting[e] \/ \E t \in Reclaimers : Owns(t, e)
                THEN "retired" ELSE "published"]
holdingBar == [r \in Readers |-> IF Using(r) THEN ent[r] ELSE NULL]

Safe == INSTANCE SafeReclaim WITH phase <- phaseBar, holding <- holdingBar
SafeSpec == Safe!Init /\ [][overtaken' \/ Safe!Next]_<<phaseBar, holdingBar>>

-----------------------------------------------------------------------------
(* Expectations that the code does not meet: see the README, Deviations.   *)

\* calab.h:299-300 claims safe concurrent readers: a reader never touches the
\* counter or the flag of an entry whose memory is freed,
ReaderOnLiveMemory ==
  \A r \in Readers : pc[r] \in TouchSteps => isLiveEntry(ent[r])

\* so no reader is counted in memory that becomes another entry.
NeverOvertaken == ~overtaken

\* No entry is lost: one that is neither in a slot nor in the hands of a deleter,
\* of a worker or of the abandoned ones can never be freed.
NoEntryLost ==
  \A e \in Entries : mem[e] = "live" =>
    \/ InSlot(e) \/ e \in deferred \cup abandoned
    \/ \E t \in Reclaimers : Owns(t, e)
=============================================================================
