------------------------- MODULE EntryReclaimProofs -------------------------
(* Theorems about EntryReclaim, for every number of threads, slots and entries. *)
EXTENDS EntryAlias, FiniteSetTheorems, TLAPS

HasEntry == {"check", "clear", "load", "flag", "cas", "recheck", "use", "undo"}

\* What the locals of a thread hold at the steps that use them.
LocalsOK ==
  /\ \A r \in Readers : pc[r] \in HasEntry => ent[r] \in Entries
  /\ \A r \in Readers : pc[r] \in HasEntry \cup {"again"} => at[r] \in Slots
  /\ \A t \in Reclaimers : pc[t] \in OwnerSteps \cup {"claim", "handoff"} => ent[t] \in Entries
  /\ \A d \in Deleters : pc[d] \in {"retry", "load", "claim"} => at[d] \in Slots

TypeInv == TypeOK /\ LocalsOK

\* What the move of one thread leaves alone: the others, and the types.
LEMMA GotoType ==
  ASSUME TypeInv, NEW t \in Threads, NEW step, Goto(t, step)
  PROVE  /\ ent' \in [Threads -> Entries \cup {NULL}]
         /\ at' \in [Threads -> Slots \cup {NULL}]
         /\ pc' = [pc EXCEPT ![t] = step]
         /\ \A u \in Threads \ {t} : pc'[u] = pc[u] /\ ent'[u] = ent[u] /\ at'[u] = at[u]
         /\ pc'[t] = step
         /\ step \notin {"idle", "again", "store"} => ent'[t] = ent[t]
         /\ step # "idle" => at'[t] = at[t]
  BY DEF Goto, TypeInv, TypeOK

\* LabVIEW need not copy anything.
LEMMA WithoutCopies == Spec => AliasSpec
<1>1. [Next]_vars => [AliasNext]_vars
  BY DEF AliasNext
<1> QED
  BY <1>1, PTL DEF Spec, AliasSpec

\* The state keeps its types, and the locals are set where they are used.
THEOREM TypesKept == AliasSpec => []TypeInv
<1> USE DEF Threads, Reclaimers
<1>1. Init => TypeInv
  <2>1. Init => TypeOK
    <3> SUFFICES ASSUME Init PROVE TypeOK
      OBVIOUS
    <3>1. 0 \in 0 .. RefMax
      BY CountAssumption
    <3>2. /\ slot \in [Slots -> Entries \cup {NULL}]
          /\ mem \in [Entries -> {"unborn", "live", "gutted", "freed"}]
          /\ refs \in [Entries -> 0 .. RefMax] /\ deleting \in [Entries -> BOOLEAN]
          /\ old \in [Readers -> 0 .. RefMax]
      BY <3>1 DEF Init
    <3>3. /\ pc \in [Threads -> ReaderSteps \cup DeleterSteps]
          /\ \A r \in Readers : pc[r] \in ReaderSteps
          /\ \A t \in Reclaimers : pc[t] \in DeleterSteps
      BY DEF Init, ReaderSteps, DeleterSteps
    <3> QED
      BY <3>2, <3>3 DEF Init, TypeOK
  <2>2. Init => LocalsOK
    BY DEF Init, LocalsOK, HasEntry, OwnerSteps
  <2> QED
    BY <2>1, <2>2 DEF TypeInv
<1>2. TypeInv /\ [AliasNext]_vars => TypeInv'
  <2> SUFFICES ASSUME TypeInv, [AliasNext]_vars PROVE TypeInv'
    OBVIOUS
  <2> USE ThreadsAssumption, CountAssumption DEF ReaderSteps, DeleterSteps, HasEntry, OwnerSteps,
          entryVars, poolVars
  <2>1. ASSUME NEW r \in Readers, NEW s \in Slots, LoadElt(r, s) PROVE TypeInv'
    BY <2>1, GotoType, SMTT(20) DEF LoadElt, TypeInv, TypeOK, LocalsOK
  <2>2. ASSUME NEW r \in Readers, ReaderStep(r) PROVE TypeInv'
    <3>1. CASE CheckLive(r)
      BY <3>1, GotoType, SMTT(20) DEF CheckLive, TypeInv, TypeOK, LocalsOK
    <3>2. CASE ClearElt(r)
      BY <3>2, GotoType, SMTT(20) DEF ClearElt, TypeInv, TypeOK, LocalsOK
    <3>3. CASE LoadRefs(r)
      BY <3>3, GotoType, SMTT(20) DEF LoadRefs, TypeInv, TypeOK, LocalsOK
    <3>4. CASE TestDeleting(r)
      BY <3>4, GotoType, SMTT(20) DEF TestDeleting, TypeInv, TypeOK, LocalsOK
    <3>5. CASE TryAcquire(r)
      BY <3>5, GotoType, SMTT(20) DEF TryAcquire, TypeInv, TypeOK, LocalsOK, Incr
    <3>6. CASE Recheck(r)
      BY <3>6, GotoType, SMTT(20) DEF Recheck, TypeInv, TypeOK, LocalsOK
    <3>7. CASE Release(r)
      BY <3>7, GotoType, SMTT(20) DEF Release, TypeInv, TypeOK, LocalsOK, Decr
    <3>8. CASE pc[r] = "again" /\ LoadElt(r, at[r])
      BY <3>8, <2>1 DEF TypeInv, LocalsOK
    <3> QED
      BY <2>2, <3>1, <3>2, <3>3, <3>4, <3>5, <3>6, <3>7, <3>8 DEF ReaderStep
  <2>3. ASSUME NEW t \in Reclaimers, DeleteStep(t) PROVE TypeInv'
    <3>1. CASE Schedule(t)
      BY <3>1, GotoType, SMTT(20) DEF Schedule, TypeInv, TypeOK, LocalsOK, NextJob
    <3>2. CASE ReclaimCheckLive(t)
      BY <3>2, GotoType, SMTT(20) DEF ReclaimCheckLive, TypeInv, TypeOK, LocalsOK
    <3>3. CASE MarkDeleting(t)
      BY <3>3, GotoType, SMTT(20) DEF MarkDeleting, TypeInv, TypeOK, LocalsOK
    <3>4. CASE SeeNoRefs(t)
      BY <3>4, GotoType, SMTT(20) DEF SeeNoRefs, TypeInv, TypeOK, LocalsOK
    <3>5. CASE SuspectRefs(t)
      BY <3>5, GotoType, SMTT(20) DEF SuspectRefs, TypeInv, TypeOK, LocalsOK
    <3>6. CASE Expire(t)
      BY <3>6, GotoType, SMTT(20) DEF Expire, TypeInv, TypeOK, LocalsOK
    <3>7. CASE Dispose(t)
      BY <3>7, GotoType, SMTT(20) DEF Dispose, TypeInv, TypeOK, LocalsOK
    <3>8. CASE MarkDeletionDone(t)
      BY <3>8, GotoType, SMTT(20) DEF MarkDeletionDone, TypeInv, TypeOK, LocalsOK, NextJob
    <3>9. CASE Delete(t)
      BY <3>9, GotoType, SMTT(20) DEF Delete, TypeInv, TypeOK, LocalsOK, NextJob
    <3> QED
      BY <2>3, <3>1, <3>2, <3>3, <3>4, <3>5, <3>6, <3>7, <3>8, <3>9 DEF DeleteStep
  <2>4. ASSUME NEW d \in Deleters, DeleterStep(d) PROVE TypeInv'
    <3>1. CASE RetryInstall(d)
      BY <3>1, GotoType, SMTT(20) DEF RetryInstall, TypeInv, TypeOK, LocalsOK
    <3>2. CASE LoadForClaim(d)
      BY <3>2, GotoType, SMTT(20) DEF LoadForClaim, TypeInv, TypeOK, LocalsOK, NextJob
    <3>3. CASE Claim(d)
      BY <3>3, GotoType, SMTT(20) DEF Claim, TypeInv, TypeOK, LocalsOK, NextJob
    <3>4. CASE PreMark(d)
      BY <3>4, GotoType, SMTT(20) DEF PreMark, TypeInv, TypeOK, LocalsOK
    <3>5. CASE SkipInstall(d)
      BY <3>5, GotoType, SMTT(20) DEF SkipInstall, EndInstall, TypeInv, TypeOK, LocalsOK
    <3> QED
      BY <2>3, <2>4, <3>1, <3>2, <3>3, <3>4, <3>5 DEF DeleterStep
  <2>5. ASSUME NEW d \in Deleters, NEW s \in Slots, StartInstall(d, s) \/ StartUnreserve(d, s)
        PROVE TypeInv'
    <3>1. CASE StartInstall(d, s)
      BY <3>1, SMTT(60) DEF StartInstall, TypeInv, TypeOK, LocalsOK
    <3>2. CASE StartUnreserve(d, s)
      BY <3>2, SMTT(60) DEF StartUnreserve, TypeInv, TypeOK, LocalsOK
    <3> QED
      BY <2>5, <3>1, <3>2
  <2>6. ASSUME NEW d \in Deleters, NEW e \in Entries, Install(d, e) PROVE TypeInv'
    <3>1. Goto(d, "idle")
      BY <2>6 DEF Install, EndInstall
    <3>2. slot' \in [Slots -> Entries \cup {NULL}]
      BY <2>6 DEF Install, TypeInv, TypeOK
    <3>3. mem' \in [Entries -> {"unborn", "live", "gutted", "freed"}]
      BY <2>6 DEF Install, TypeInv, TypeOK
    <3>4. refs' \in [Entries -> 0 .. RefMax]
      BY <2>6 DEF Install, TypeInv, TypeOK
    <3>5. deleting' \in [Entries -> BOOLEAN]
      BY <2>6 DEF Install, TypeInv, TypeOK
    <3>6. registryLock' \in Deleters \cup {NULL}
      BY <2>6 DEF Install, EndInstall, TypeInv, TypeOK
    <3>7. op' \in [Deleters -> {"install", "unreserve"}]
      BY <2>6 DEF Install, EndInstall, TypeInv, TypeOK
    <3>8. UNCHANGED <<scheduled, deferred, abandoned, old>>
      BY <2>6 DEF Install
    <3>9. /\ ent' \in [Threads -> Entries \cup {NULL}] /\ at' \in [Threads -> Slots \cup {NULL}]
          /\ pc' = [pc EXCEPT ![d] = "idle"]
          /\ \A u \in Threads \ {d} : ent'[u] = ent[u] /\ at'[u] = at[u]
      BY <3>1, GotoType
    <3>10. overtaken' \in BOOLEAN
      BY <2>6 DEF Install, TypeInv, TypeOK
    <3>11. TypeOK'
      BY <3>2, <3>3, <3>4, <3>5, <3>6, <3>7, <3>8, <3>9, <3>10 DEF TypeInv, TypeOK
    <3>12. LocalsOK'
      BY <3>9 DEF TypeInv, TypeOK, LocalsOK
    <3> QED
      BY <3>11, <3>12 DEF TypeInv
  <2>7. ASSUME NEW w \in Workers, NEW e \in Entries, StartWorker(w, e) PROVE TypeInv'
    BY <2>7 DEF StartWorker, TypeInv, TypeOK, LocalsOK
  <2>8. ASSUME NEW s \in Slots, NEW t \in Slots, CopyElt(s, t) PROVE TypeInv'
    BY <2>8 DEF CopyElt, TypeInv, TypeOK, LocalsOK
  <2>9. CASE UNCHANGED vars
    <3>0. /\ slot' = slot /\ mem' = mem /\ refs' = refs /\ deleting' = deleting
          /\ scheduled' = scheduled /\ deferred' = deferred /\ abandoned' = abandoned
          /\ registryLock' = registryLock /\ op' = op
          /\ pc' = pc /\ ent' = ent /\ at' = at /\ old' = old /\ overtaken' = overtaken
      BY <2>9 DEF vars
    <3>1. TypeOK'
      BY <3>0 DEF TypeInv, TypeOK
    <3>2. LocalsOK'
      BY <3>0 DEF TypeInv, LocalsOK
    <3> QED
      BY <3>1, <3>2 DEF TypeInv
  <2> QED
    BY <2>1, <2>2, <2>3, <2>4, <2>5, <2>6, <2>7, <2>8, <2>9 DEF Next, AliasNext
<1>3. QED
  BY <1>1, <1>2, PTL DEF AliasSpec

\* Every variable of the protocol keeps its type: no step stores a thread, an entry or a count
\* where the code could not.
THEOREM TypeCorrect == Spec => []TypeOK
  BY TypesKept, WithoutCopies, PTL DEF TypeInv

-----------------------------------------------------------------------------
(* Deletion tokens.                                                        *)

\* A thread that holds a token is the one that put the entry into the set.
TokenInv ==
  /\ \A t \in Reclaimers : pc[t] \in TokenSteps => ent[t] \in scheduled
  /\ SoleDeleter

\* Tokens are taken once and given back once, whatever slots hold the address.
LEMMA TokensKept == AliasSpec => []TokenInv
<1> USE DEF Threads, Reclaimers, TokenSteps
<1>1. Init => TokenInv
  BY DEF Init, TokenInv, SoleDeleter
<1>2. TypeInv /\ TokenInv /\ [AliasNext]_vars => TokenInv'
  <2> SUFFICES ASSUME TypeInv, TokenInv, [AliasNext]_vars PROVE TokenInv'
    OBVIOUS
  <2> USE ThreadsAssumption DEF TokenInv, SoleDeleter, entryVars, poolVars
  <2>1. ASSUME NEW r \in Readers, NEW s \in Slots, LoadElt(r, s) PROVE TokenInv'
    BY <2>1, GotoType, SMTT(20) DEF LoadElt, TypeInv, TypeOK
  <2>2. ASSUME NEW r \in Readers, ReaderStep(r) PROVE TokenInv'
    <3>1. pc[r] = "again" /\ LoadElt(r, at[r]) => TokenInv'
      BY <2>1 DEF TypeInv, LocalsOK
    <3>2. CASE CheckLive(r) \/ ClearElt(r) \/ LoadRefs(r) \/ TestDeleting(r)
      BY <3>2, GotoType, SMTT(20) DEF CheckLive, ClearElt, LoadRefs, TestDeleting
    <3>3. CASE TryAcquire(r) \/ Recheck(r) \/ Release(r)
      BY <3>3, GotoType, SMTT(20) DEF TryAcquire, Recheck, Release
    <3> QED
      BY <2>2, <3>1, <3>2, <3>3 DEF ReaderStep
  <2>3. ASSUME NEW t \in Reclaimers, DeleteStep(t) PROVE TokenInv'
    <3>1. CASE Schedule(t)
      BY <3>1, GotoType, SMTT(20) DEF Schedule, NextJob
    <3>2. CASE ReclaimCheckLive(t) \/ MarkDeleting(t) \/ SeeNoRefs(t) \/ SuspectRefs(t) \/ Dispose(t)
      BY <3>2, GotoType, SMTT(20) DEF ReclaimCheckLive, MarkDeleting, SeeNoRefs, SuspectRefs, Dispose
    <3>3. CASE Expire(t)
      BY <3>3, GotoType, SMTT(20) DEF Expire
    <3>4. CASE MarkDeletionDone(t)
      BY <3>4, GotoType, SMTT(20) DEF MarkDeletionDone, NextJob
    <3>5. CASE Delete(t)
      BY <3>5, GotoType, SMTT(20) DEF Delete, NextJob
    <3> QED
      BY <2>3, <3>1, <3>2, <3>3, <3>4, <3>5 DEF DeleteStep
  <2>4. ASSUME NEW d \in Deleters, DeleterStep(d) PROVE TokenInv'
    <3>1. CASE RetryInstall(d) \/ PreMark(d)
      BY <3>1, GotoType, SMTT(20) DEF RetryInstall, PreMark
    <3>2. CASE LoadForClaim(d)
      BY <3>2, GotoType, SMTT(20) DEF LoadForClaim, NextJob, TypeInv, TypeOK
    <3>3. CASE Claim(d)
      BY <3>3, GotoType, SMTT(20) DEF Claim, NextJob
    <3>4. CASE SkipInstall(d)
      BY <3>4, GotoType, SMTT(20) DEF SkipInstall, EndInstall
    <3> QED
      BY <2>3, <2>4, <3>1, <3>2, <3>3, <3>4 DEF DeleterStep
  <2>5. ASSUME NEW d \in Deleters, NEW s \in Slots, StartInstall(d, s) \/ StartUnreserve(d, s)
        PROVE TokenInv'
    BY <2>5 DEF StartInstall, StartUnreserve, TypeInv, TypeOK
  <2>6. ASSUME NEW d \in Deleters, NEW e \in Entries, Install(d, e) PROVE TokenInv'
    BY <2>6, GotoType, SMTT(20) DEF Install, EndInstall
  <2>7. ASSUME NEW w \in Workers, NEW e \in Entries, StartWorker(w, e) PROVE TokenInv'
    BY <2>7 DEF StartWorker, TypeInv, TypeOK
  <2>8. ASSUME NEW s \in Slots, NEW t \in Slots, CopyElt(s, t) PROVE TokenInv'
    BY <2>8 DEF CopyElt
  <2>9. CASE UNCHANGED vars
    BY <2>9 DEF vars
  <2> QED
    BY <2>1, <2>2, <2>3, <2>4, <2>5, <2>6, <2>7, <2>8, <2>9 DEF Next, AliasNext
<1> QED
  BY <1>1, <1>2, TypesKept, PTL DEF AliasSpec

\* g_deletionScheduled makes the deleters of one entry exclude each other, also
\* when the address of the entry is in several slots or is used again.
THEOREM DeletersExclude == (AliasSpec => []SoleDeleter) /\ (Spec => []SoleDeleter)
<1>1. TokenInv => SoleDeleter
  BY DEF TokenInv
<1> QED
  BY <1>1, TokensKept, WithoutCopies, PTL

-----------------------------------------------------------------------------
(* Ownership: an entry is in one slot, or in the hands of one thread, or   *)
(* waiting for a worker; freed memory is none of these.  From here on      *)
(* LabVIEW copies no array element.                                        *)

SlotsDistinct ==
  \A s1, s2 \in Slots : slot[s1] = slot[s2] /\ slot[s1] \in Entries => s1 = s2

SlotClean ==
  \A s \in Slots : slot[s] \in Entries =>
    /\ mem[slot[s]] = "live" /\ ~deleting[slot[s]]
    /\ slot[s] \notin scheduled /\ slot[s] \notin deferred /\ slot[s] \notin abandoned
    /\ \A t \in Reclaimers : pc[t] \in OwnerSteps \cup {"handoff"} => ent[t] # slot[s]

OneOwner ==
  \A t, u \in Reclaimers :
    t # u /\ pc[t] \in OwnerSteps /\ pc[u] \in OwnerSteps => ent[t] # ent[u]

OwnedAway ==
  /\ \A t \in Reclaimers : pc[t] \in OwnerSteps => ent[t] \notin deferred /\ ent[t] \notin abandoned
  /\ \A e \in Entries : ~(e \in deferred /\ e \in abandoned)

OwnedMemory ==
  /\ \A t \in Reclaimers :
       /\ pc[t] \in {"premark", "schedule", "checklive", "mark", "wait", "dispose", "handoff"}
            => mem[ent[t]] = "live"
       /\ pc[t] \in {"done", "delete"} => mem[ent[t]] = "gutted"
       /\ pc[t] # "drop"
  /\ \A e \in Entries : e \in deferred \/ e \in abandoned => mem[e] = "live"

\* The token of an entry is given back before its memory is.
ScheduledMemory ==
  /\ \A e \in Entries : e \in scheduled => mem[e] \in {"live", "gutted"}
  /\ \A t \in Reclaimers : pc[t] = "delete" => ent[t] \notin scheduled

OwnInv == SlotsDistinct /\ SlotClean /\ OneOwner /\ OwnedAway /\ OwnedMemory /\ ScheduledMemory

\* An entry claimed out of its slot has one owner and is in no other slot, also
\* when its address is used again later.
THEOREM Ownership == Spec => []OwnInv
<1> USE DEF Threads, Reclaimers, OwnerSteps
<1>1. Init => OwnInv
  BY ThreadsAssumption
  DEF Init, OwnInv, SlotsDistinct, SlotClean, OneOwner, OwnedAway, OwnedMemory, ScheduledMemory
<1>2. TypeInv /\ TokenInv /\ OwnInv /\ [Next]_vars => OwnInv'
  <2> SUFFICES ASSUME TypeInv, TokenInv, OwnInv, [Next]_vars PROVE OwnInv'
    OBVIOUS
  <2> USE ThreadsAssumption
      DEF OwnInv, SlotsDistinct, SlotClean, OneOwner, OwnedAway, OwnedMemory, ScheduledMemory,
          entryVars, poolVars, isLiveEntry
  <2>1. ASSUME NEW r \in Readers, NEW s \in Slots, LoadElt(r, s) PROVE OwnInv'
    <3>1. UNCHANGED <<slot, mem, refs, deleting, scheduled, deferred, abandoned>>
      BY <2>1 DEF LoadElt
    <3>2. \A t \in Reclaimers : pc'[t] = pc[t] /\ ent'[t] = ent[t]
      BY <2>1, GotoType, SMTT(20) DEF LoadElt, TypeInv, TypeOK
    <3> QED
      BY <3>1, <3>2
  <2>2. ASSUME NEW r \in Readers, ReaderStep(r) PROVE OwnInv'
    <3>1. pc[r] = "again" /\ LoadElt(r, at[r]) => OwnInv'
      BY <2>1 DEF TypeInv, LocalsOK
    <3>2. CASE CheckLive(r) \/ LoadRefs(r) \/ TestDeleting(r)
      BY <3>2, GotoType, SMTT(20) DEF CheckLive, LoadRefs, TestDeleting, Goto, TypeInv, TypeOK
    <3>3. CASE ClearElt(r)
      BY <3>3, GotoType, SMTT(20) DEF ClearElt, Goto, TypeInv, TypeOK, LocalsOK, HasEntry
    <3>4. CASE TryAcquire(r) \/ Recheck(r) \/ Release(r)
      BY <3>4, GotoType, SMTT(20) DEF TryAcquire, Recheck, Release, Goto, TypeInv, TypeOK
    <3> QED
      BY <2>2, <3>1, <3>2, <3>3, <3>4 DEF ReaderStep
  <2>3. ASSUME NEW t \in Reclaimers, DeleteStep(t) PROVE OwnInv'
    <3> USE DEF Goto, TypeInv, TypeOK, LocalsOK
    <3>1. CASE Schedule(t)
      BY <3>1, GotoType, SMTT(20) DEF Schedule, NextJob
    <3>2. CASE ReclaimCheckLive(t)
      BY <3>2, GotoType, SMTT(20) DEF ReclaimCheckLive
    <3>3. CASE MarkDeleting(t)
      BY <3>3, GotoType, SMTT(20) DEF MarkDeleting
    <3>4. CASE SeeNoRefs(t)
      BY <3>4, GotoType, SMTT(20) DEF SeeNoRefs
    <3>5. CASE SuspectRefs(t)
      BY <3>5, GotoType, SMTT(20) DEF SuspectRefs
    <3>6. CASE Expire(t)
      BY <3>6, GotoType, SMTT(20) DEF Expire
    <3>7. CASE Dispose(t)
      <4>1. /\ pc[t] = "dispose" /\ pc'[t] = "done" /\ ent'[t] = ent[t] /\ ent[t] \in Entries
            /\ \A u \in Reclaimers \ {t} : pc'[u] = pc[u] /\ ent'[u] = ent[u]
            /\ UNCHANGED <<slot, deleting, scheduled, deferred, abandoned>>
        BY <3>7, GotoType, SMTT(20) DEF Dispose
      <4>2. /\ mem'[ent[t]] = "gutted"
            /\ \A e \in Entries \ {ent[t]} : mem'[e] = mem[e]
        BY <3>7, <4>1 DEF Dispose
      <4>3. /\ \A u \in Reclaimers \ {t} : pc[u] \in OwnerSteps => ent[u] # ent[t]
            /\ \A u \in Reclaimers \ {t} : pc[u] = "handoff" => ent[u] # ent[t]
        BY <4>1 DEF TokenInv, SoleDeleter, TokenSteps
      <4>4. SlotsDistinct' /\ SlotClean'
        BY <4>1, <4>2
      <4>5. OneOwner' /\ OwnedAway'
        BY <4>1
      <4>6. OwnedMemory'
        BY <4>1, <4>2, <4>3
      <4>7. ScheduledMemory'
        BY <4>1, <4>2
      <4> QED
        BY <4>4, <4>5, <4>6, <4>7
    <3>8. CASE MarkDeletionDone(t)
      BY <3>8, GotoType, SMTT(20) DEF MarkDeletionDone, NextJob
    <3>9. CASE Delete(t)
      BY <3>9, GotoType, SMTT(20) DEF Delete, NextJob
    <3> QED
      BY <2>3, <3>1, <3>2, <3>3, <3>4, <3>5, <3>6, <3>7, <3>8, <3>9 DEF DeleteStep
  <2>4. ASSUME NEW d \in Deleters, DeleterStep(d) PROVE OwnInv'
    <3> USE DEF Goto, TypeInv, TypeOK, LocalsOK
    <3>1. CASE RetryInstall(d)
      BY <3>1, GotoType, SMTT(20) DEF RetryInstall
    <3>2. CASE LoadForClaim(d)
      <4>1. UNCHANGED <<slot, mem, refs, deleting, scheduled, deferred, abandoned>>
        BY <3>2 DEF LoadForClaim
      <4>2. /\ \A t \in Threads \ {d} : pc'[t] = pc[t] /\ ent'[t] = ent[t]
            /\ pc'[d] \in {"claim", "store", "idle"}
        BY <3>2, GotoType, SMTT(20) DEF LoadForClaim, NextJob
      <4>4. SlotsDistinct' /\ SlotClean' /\ OneOwner'
        BY <4>1, <4>2
      <4>5. OwnedAway' /\ OwnedMemory'
        BY <4>1, <4>2
      <4>6. ScheduledMemory'
        BY <4>1, <4>2
      <4> QED
        BY <4>4, <4>5, <4>6
    <3>3. CASE Claim(d)
      BY <3>3, GotoType, SMTT(60) DEF Claim, NextJob
    <3>4. CASE PreMark(d)
      BY <3>4, GotoType, SMTT(20) DEF PreMark
    <3>5. CASE SkipInstall(d)
      BY <3>5, GotoType, SMTT(20) DEF SkipInstall, EndInstall
    <3> QED
      BY <2>3, <2>4, <3>1, <3>2, <3>3, <3>4, <3>5 DEF DeleterStep
  <2>5. ASSUME NEW d \in Deleters, NEW s \in Slots, StartInstall(d, s) \/ StartUnreserve(d, s)
        PROVE OwnInv'
    BY <2>5 DEF StartInstall, StartUnreserve, TypeInv, TypeOK
  <2>6. ASSUME NEW d \in Deleters, NEW e \in Entries, Install(d, e) PROVE OwnInv'
    <3>1. mem[e] \in {"unborn", "freed"}
      BY <2>6 DEF Install
    <3>2. /\ mem' = [mem EXCEPT ![e] = "live"] /\ deleting' = [deleting EXCEPT ![e] = FALSE]
          /\ slot' = [slot EXCEPT ![at[d]] = e]
          /\ UNCHANGED <<scheduled, deferred, abandoned>>
      BY <2>6 DEF Install
    <3>3. /\ \A t \in Reclaimers \ {d} : pc'[t] = pc[t] /\ ent'[t] = ent[t]
          /\ pc'[d] = "idle"
      BY <2>6 DEF Install, EndInstall, Goto, TypeInv, TypeOK
    <3>4. /\ \A s \in Slots : slot[s] # e
          /\ \A t \in Reclaimers : pc[t] \in OwnerSteps \cup {"handoff"} => ent[t] # e
          /\ e \notin scheduled /\ e \notin deferred /\ e \notin abandoned
      BY <3>1
    <3>5. \A s \in Slots : slot'[s] = e \/ slot'[s] = slot[s]
      BY <3>2 DEF TypeInv, TypeOK
    <3>6. \A s1, s2 \in Slots : slot'[s1] = e /\ slot'[s2] = e => s1 = s2
      BY <3>2, <3>4 DEF TypeInv, TypeOK
    <3>7. \A x \in Entries \ {e} : mem'[x] = mem[x] /\ deleting'[x] = deleting[x]
      BY <3>2 DEF TypeInv, TypeOK
    <3>8. mem'[e] = "live" /\ deleting'[e] = FALSE
      BY <3>2 DEF TypeInv, TypeOK
    <3>9. SlotsDistinct' /\ SlotClean'
      BY <3>2, <3>3, <3>4, <3>5, <3>6, <3>7, <3>8
    <3>10. OneOwner' /\ OwnedAway'
      BY <3>2, <3>3
    <3>11. OwnedMemory' /\ ScheduledMemory'
      BY <3>2, <3>3, <3>4, <3>7, <3>8 DEF TypeInv, LocalsOK
    <3> QED
      BY <3>9, <3>10, <3>11
  <2>7. ASSUME NEW w \in Workers, NEW e \in Entries, StartWorker(w, e) PROVE OwnInv'
    <3>1. /\ e \in deferred /\ deferred' = deferred \ {e}
          /\ UNCHANGED <<slot, mem, refs, deleting, scheduled, abandoned>>
      BY <2>7 DEF StartWorker
    <3>2. /\ pc'[w] = "schedule" /\ ent'[w] = e
          /\ \A t \in Threads \ {w} : pc'[t] = pc[t] /\ ent'[t] = ent[t]
      BY <2>7 DEF StartWorker, TypeInv, TypeOK
    <3>3. SlotsDistinct' /\ OneOwner' /\ OwnedAway'
      BY <3>1, <3>2
    <3>4. SlotClean'
      BY <3>1, <3>2
    <3>5. OwnedMemory' /\ ScheduledMemory'
      BY <3>1, <3>2 DEF TypeInv, TypeOK
    <3> QED
      BY <3>3, <3>4, <3>5
  <2>9. CASE UNCHANGED vars
    BY <2>9 DEF vars
  <2> QED
    BY <2>1, <2>2, <2>3, <2>4, <2>5, <2>6, <2>7, <2>9 DEF Next
<1>3. QED
  BY <1>1, <1>2, TypesKept, TokensKept, WithoutCopies, PTL DEF Spec

-----------------------------------------------------------------------------
(* Reference counts, and what a held reference protects.                   *)

\* refs counts the pins of every entry, freed or not.
CountInv == \A e \in Entries : refs[e] = Cardinality(Pins(e))

\* Nobody uses an entry that is being disposed of or is gone.
UserInv ==
  \A r \in Readers : Using(r) =>
    mem[ent[r]] = "live" /\ \A t \in Reclaimers : pc[t] = "dispose" => ent[t] # ent[r]

PinSteps == {"recheck", "use", "undo"}

\* The pins of an entry can be counted.
LEMMA PinsFinite ==
  ASSUME NEW e
  PROVE  IsFiniteSet(Pins(e)) /\ Cardinality(Pins(e)) \in Nat
<1>1. Pins(e) \subseteq Readers
  BY DEF Pins
<1> QED
  BY <1>1, CountAssumption, FS_Subset, FS_CardinalityType

\* A step that changes no reader's membership in a pin set and no counter.
LEMMA SamePins ==
  ASSUME CountInv, refs' = refs,
         \A r \in Readers : (pc'[r] \in PinSteps) <=> (pc[r] \in PinSteps),
         \A r \in Readers : (pc[r] \in PinSteps) => (ent'[r] = ent[r])
  PROVE  CountInv'
<1>1. ASSUME NEW e \in Entries PROVE Pins(e)' = Pins(e)
  <2>1. \A r \in Readers : r \in Pins(e)' <=> r \in Pins(e)
    BY DEF Pins, PinSteps
  <2> QED
    BY <2>1 DEF Pins
<1> QED
  BY <1>1 DEF CountInv

\* The CAS of try_acquire pins the entry once more; the counter does not wrap.
LEMMA AcquirePins ==
  ASSUME TypeInv, CountInv, NEW r \in Readers, TryAcquire(r), refs[ent[r]] = old[r],
         refs' = [refs EXCEPT ![ent[r]] = Incr(@)], Goto(r, "recheck")
  PROVE  CountInv'
<1> USE DEF Threads
<1>0. PICK x \in Entries : x = ent[r]
  BY DEF TypeInv, LocalsOK, TryAcquire, HasEntry
<1>1. x \in Entries /\ pc[r] = "cas" /\ r \notin Pins(x)
  BY <1>0 DEF TypeInv, LocalsOK, TryAcquire, HasEntry, Pins
<1>2. /\ pc'[r] = "recheck" /\ ent'[r] = x
      /\ \A u \in Readers \ {r} : pc'[u] = pc[u] /\ ent'[u] = ent[u]
  BY <1>0, GotoType
<1>3. Pins(x)' = Pins(x) \cup {r}
  BY <1>0, <1>1, <1>2 DEF Pins
<1>4. \A e \in Entries \ {x} : Pins(e)' = Pins(e)
  BY <1>0, <1>1, <1>2 DEF Pins
<1>5. Cardinality(Pins(x) \cup {r}) = Cardinality(Pins(x)) + 1
  BY <1>0, <1>1, PinsFinite, FS_AddElement
<1>6. Cardinality(Pins(x) \cup {r}) <= Cardinality(Readers) /\ Cardinality(Readers) \in Nat
  <2>1. Pins(x) \cup {r} \subseteq Readers
    BY DEF Pins
  <2> QED
    BY <2>1, CountAssumption, FS_Subset, FS_CardinalityType
<1>7. refs[x] # RefMax
  BY <1>0, <1>1, <1>5, <1>6, PinsFinite, CountAssumption DEF CountInv
<1>8. refs'[x] = refs[x] + 1 /\ \A e \in Entries \ {x} : refs'[e] = refs[e]
  BY <1>0, <1>1, <1>7 DEF Incr, TypeInv, TypeOK
<1> QED
  BY <1>0, <1>1, <1>3, <1>4, <1>5, <1>8 DEF CountInv

\* release() takes the pin back; the counter does not go below zero.
LEMMA ReleasePins ==
  ASSUME TypeInv, CountInv, NEW r \in Readers, Release(r)
  PROVE  CountInv'
<1> USE DEF Threads
<1>0. PICK x \in Entries : x = ent[r]
  BY DEF TypeInv, LocalsOK, Release, HasEntry
<1>1. x \in Entries /\ r \in Pins(x)
  BY <1>0 DEF TypeInv, LocalsOK, Release, HasEntry, Pins
<1>2. /\ pc'[r] \in {"idle", "again"}
      /\ \A u \in Readers \ {r} : pc'[u] = pc[u] /\ ent'[u] = ent[u]
  BY GotoType DEF Release
<1>3. Pins(x)' = Pins(x) \ {r}
  BY <1>0, <1>1, <1>2 DEF Pins
<1>4. \A e \in Entries \ {x} : Pins(e)' = Pins(e)
  BY <1>0, <1>1, <1>2 DEF Pins
<1>5. Cardinality(Pins(x) \ {r}) = Cardinality(Pins(x)) - 1
  BY <1>0, <1>1, PinsFinite, FS_RemoveElement
<1>6. Cardinality(Pins(x)) # 0
  BY <1>0, <1>1, PinsFinite, FS_EmptySet
<1>7. refs'[x] = refs[x] - 1 /\ \A e \in Entries \ {x} : refs'[e] = refs[e]
  BY <1>0, <1>1, <1>6, PinsFinite DEF Release, Decr, CountInv, TypeInv, TypeOK
<1> QED
  BY <1>0, <1>1, <1>3, <1>4, <1>5, <1>7 DEF CountInv

HeldInv == CountInv /\ UserInv

\* Every step keeps the counters exact and the entries of the users intact, but one
\* that hands out an address which a reader has pinned.
LEMMA HeldInductive ==
  ASSUME TypeInv, OwnInv, HeldInv, [Next]_vars, ~overtaken'
  PROVE  HeldInv'
<1> USE ThreadsAssumption DEF Threads, Reclaimers, entryVars, poolVars, HeldInv
<1>1. ASSUME NEW r \in Readers, NEW s \in Slots, LoadElt(r, s) PROVE HeldInv'
  <2>1. \A u \in Readers : (pc'[u] \in PinSteps) <=> (pc[u] \in PinSteps)
    BY <1>1, GotoType, SMTT(20) DEF LoadElt, PinSteps, TypeInv, TypeOK
  <2>2. \A u \in Readers : (pc[u] \in PinSteps) => (ent'[u] = ent[u])
    BY <1>1, GotoType, SMTT(20) DEF LoadElt, PinSteps, TypeInv, TypeOK
  <2>3. CountInv'
    BY <1>1, <2>1, <2>2, SamePins DEF LoadElt
  <2>4. /\ \A u \in Readers : Using(u)' => Using(u)
        /\ \A t \in Reclaimers : pc'[t] = pc[t] /\ ent'[t] = ent[t]
    BY <1>1, GotoType, SMTT(20) DEF LoadElt, Using, TypeInv, TypeOK
  <2>5. UserInv'
    BY <1>1, <2>2, <2>4 DEF LoadElt, UserInv, Using, PinSteps
  <2> QED
    BY <2>3, <2>5
<1>2. ASSUME NEW r \in Readers, ReaderStep(r) PROVE HeldInv'
  <2>1. CASE pc[r] = "again" /\ LoadElt(r, at[r])
    BY <2>1, <1>1 DEF TypeInv, LocalsOK
  <2>2. CASE CheckLive(r) \/ ClearElt(r) \/ LoadRefs(r) \/ TestDeleting(r)
    <3>1. CountInv'
      BY <2>2, GotoType, SamePins
      DEF CheckLive, ClearElt, LoadRefs, TestDeleting, PinSteps
    <3>2. UserInv'
      BY <2>2, GotoType, SMTT(20) DEF CheckLive, ClearElt, LoadRefs, TestDeleting, UserInv, Using
    <3> QED
      BY <3>1, <3>2
  <2>3. CASE TryAcquire(r)
    <3>1. ASSUME refs[ent[r]] = old[r], refs' = [refs EXCEPT ![ent[r]] = Incr(@)],
                 Goto(r, "recheck")
          PROVE  CountInv'
      BY <2>3, <3>1, AcquirePins
    <3>2. ASSUME refs' = refs, Goto(r, "flag") PROVE CountInv'
      <4>1. \A u \in Readers \ {r} : pc'[u] = pc[u] /\ ent'[u] = ent[u]
        BY <3>2, GotoType
      <4>2. pc[r] = "cas" /\ pc'[r] = "flag"
        BY <2>3, <3>2, GotoType, SMTT(20) DEF TryAcquire
      <4> QED
        BY <3>2, <4>1, <4>2, SamePins DEF PinSteps
    <3>3. UserInv'
      <4>1. \E step \in {"recheck", "flag"} : Goto(r, step)
        BY <2>3 DEF TryAcquire
      <4>2. /\ \A u \in Threads \ {r} : pc'[u] = pc[u] /\ ent'[u] = ent[u]
            /\ pc'[r] # "use"
        BY <4>1, GotoType
      <4> QED
        BY <2>3, <4>2 DEF TryAcquire, UserInv, Using
    <3> QED
      BY <2>3, <3>1, <3>2, <3>3 DEF TryAcquire
  <2>4. CASE Recheck(r)
    <3>1. CountInv'
      BY <2>4, GotoType, SamePins DEF Recheck, PinSteps
    <3>2. slot[at[r]] = ent[r] /\ ent[r] \in Entries =>
            mem[ent[r]] = "live" /\ \A t \in Reclaimers : pc[t] = "dispose" => ent[t] # ent[r]
      BY <2>4 DEF Recheck, OwnInv, SlotClean, OwnerSteps, TypeInv, LocalsOK, HasEntry
    <3>3. UserInv'
      BY <2>4, <3>2, GotoType, SMTT(20) DEF Recheck, UserInv, Using, TypeInv, LocalsOK, HasEntry
    <3> QED
      BY <3>1, <3>3
  <2>5. CASE Release(r)
    <3>1. UserInv'
      BY <2>5, GotoType, SMTT(20) DEF Release, UserInv, Using
    <3> QED
      BY <2>5, <3>1, ReleasePins
  <2> QED
    BY <1>2, <2>1, <2>2, <2>3, <2>4, <2>5 DEF ReaderStep
<1>3. ASSUME NEW t \in Reclaimers, DeleteStep(t) PROVE HeldInv'
  <2>1. /\ refs' = refs
        /\ \E step \in DeleterSteps : Goto(t, step)
    BY <1>3 DEF DeleteStep, Schedule, ReclaimCheckLive, MarkDeleting, SeeNoRefs, SuspectRefs, Expire,
                Dispose, MarkDeletionDone, Delete, NextJob, DeleterSteps
  <2>2. \A u \in Threads \ {t} : pc'[u] = pc[u] /\ ent'[u] = ent[u]
    BY <2>1, GotoType
  <2>3. CountInv'
    BY <2>1, <2>2, SamePins
  <2>4. CASE SeeNoRefs(t)
    <3>1. PICK x \in Entries : x = ent[t]
      BY <2>4 DEF SeeNoRefs, TypeInv, LocalsOK, OwnerSteps
    <3>2. Pins(x) = {}
      BY <2>4, <3>1, PinsFinite, FS_EmptySet DEF SeeNoRefs, CountInv
    <3>3. \A r \in Readers : Using(r) => ent[r] # x
      BY <3>2 DEF Pins, Using
    <3>4. mem' = mem /\ pc'[t] = "dispose" /\ ent'[t] = x
      BY <2>4, <3>1, GotoType, SMTT(20) DEF SeeNoRefs
    <3>5. UserInv'
      BY <2>2, <3>3, <3>4 DEF UserInv, Using
    <3> QED
      BY <2>3, <3>5
  <2>5. CASE Dispose(t)
    <3>1. PICK x \in Entries : x = ent[t]
      BY <2>5 DEF Dispose, TypeInv, LocalsOK, OwnerSteps
    <3>2. \A r \in Readers : Using(r) => ent[r] # x
      BY <2>5, <3>1 DEF Dispose, UserInv
    <3>3. \A e \in Entries \ {x} : mem'[e] = mem[e]
      BY <2>5, <3>1 DEF Dispose, TypeInv, TypeOK
    <3>4. \A r \in Readers : Using(r) => ent[r] \in Entries
      BY DEF Using, TypeInv, LocalsOK, HasEntry
    <3>5. pc'[t] = "done"
      BY <2>5, GotoType, SMTT(20) DEF Dispose
    <3>6. UserInv'
      BY <2>2, <3>2, <3>3, <3>4, <3>5 DEF UserInv, Using
    <3> QED
      BY <2>3, <3>6
  <2>6. CASE Delete(t)
    <3>1. PICK x \in Entries : x = ent[t]
      BY <2>6 DEF Delete, TypeInv, LocalsOK, OwnerSteps
    <3>2. mem[x] = "gutted"
      BY <2>6, <3>1 DEF Delete, OwnInv, OwnedMemory
    <3>3. \A e \in Entries \ {x} : mem'[e] = mem[e]
      BY <2>6, <3>1 DEF Delete, TypeInv, TypeOK
    <3>4. \A r \in Readers : Using(r) => ent[r] \in Entries /\ ent[r] # x
      BY <3>2 DEF UserInv, Using, TypeInv, LocalsOK, HasEntry
    <3>5. pc'[t] # "dispose"
      BY <2>6, GotoType, SMTT(20) DEF Delete, NextJob
    <3>6. UserInv'
      BY <2>2, <3>3, <3>4, <3>5 DEF UserInv, Using
    <3> QED
      BY <2>3, <3>6
  <2>7. CASE Schedule(t) \/ ReclaimCheckLive(t) \/ MarkDeleting(t) \/ SuspectRefs(t)
             \/ Expire(t) \/ MarkDeletionDone(t)
    <3>1. mem' = mem /\ pc'[t] # "dispose"
      BY <2>7, GotoType, SMTT(20) DEF Schedule, ReclaimCheckLive, MarkDeleting, SuspectRefs, Expire,
                  MarkDeletionDone, NextJob
    <3>2. UserInv'
      BY <2>2, <3>1 DEF UserInv, Using
    <3> QED
      BY <2>3, <3>2
  <2> QED
    BY <1>3, <2>4, <2>5, <2>6, <2>7 DEF DeleteStep
<1>4. ASSUME refs' = refs, mem' = mem,
             \A r \in Readers : pc'[r] = pc[r] /\ ent'[r] = ent[r],
             \A t \in Reclaimers : pc'[t] = "dispose" => pc[t] = "dispose" /\ ent'[t] = ent[t]
      PROVE  HeldInv'
  <2>1. CountInv'
    BY <1>4, SamePins
  <2>2. UserInv'
    BY <1>4 DEF UserInv, Using
  <2> QED
    BY <2>1, <2>2
<1>5. ASSUME NEW d \in Deleters, DeleterStep(d) PROVE HeldInv'
  <2>1. CASE RetryInstall(d) \/ Claim(d) \/ PreMark(d) \/ SkipInstall(d)
    BY <2>1, <1>4, GotoType, SMTT(20) DEF RetryInstall, Claim, PreMark, SkipInstall, EndInstall, NextJob
  <2>2. CASE LoadForClaim(d)
    BY <2>2, <1>4, GotoType, SMTT(20) DEF LoadForClaim, NextJob, TypeInv, TypeOK
  <2> QED
    BY <1>3, <1>5, <2>1, <2>2 DEF DeleterStep
<1>6. ASSUME NEW d \in Deleters, NEW s \in Slots, StartInstall(d, s) \/ StartUnreserve(d, s)
      PROVE HeldInv'
  BY <1>6, <1>4 DEF StartInstall, StartUnreserve, TypeInv, TypeOK
<1>7. ASSUME NEW d \in Deleters, NEW e \in Entries, Install(d, e) PROVE HeldInv'
  <2>1. Pins(e) = {}
    BY <1>7 DEF Install
  <2>2. \A r \in Readers : pc[r] \in PinSteps => ent[r] # e
    BY <2>1 DEF Pins, PinSteps
  <2>3. refs[e] = 0
    BY <2>1, FS_EmptySet DEF CountInv
  <2>4. refs' = refs
    BY <1>7, <2>3 DEF Install, TypeInv, TypeOK
  <2>5. /\ \A u \in Threads \ {d} : pc'[u] = pc[u] /\ ent'[u] = ent[u]
        /\ pc'[d] = "idle"
    BY <1>7, GotoType, SMTT(20) DEF Install, EndInstall
  <2>6. CountInv'
    BY <2>4, <2>5, SamePins
  <2>7. \A r \in Readers : Using(r) => mem'[ent[r]] = mem[ent[r]]
    BY <1>7, <2>2 DEF Install, Using, PinSteps, TypeInv, TypeOK, LocalsOK, HasEntry
  <2>8. UserInv'
    BY <2>5, <2>7 DEF UserInv, Using
  <2> QED
    BY <2>6, <2>8
<1>8. ASSUME NEW w \in Workers, NEW e \in Entries, StartWorker(w, e) PROVE HeldInv'
  BY <1>8, <1>4 DEF StartWorker, TypeInv, TypeOK
<1>10. CASE UNCHANGED vars
  BY <1>10, <1>4 DEF vars
<1> QED
  BY <1>1, <1>2, <1>3, <1>5, <1>6, <1>7, <1>8, <1>10 DEF Next

\* At the start no entry is pinned or used.
LEMMA HeldInit == Init => HeldInv
<1> SUFFICES ASSUME Init PROVE HeldInv
  OBVIOUS
<1>1. \A e \in Entries : Pins(e) = {}
  BY DEF Init, Pins, Threads
<1>2. CountInv
  BY <1>1, FS_EmptySet DEF Init, CountInv
<1>3. UserInv
  BY DEF Init, UserInv, Using, Threads
<1> QED
  BY <1>2, <1>3 DEF HeldInv

\* Nothing takes back that an address was handed out too early.
LEMMA OvertakenStays ==
  ASSUME [Next]_vars, overtaken
  PROVE  overtaken'
<1>1. ASSUME NEW r \in Readers, NEW s, LoadElt(r, s) PROVE overtaken'
  BY <1>1 DEF LoadElt
<1>2. ASSUME NEW r \in Readers, ReaderStep(r) PROVE overtaken'
  BY <1>1, <1>2 DEF ReaderStep, CheckLive, ClearElt, LoadRefs, TestDeleting, TryAcquire, Recheck, Release
<1>3. ASSUME NEW t \in Reclaimers, DeleteStep(t) PROVE overtaken'
  BY <1>3 DEF DeleteStep, Schedule, ReclaimCheckLive, MarkDeleting, SeeNoRefs, SuspectRefs, Expire,
              Dispose, MarkDeletionDone, Delete
<1>4. ASSUME NEW d \in Deleters, DeleterStep(d) PROVE overtaken'
  BY <1>3, <1>4 DEF DeleterStep, RetryInstall, LoadForClaim, Claim, PreMark, SkipInstall, Reclaimers
<1>5. ASSUME NEW d \in Deleters, NEW s \in Slots, StartInstall(d, s) \/ StartUnreserve(d, s)
      PROVE  overtaken'
  BY <1>5 DEF StartInstall, StartUnreserve
<1>6. ASSUME NEW d \in Deleters, NEW e \in Entries, Install(d, e) PROVE overtaken'
  BY <1>6 DEF Install
<1>7. ASSUME NEW w \in Workers, NEW e \in Entries, StartWorker(w, e) PROVE overtaken'
  BY <1>7 DEF StartWorker
<1>8. CASE UNCHANGED vars
  BY <1>8 DEF vars
<1> QED
  BY <1>1, <1>2, <1>3, <1>4, <1>5, <1>6, <1>7, <1>8 DEF Next, Reclaimers

\* The counters are exact, and the users' entries intact, as long as no address is
\* handed out that a reader has pinned.
LEMMA HeldKept == Spec => [](overtaken \/ HeldInv)
<1>1. TypeInv /\ OwnInv /\ (overtaken \/ HeldInv) /\ [Next]_vars => (overtaken \/ HeldInv)'
  BY HeldInductive, OvertakenStays
<1> QED
  BY <1>1, HeldInit, TypesKept, WithoutCopies, Ownership, PTL DEF Spec

\* An entry that acquireEntryFromElt returned stays intact until it is released,
\* for every number of readers, installers, teardowns and workers, and whatever
\* freed addresses are used again, until one is handed out that a reader has pinned.
THEOREM HeldIntact == Spec => []HeldEntryIntact
<1>1. overtaken \/ HeldInv => HeldEntryIntact
  BY DEF HeldInv, UserInv, HeldEntryIntact
<1> QED
  BY <1>1, HeldKept, PTL

\* refs is exact for every entry, no wrap and no lost count, for any number of
\* readers, until an address is handed out that a reader has pinned.
THEOREM RefsExact == Spec => []RefsCountPins
<1>1. overtaken \/ HeldInv => RefsCountPins
  BY DEF HeldInv, CountInv, RefsCountPins
<1> QED
  BY <1>1, HeldKept, PTL

\* The address in a slot is that of an entry nobody is deleting, however often
\* addresses are used again.
THEOREM SlotsFresh == Spec => []SlotEntryFresh
<1>1. OwnInv => SlotEntryFresh
  BY DEF OwnInv, SlotClean, SlotEntryFresh, InSlot
<1> QED
  BY <1>1, Ownership, PTL

\* No deleter reads, writes or frees freed memory, however often addresses are
\* used again.
THEOREM DeletersSafe == Spec => []DeleterOnLiveMemory
<1>1. OwnInv => DeleterOnLiveMemory
  BY DEF OwnInv, OwnedMemory, DeleterOnLiveMemory, isLiveEntry
<1> QED
  BY <1>1, Ownership, PTL

-----------------------------------------------------------------------------
(* EntryReclaim implements SafeReclaim.                                    *)

\* An entry that deleters have let go of is marked: it cannot be published again.
MarkInv ==
  /\ \A t \in Reclaimers : pc[t] \in {"wait", "handoff"} => deleting[ent[t]]
  /\ \A e \in Entries : e \in deferred \/ e \in abandoned => deleting[e]
  /\ \A e \in Entries : e \in scheduled =>
       deleting[e] \/ \E t \in Reclaimers : pc[t] \in {"checklive", "mark"} /\ ent[t] = e

\* Only a new entry is unmarked.
LEMMA MarkInductive ==
  ASSUME TypeInv, OwnInv, MarkInv, [Next]_vars
  PROVE  MarkInv'
<1> USE ThreadsAssumption DEF Threads, Reclaimers, MarkInv, entryVars, poolVars
<1>1. ASSUME UNCHANGED <<deleting, scheduled, deferred, abandoned>>,
             \A t \in Reclaimers : pc'[t] = pc[t] /\ ent'[t] = ent[t]
      PROVE  MarkInv'
  BY <1>1
<1>2. ASSUME NEW r \in Readers, NEW s \in Slots, LoadElt(r, s) PROVE MarkInv'
  BY <1>1, <1>2, GotoType, SMTT(20) DEF LoadElt, TypeInv, TypeOK
<1>3. ASSUME NEW r \in Readers, ReaderStep(r) PROVE MarkInv'
  <2>1. CASE pc[r] = "again" /\ LoadElt(r, at[r])
    BY <2>1, <1>2 DEF TypeInv, LocalsOK
  <2>2. CASE CheckLive(r) \/ ClearElt(r) \/ LoadRefs(r) \/ TestDeleting(r) \/ TryAcquire(r)
             \/ Recheck(r) \/ Release(r)
    <3>1. UNCHANGED <<deleting, scheduled, deferred, abandoned>> /\ \E step : Goto(r, step)
      BY <2>2 DEF CheckLive, ClearElt, LoadRefs, TestDeleting, TryAcquire, Recheck, Release
    <3> QED
      BY <1>1, <3>1, GotoType
  <2> QED
    BY <1>3, <2>1, <2>2 DEF ReaderStep
<1>4. ASSUME NEW t \in Reclaimers, DeleteStep(t) PROVE MarkInv'
  <2> USE DEF TypeInv, TypeOK, LocalsOK, OwnerSteps
  <2>1. CASE Schedule(t)
    BY <2>1, GotoType, SMTT(20) DEF Schedule, NextJob
  <2>2. CASE ReclaimCheckLive(t)
    BY <2>2, GotoType, SMTT(20) DEF ReclaimCheckLive, OwnInv, OwnedMemory, isLiveEntry
  <2>3. CASE MarkDeleting(t)
    BY <2>3, GotoType, SMTT(20) DEF MarkDeleting
  <2>4. CASE SeeNoRefs(t)
    BY <2>4, GotoType, SMTT(20) DEF SeeNoRefs
  <2>5. CASE SuspectRefs(t)
    BY <2>5, GotoType, SMTT(20) DEF SuspectRefs
  <2>6. CASE Expire(t)
    BY <2>6, GotoType, SMTT(20) DEF Expire
  <2>7. CASE Dispose(t)
    BY <2>7, GotoType, SMTT(20) DEF Dispose
  <2>8. CASE MarkDeletionDone(t)
    BY <2>8, GotoType, SMTT(20) DEF MarkDeletionDone, NextJob
  <2>9. CASE Delete(t)
    BY <2>9, GotoType, SMTT(20) DEF Delete, NextJob
  <2> QED
    BY <1>4, <2>1, <2>2, <2>3, <2>4, <2>5, <2>6, <2>7, <2>8, <2>9 DEF DeleteStep
<1>5. ASSUME NEW d \in Deleters, DeleterStep(d) PROVE MarkInv'
  <2> USE DEF TypeInv, TypeOK, LocalsOK, OwnerSteps
  <2>1. CASE RetryInstall(d)
    BY <2>1, GotoType, SMTT(20) DEF RetryInstall
  <2>2. CASE LoadForClaim(d)
    BY <2>2, GotoType, SMTT(20) DEF LoadForClaim, NextJob
  <2>3. CASE Claim(d)
    BY <2>3, GotoType, SMTT(20) DEF Claim, NextJob
  <2>4. CASE PreMark(d)
    BY <2>4, GotoType, SMTT(20) DEF PreMark
  <2>5. CASE SkipInstall(d)
    BY <2>5, GotoType, SMTT(20) DEF SkipInstall, EndInstall
  <2> QED
    BY <1>4, <1>5, <2>1, <2>2, <2>3, <2>4, <2>5 DEF DeleterStep
<1>6. ASSUME NEW d \in Deleters, NEW s \in Slots, StartInstall(d, s) \/ StartUnreserve(d, s)
      PROVE MarkInv'
  BY <1>6 DEF StartInstall, StartUnreserve, TypeInv, TypeOK
<1>7. ASSUME NEW d \in Deleters, NEW e \in Entries, Install(d, e) PROVE MarkInv'
  <2>1. mem[e] \in {"unborn", "freed"} /\ deleting' = [deleting EXCEPT ![e] = FALSE]
        /\ UNCHANGED <<scheduled, deferred, abandoned>>
    BY <1>7 DEF Install
  <2>2. /\ \A u \in Threads \ {d} : pc'[u] = pc[u] /\ ent'[u] = ent[u]
        /\ pc[d] = "store" /\ pc'[d] = "idle"
    BY <1>7, GotoType, SMTT(20) DEF Install, EndInstall
  <2>3. /\ \A t \in Reclaimers : pc[t] \in {"wait", "handoff", "checklive", "mark"} => ent[t] # e
        /\ e \notin scheduled /\ e \notin deferred /\ e \notin abandoned
    BY <2>1 DEF OwnInv, OwnedMemory, ScheduledMemory
  <2>4. \A x \in Entries \ {e} : deleting'[x] = deleting[x]
    BY <2>1 DEF TypeInv, TypeOK
  <2>5. \A t \in Reclaimers : pc[t] \in {"wait", "handoff"} => ent[t] \in Entries \ {e}
    BY <2>3 DEF TypeInv, LocalsOK, OwnerSteps
  <2> QED
    BY <2>1, <2>2, <2>3, <2>4, <2>5
<1>8. ASSUME NEW w \in Workers, NEW e \in Entries, StartWorker(w, e) PROVE MarkInv'
  BY <1>8 DEF StartWorker, TypeInv, TypeOK
<1>9. CASE UNCHANGED vars
  BY <1>9, <1>1 DEF vars
<1> QED
  BY <1>2, <1>3, <1>4, <1>5, <1>6, <1>7, <1>8, <1>9 DEF Next

\* Being deleted: marked, or in the hands of a deleter.
Gone(e) == deleting[e] \/ \E t \in Reclaimers : Owns(t, e)

\* The phase of an entry, case by case, now and after a step.
LEMMA PhaseCases ==
  /\ \A e \in Entries :
       /\ mem[e] = "unborn" => phaseBar[e] = "new"
       /\ mem[e] \in {"gutted", "freed"} => phaseBar[e] = "reclaimed"
       /\ mem[e] = "live" /\ Gone(e) => phaseBar[e] = "retired"
       /\ mem[e] = "live" /\ ~Gone(e) => phaseBar[e] = "published"
  /\ \A e \in Entries :
       /\ mem'[e] = "unborn" => phaseBar'[e] = "new"
       /\ mem'[e] \in {"gutted", "freed"} => phaseBar'[e] = "reclaimed"
       /\ mem'[e] = "live" /\ Gone(e)' => phaseBar'[e] = "retired"
       /\ mem'[e] = "live" /\ ~Gone(e)' => phaseBar'[e] = "published"
<1>1. ASSUME NEW e \in Entries
      PROVE  /\ mem[e] = "unborn" => phaseBar[e] = "new"
             /\ mem[e] \in {"gutted", "freed"} => phaseBar[e] = "reclaimed"
             /\ mem[e] = "live" /\ Gone(e) => phaseBar[e] = "retired"
             /\ mem[e] = "live" /\ ~Gone(e) => phaseBar[e] = "published"
  BY DEF phaseBar, Gone
<1>2. ASSUME NEW e \in Entries
      PROVE  /\ mem'[e] = "unborn" => phaseBar'[e] = "new"
             /\ mem'[e] \in {"gutted", "freed"} => phaseBar'[e] = "reclaimed"
             /\ mem'[e] = "live" /\ Gone(e)' => phaseBar'[e] = "retired"
             /\ mem'[e] = "live" /\ ~Gone(e)' => phaseBar'[e] = "published"
  BY DEF phaseBar, Gone
<1> QED
  BY <1>1, <1>2

\* A step that the abstract specification does not see.
LEMMA SamePhases ==
  ASSUME TypeInv, mem' = mem, \A e \in Entries : mem[e] = "live" => (Gone(e)' <=> Gone(e))
  PROVE  phaseBar' = phaseBar
<1>1. \A e \in Entries : phaseBar'[e] = phaseBar[e]
  BY PhaseCases DEF TypeInv, TypeOK
<1>2. phaseBar = [e \in Entries |-> phaseBar[e]] /\ phaseBar' = [e \in Entries |-> phaseBar'[e]]
  BY DEF phaseBar
<1> QED
  BY <1>1, <1>2

\* ... nor one after which the same readers use the same entries.
LEMMA SameUsers ==
  ASSUME \A r \in Readers : (Using(r)' <=> Using(r)) /\ (Using(r) => ent'[r] = ent[r])
  PROVE  holdingBar' = holdingBar
BY DEF holdingBar

\* A step of one deleter after which the same entries are gone.
LEMMA SameGone ==
  ASSUME NEW t \in Reclaimers, deleting' = deleting,
         \A u \in Reclaimers \ {t} : pc'[u] = pc[u] /\ ent'[u] = ent[u],
         \A e \in Entries : (Owns(t, e)' <=> Owns(t, e)) \/ deleting[e]
  PROVE  \A e \in Entries : Gone(e)' <=> Gone(e)
<1>1. \A u \in Reclaimers \ {t}, e \in Entries : Owns(u, e)' <=> Owns(u, e)
  BY DEF Owns
<1> QED
  BY <1>1 DEF Gone

\* The steps of readers: a use begins while its entry is published.
LEMMA ReaderRefines ==
  ASSUME TypeInv, OwnInv, NEW r \in Readers, ReaderStep(r) \/ \E s \in Slots : LoadElt(r, s)
  PROVE  [Safe!Next]_<<phaseBar, holdingBar>>
<1> USE ThreadsAssumption DEF Threads, Reclaimers, entryVars, poolVars
<1>1. /\ \A u \in Threads \ {r} : pc'[u] = pc[u] /\ ent'[u] = ent[u]
      /\ UNCHANGED <<mem, deleting>>
  <2>1. CASE \E s \in Slots : LoadElt(r, s)
    BY <2>1, GotoType, SMTT(20) DEF LoadElt, TypeInv, TypeOK
  <2>2. CASE ReaderStep(r)
    <3>1. CASE pc[r] = "again" /\ LoadElt(r, at[r])
      BY <3>1, GotoType, SMTT(20) DEF LoadElt, TypeInv, TypeOK
    <3>2. CASE CheckLive(r) \/ ClearElt(r) \/ LoadRefs(r) \/ TestDeleting(r) \/ TryAcquire(r)
               \/ Recheck(r) \/ Release(r)
      <4>1. UNCHANGED <<mem, deleting>> /\ \E step : Goto(r, step)
        BY <3>2 DEF CheckLive, ClearElt, LoadRefs, TestDeleting, TryAcquire, Recheck, Release
      <4> QED
        BY <4>1, GotoType
    <3> QED
      BY <2>2, <3>1, <3>2 DEF ReaderStep
  <2> QED
    BY <2>1, <2>2
<1>2. phaseBar' = phaseBar
  <2>1. \A e \in Entries : Gone(e)' <=> Gone(e)
    BY <1>1 DEF Gone, Owns
  <2> QED
    BY <1>1, <2>1, SamePhases
<1>3. ASSUME ~Using(r), pc'[r] # "use" PROVE holdingBar' = holdingBar
  BY <1>1, <1>3, SameUsers DEF Using
<1>4. CASE Recheck(r) /\ slot[at[r]] = ent[r]
  <2>1. PICK e \in Entries : e = ent[r]
    BY <1>4 DEF Recheck, TypeInv, LocalsOK, HasEntry
  <2>2. mem[e] = "live" /\ ~Gone(e)
    BY <1>4, <2>1 DEF Recheck, OwnInv, SlotClean, Gone, Owns, TypeInv, LocalsOK, HasEntry
  <2>3. phaseBar[e] = "published"
    BY <2>2, PhaseCases
  <2>4. pc[r] = "recheck" /\ pc'[r] = "use" /\ ent'[r] = e
    BY <1>4, <2>1, GotoType, SMTT(20) DEF Recheck
  <2>5. holdingBar[r] = NULL /\ holdingBar' = [holdingBar EXCEPT ![r] = e]
    BY <1>1, <2>1, <2>4 DEF holdingBar, Using
  <2> QED
    BY <1>2, <2>3, <2>5 DEF Safe!Next, Safe!Acquire
<1>5. CASE Release(r) /\ pc[r] = "use"
  <2>1. holdingBar[r] # NULL
    BY <1>5 DEF holdingBar, Using, TypeInv, LocalsOK, HasEntry
  <2>2. pc'[r] = "idle"
    BY <1>5, GotoType, SMTT(20) DEF Release
  <2>3. holdingBar' = [holdingBar EXCEPT ![r] = NULL]
    BY <1>1, <2>2 DEF holdingBar, Using
  <2> QED
    BY <1>2, <2>1, <2>3 DEF Safe!Next, Safe!Release
<1>6. CASE ~(Recheck(r) /\ slot[at[r]] = ent[r]) /\ ~(Release(r) /\ pc[r] = "use")
  <2>1. ~Using(r) /\ pc'[r] # "use"
    BY <1>6, GotoType
    DEF ReaderStep, LoadElt, CheckLive, ClearElt, LoadRefs, TestDeleting, TryAcquire, Recheck, Release,
        Using, TypeInv, TypeOK
  <2> QED
    BY <1>2, <1>3, <2>1
<1> QED
  BY <1>4, <1>5, <1>6

\* The steps of deletion: disposing of an entry takes it back when nobody uses it.
LEMMA DeleteRefines ==
  ASSUME TypeInv, OwnInv, HeldInv, MarkInv, NEW t \in Reclaimers, DeleteStep(t)
  PROVE  [Safe!Next]_<<phaseBar, holdingBar>>
<1> USE ThreadsAssumption DEF Threads, Reclaimers, entryVars, poolVars
<1>1. \A u \in Threads \ {t} : pc'[u] = pc[u] /\ ent'[u] = ent[u]
  <2>1. \E step : Goto(t, step)
    BY DEF DeleteStep, Schedule, ReclaimCheckLive, MarkDeleting, SeeNoRefs, SuspectRefs, Expire,
           Dispose, MarkDeletionDone, Delete
  <2> QED
    BY <2>1, GotoType
<1>2. holdingBar' = holdingBar
  BY <1>1, SameUsers DEF Using
<1>3. ASSUME mem' = mem, \A e \in Entries : mem[e] = "live" => (Gone(e)' <=> Gone(e))
      PROVE  UNCHANGED <<phaseBar, holdingBar>>
  BY <1>2, <1>3, SamePhases
<1>4. CASE Schedule(t)
  <2>1. PICK x \in Entries : x = ent[t]
    BY <1>4 DEF Schedule, TypeInv, LocalsOK, OwnerSteps
  <2>2. CASE x \in scheduled
    <3>1. deleting[x]
      BY <1>4, <2>1, <2>2 DEF Schedule, MarkInv, OwnInv, OneOwner, OwnerSteps
    <3>2. deleting' = deleting /\ mem' = mem /\ pc'[t] \in {"store", "idle"}
      BY <1>4, <2>1, <2>2, GotoType, SMTT(20) DEF Schedule, NextJob
    <3>3. \A e \in Entries : (Owns(t, e)' <=> Owns(t, e)) \/ deleting[e]
      BY <2>1, <3>1, <3>2 DEF Owns, OwnerSteps
    <3> QED
      BY <1>1, <1>3, <3>2, <3>3, SameGone
  <2>3. CASE x \notin scheduled
    <3>1. deleting' = deleting /\ mem' = mem /\ pc'[t] \in {"mark", "checklive"} /\ ent'[t] = ent[t]
      BY <1>4, <2>1, <2>3, GotoType, SMTT(20) DEF Schedule
    <3>2. \A e \in Entries : Owns(t, e)' <=> Owns(t, e)
      BY <1>4, <3>1 DEF Schedule, Owns, OwnerSteps
    <3> QED
      BY <1>1, <1>3, <3>1, <3>2, SameGone
  <2> QED
    BY <2>2, <2>3
<1>5. CASE ReclaimCheckLive(t) \/ SeeNoRefs(t)
  <2>1. deleting' = deleting /\ mem' = mem
        /\ pc[t] \in OwnerSteps /\ pc'[t] \in OwnerSteps /\ ent'[t] = ent[t]
    BY <1>5, GotoType, SMTT(20) DEF ReclaimCheckLive, SeeNoRefs, OwnerSteps
  <2>2. \A e \in Entries : Owns(t, e)' <=> Owns(t, e)
    BY <2>1 DEF Owns
  <2> QED
    BY <1>1, <1>3, <2>1, <2>2, SameGone
<1>6. CASE MarkDeleting(t)
  <2>1. PICK x \in Entries : x = ent[t]
    BY <1>6 DEF MarkDeleting, TypeInv, LocalsOK, OwnerSteps
  <2>2. /\ deleting' = [deleting EXCEPT ![x] = TRUE] /\ mem' = mem
        /\ pc[t] = "mark" /\ pc'[t] = "wait" /\ ent'[t] = x
    BY <1>6, <2>1, GotoType, SMTT(20) DEF MarkDeleting
  <2>3. \A e \in Entries \ {x} : deleting'[e] = deleting[e]
    BY <2>1, <2>2 DEF TypeInv, TypeOK
  <2>4. \A e \in Entries : Gone(e)' <=> Gone(e)
    <3>1. \A u \in Reclaimers, e \in Entries : Owns(u, e)' <=> Owns(u, e)
      BY <1>1, <2>1, <2>2 DEF Owns, OwnerSteps
    <3>2. Owns(t, x)
      BY <2>1, <2>2 DEF Owns, OwnerSteps
    <3> QED
      BY <2>3, <3>1, <3>2 DEF Gone
  <2> QED
    BY <1>3, <2>2, <2>4
<1>7. CASE SuspectRefs(t) \/ Expire(t)
  <2>1. PICK x \in Entries : x = ent[t]
    BY <1>7 DEF SuspectRefs, Expire, TypeInv, LocalsOK, OwnerSteps
  <2>2. deleting[x]
    BY <1>7, <2>1 DEF SuspectRefs, Expire, MarkInv
  <2>3. deleting' = deleting /\ mem' = mem /\ pc'[t] \in {"handoff", "idle"}
    BY <1>7, GotoType, SMTT(20) DEF SuspectRefs, Expire
  <2>4. \A e \in Entries : (Owns(t, e)' <=> Owns(t, e)) \/ deleting[e]
    BY <2>1, <2>2, <2>3 DEF Owns, OwnerSteps
  <2> QED
    BY <1>1, <1>3, <2>3, <2>4, SameGone
<1>8. CASE Dispose(t)
  <2>1. PICK x \in Entries : x = ent[t]
    BY <1>8 DEF Dispose, TypeInv, LocalsOK, OwnerSteps
  <2>2. /\ mem[x] = "live" /\ Owns(t, x) /\ mem' = [mem EXCEPT ![x] = "gutted"] /\ deleting' = deleting
        /\ pc[t] = "dispose" /\ pc'[t] = "done" /\ ent'[t] = x
    BY <1>8, <2>1, GotoType, SMTT(20) DEF Dispose, OwnInv, OwnedMemory, Owns, OwnerSteps
  <2>3. /\ mem'[x] = "gutted" /\ \A e \in Entries \ {x} : mem'[e] = mem[e]
    BY <2>1, <2>2 DEF TypeInv, TypeOK
  <2>4. \A e \in Entries : Owns(t, e)' <=> Owns(t, e)
    BY <2>1, <2>2 DEF Owns, OwnerSteps
  <2>5. \A e \in Entries : Gone(e)' <=> Gone(e)
    BY <1>1, <2>2, <2>4, SameGone
  <2>6. phaseBar[x] = "retired" /\ phaseBar'[x] = "reclaimed"
    <3>1. Gone(x)
      BY <2>2 DEF Gone
    <3> QED
      BY <2>2, <2>3, <3>1, PhaseCases
  <2>7. \A e \in Entries \ {x} : phaseBar'[e] = phaseBar[e]
    BY <2>3, <2>5, PhaseCases DEF TypeInv, TypeOK
  <2>8. phaseBar' = [phaseBar EXCEPT ![x] = "reclaimed"]
    BY <2>6, <2>7 DEF phaseBar
  <2>9. \A r \in Readers : holdingBar[r] # x
    BY <2>1, <2>2 DEF holdingBar, HeldInv, UserInv, Using
  <2> QED
    BY <1>2, <2>6, <2>8, <2>9 DEF Safe!Next, Safe!Reclaim
<1>9. CASE MarkDeletionDone(t)
  <2>1. deleting' = deleting /\ mem' = mem
    BY <1>9 DEF MarkDeletionDone
  <2>2. \A e \in Entries : mem[e] = "live" => (Owns(t, e)' <=> Owns(t, e))
    BY <1>9, GotoType, SMTT(20) DEF MarkDeletionDone, NextJob, Owns, OwnerSteps, OwnInv, OwnedMemory
  <2>3. \A u \in Reclaimers \ {t}, e \in Entries : Owns(u, e)' <=> Owns(u, e)
    BY <1>1 DEF Owns
  <2>4. \A e \in Entries : mem[e] = "live" => (Gone(e)' <=> Gone(e))
    BY <2>1, <2>2, <2>3 DEF Gone
  <2> QED
    BY <1>3, <2>1, <2>4
<1>10. CASE Delete(t)
  <2>1. PICK x \in Entries : x = ent[t]
    BY <1>10 DEF Delete, TypeInv, LocalsOK, OwnerSteps
  <2>2. /\ mem[x] = "gutted" /\ mem' = [mem EXCEPT ![x] = "freed"] /\ deleting' = deleting
        /\ pc[t] = "delete" /\ pc'[t] \in {"store", "idle"}
    BY <1>10, <2>1, GotoType, SMTT(20) DEF Delete, NextJob, OwnInv, OwnedMemory
  <2>3. mem'[x] = "freed" /\ \A e \in Entries \ {x} : mem'[e] = mem[e]
    BY <2>1, <2>2 DEF TypeInv, TypeOK
  <2>4. \A u \in Reclaimers, e \in Entries \ {x} : Owns(u, e)' <=> Owns(u, e)
    BY <1>1, <2>1, <2>2 DEF Owns, OwnerSteps
  <2>5. \A e \in Entries \ {x} : Gone(e)' <=> Gone(e)
    BY <2>2, <2>4 DEF Gone
  <2>6. \A e \in Entries : phaseBar'[e] = phaseBar[e]
    BY <2>2, <2>3, <2>5, PhaseCases DEF TypeInv, TypeOK
  <2>7. phaseBar' = phaseBar
    BY <2>6 DEF phaseBar
  <2> QED
    BY <1>2, <2>7
<1> QED
  BY <1>4, <1>5, <1>6, <1>7, <1>8, <1>9, <1>10 DEF DeleteStep

\* The steps of installers and teardowns: claiming retires what the slot held.
LEMMA ClaimRefines ==
  ASSUME TypeInv, OwnInv, HeldInv, MarkInv, NEW d \in Deleters, DeleterStep(d)
  PROVE  [Safe!Next]_<<phaseBar, holdingBar>>
<1> USE ThreadsAssumption DEF Threads, Reclaimers, entryVars, poolVars
<1>1. CASE DeleteStep(d)
  BY <1>1, DeleteRefines
<1>2. ASSUME mem' = mem, \A u \in Threads \ {d} : pc'[u] = pc[u] /\ ent'[u] = ent[u],
             \A e \in Entries : mem[e] = "live" => (Gone(e)' <=> Gone(e))
      PROVE  UNCHANGED <<phaseBar, holdingBar>>
  <2>1. holdingBar' = holdingBar
    BY <1>2, SameUsers DEF Using
  <2> QED
    BY <1>2, <2>1, SamePhases
<1>3. ASSUME mem' = mem, deleting' = deleting,
             \A u \in Threads \ {d} : pc'[u] = pc[u] /\ ent'[u] = ent[u],
             pc[d] \notin OwnerSteps, pc'[d] \notin OwnerSteps
      PROVE  UNCHANGED <<phaseBar, holdingBar>>
  <2>1. \A e \in Entries : Gone(e)' <=> Gone(e)
    BY <1>3 DEF Gone, Owns
  <2> QED
    BY <1>2, <1>3, <2>1
<1>4. CASE RetryInstall(d) \/ SkipInstall(d)
  BY <1>3, <1>4, GotoType, SMTT(20) DEF RetryInstall, SkipInstall, EndInstall, OwnerSteps
<1>5. CASE LoadForClaim(d)
  BY <1>3, <1>5, GotoType, SMTT(20) DEF LoadForClaim, NextJob, OwnerSteps, TypeInv, TypeOK
<1>6. CASE PreMark(d)
  <2>1. PICK x \in Entries : x = ent[d]
    BY <1>6 DEF PreMark, TypeInv, LocalsOK, OwnerSteps
  <2>2. /\ deleting' = [deleting EXCEPT ![x] = TRUE] /\ mem' = mem
        /\ pc[d] = "premark" /\ pc'[d] = "schedule" /\ ent'[d] = x
        /\ \A u \in Threads \ {d} : pc'[u] = pc[u] /\ ent'[u] = ent[u]
    BY <1>6, <2>1, GotoType, SMTT(20) DEF PreMark
  <2>3. \A e \in Entries \ {x} : deleting'[e] = deleting[e]
    BY <2>1, <2>2 DEF TypeInv, TypeOK
  <2>4. Owns(d, x) /\ \A u \in Reclaimers, e \in Entries : Owns(u, e)' <=> Owns(u, e)
    BY <2>1, <2>2 DEF Owns, OwnerSteps
  <2>5. \A e \in Entries : Gone(e)' <=> Gone(e)
    BY <2>3, <2>4 DEF Gone
  <2> QED
    BY <1>2, <2>2, <2>5
<1>7. CASE Claim(d) /\ slot[at[d]] # ent[d]
  BY <1>3, <1>7, GotoType, SMTT(20) DEF Claim, NextJob, OwnerSteps
<1>8. CASE Claim(d) /\ slot[at[d]] = ent[d]
  <2>1. PICK x \in Entries : x = ent[d]
    BY <1>8 DEF Claim, TypeInv, LocalsOK
  <2>2. at[d] \in Slots /\ pc[d] = "claim"
    BY <1>8 DEF Claim, TypeInv, LocalsOK
  <2>3. mem[x] = "live" /\ ~Gone(x)
    BY <1>8, <2>1, <2>2 DEF OwnInv, SlotClean, Gone, Owns
  <2>4. /\ mem' = mem /\ deleting' = deleting
        /\ pc'[d] \in {"schedule", "premark"} /\ ent'[d] = x
        /\ \A u \in Threads \ {d} : pc'[u] = pc[u] /\ ent'[u] = ent[u]
    BY <1>8, <2>1, GotoType, SMTT(20) DEF Claim
  <2>5. /\ \A u \in Reclaimers \ {d}, e \in Entries : Owns(u, e)' <=> Owns(u, e)
        /\ \A e \in Entries \ {x} : Owns(d, e)' <=> Owns(d, e)
        /\ Owns(d, x)'
    BY <2>1, <2>2, <2>4 DEF Owns, OwnerSteps
  <2>6. Gone(x)' /\ \A e \in Entries \ {x} : Gone(e)' <=> Gone(e)
    BY <2>4, <2>5 DEF Gone
  <2>7. phaseBar[x] = "published" /\ phaseBar'[x] = "retired"
    BY <2>3, <2>4, <2>6, PhaseCases
  <2>8. \A e \in Entries \ {x} : phaseBar'[e] = phaseBar[e]
    BY <2>4, <2>6, PhaseCases DEF TypeInv, TypeOK
  <2>9. phaseBar' = [phaseBar EXCEPT ![x] = "retired"]
    BY <2>7, <2>8 DEF phaseBar
  <2>10. holdingBar' = holdingBar
    BY <2>4, SameUsers DEF Using
  <2> QED
    BY <2>7, <2>9, <2>10 DEF Safe!Next, Safe!Retire
<1> QED
  BY <1>1, <1>4, <1>5, <1>6, <1>7, <1>8 DEF DeleterStep

\* A new entry is published, in new memory or in memory that nobody uses.
LEMMA InstallRefines ==
  ASSUME TypeInv, OwnInv, HeldInv, NEW d \in Deleters, NEW x \in Entries, Install(d, x)
  PROVE  [Safe!Next]_<<phaseBar, holdingBar>>
<1> USE ThreadsAssumption DEF Threads, Reclaimers, entryVars, poolVars
<1>1. /\ mem[x] \in {"unborn", "freed"} /\ mem' = [mem EXCEPT ![x] = "live"]
      /\ deleting' = [deleting EXCEPT ![x] = FALSE]
  BY DEF Install
<1>2. /\ \A u \in Threads \ {d} : pc'[u] = pc[u] /\ ent'[u] = ent[u]
      /\ pc[d] = "store" /\ pc'[d] = "idle"
  BY GotoType DEF Install, EndInstall
<1>3. /\ mem'[x] = "live" /\ ~deleting'[x]
      /\ \A e \in Entries \ {x} : mem'[e] = mem[e] /\ deleting'[e] = deleting[e]
  BY <1>1 DEF TypeInv, TypeOK
<1>4. /\ \A t \in Reclaimers : ~Owns(t, x)
      /\ \A r \in Readers : holdingBar[r] # x
  BY <1>1 DEF OwnInv, OwnedMemory, OwnerSteps, Owns, HeldInv, UserInv, holdingBar
<1>5. \A u \in Reclaimers, e \in Entries : Owns(u, e)' <=> Owns(u, e)
  BY <1>2 DEF Owns, OwnerSteps
<1>6. ~Gone(x)' /\ \A e \in Entries \ {x} : Gone(e)' <=> Gone(e)
  BY <1>3, <1>4, <1>5 DEF Gone, Owns
<1>7. phaseBar[x] \in {"new", "reclaimed"} /\ phaseBar'[x] = "published"
  BY <1>1, <1>3, <1>6, PhaseCases
<1>8. \A e \in Entries \ {x} : phaseBar'[e] = phaseBar[e]
  BY <1>3, <1>6, PhaseCases DEF TypeInv, TypeOK
<1>9. phaseBar' = [phaseBar EXCEPT ![x] = "published"]
  BY <1>7, <1>8 DEF phaseBar
<1>10. holdingBar' = holdingBar
  BY <1>2, SameUsers DEF Using
<1> QED
  BY <1>4, <1>7, <1>9, <1>10 DEF Safe!Next, Safe!Publish

\* What the lifetime control promises holds for every number of threads, slots and
\* entries: an entry is published once, used only if got while published, retired
\* once, and given back only when nobody uses it, until an address is handed out
\* that a reader has pinned.
THEOREM ReclaimIsSafe == Spec => SafeSpec
<1>1. Init => Safe!Init /\ MarkInv
  <2> SUFFICES ASSUME Init PROVE Safe!Init /\ MarkInv
    OBVIOUS
  <2>1. \A e \in Entries : phaseBar[e] = "new"
    BY PhaseCases DEF Init
  <2>2. phaseBar \in [Entries -> {"new", "published"}]
    BY <2>1 DEF phaseBar
  <2>3. holdingBar = [r \in Readers |-> NULL]
    BY DEF holdingBar, Using, Init, Threads
  <2>4. MarkInv
    BY DEF Init, MarkInv, Threads, Reclaimers
  <2> QED
    BY <2>2, <2>3, <2>4 DEF Safe!Init
<1>2. TypeInv /\ OwnInv /\ (overtaken \/ HeldInv) /\ MarkInv /\ [Next]_vars
        => [overtaken' \/ Safe!Next]_<<phaseBar, holdingBar>>
  <2> SUFFICES ASSUME TypeInv, OwnInv, HeldInv, MarkInv, [Next]_vars
               PROVE  [Safe!Next]_<<phaseBar, holdingBar>>
    BY OvertakenStays
  <2>1. ASSUME NEW d \in Deleters, NEW s \in Slots, StartInstall(d, s) \/ StartUnreserve(d, s)
        PROVE UNCHANGED <<phaseBar, holdingBar>>
    <3>1. /\ UNCHANGED <<mem, deleting, ent>> /\ pc[d] = "idle" /\ pc'[d] \in {"load", "retry"}
          /\ \A u \in Threads \ {d} : pc'[u] = pc[u]
      BY <2>1 DEF StartInstall, StartUnreserve, TypeInv, TypeOK, entryVars, poolVars, Threads
    <3>2. \A e \in Entries : Gone(e)' <=> Gone(e)
      BY <3>1 DEF Gone, Owns, OwnerSteps, Threads, Reclaimers
    <3>3. holdingBar' = holdingBar
      BY <3>1, ThreadsAssumption, SameUsers DEF Using, Threads
    <3> QED
      BY <3>1, <3>2, <3>3, SamePhases
  <2>2. ASSUME NEW w \in Workers, NEW x \in Entries, StartWorker(w, x)
        PROVE UNCHANGED <<phaseBar, holdingBar>>
    <3>1. /\ UNCHANGED <<mem, deleting>> /\ pc[w] = "idle" /\ ent'[w] = x /\ deleting[x]
          /\ \A u \in Threads \ {w} : pc'[u] = pc[u] /\ ent'[u] = ent[u]
      BY <2>2 DEF StartWorker, TypeInv, TypeOK, MarkInv, entryVars, Threads
    <3>2. \A e \in Entries : (Owns(w, e)' <=> Owns(w, e)) \/ deleting[e]
      BY <3>1 DEF Owns, OwnerSteps
    <3>3. \A e \in Entries : Gone(e)' <=> Gone(e)
      BY <3>1, <3>2, SameGone DEF Threads, Reclaimers
    <3>4. holdingBar' = holdingBar
      BY <3>1, ThreadsAssumption, SameUsers DEF Using, Threads
    <3> QED
      BY <3>1, <3>3, <3>4, SamePhases
  <2>3. CASE UNCHANGED vars
    <3>1. \A e \in Entries : Gone(e)' <=> Gone(e)
      BY <2>3 DEF vars, entryVars, Gone, Owns
    <3>2. holdingBar' = holdingBar
      BY <2>3, SameUsers DEF vars, Using
    <3>3. mem' = mem
      BY <2>3 DEF vars, entryVars
    <3> QED
      BY <3>1, <3>2, <3>3, SamePhases
  <2>4. ASSUME NEW t \in Workers, DeleteStep(t) PROVE [Safe!Next]_<<phaseBar, holdingBar>>
    BY <2>4, DeleteRefines DEF Reclaimers
  <2>5. ASSUME NEW d \in Deleters, DeleterStep(d) PROVE [Safe!Next]_<<phaseBar, holdingBar>>
    BY <2>5, ClaimRefines
  <2>6. ASSUME NEW d \in Deleters, NEW x \in Entries, Install(d, x)
        PROVE [Safe!Next]_<<phaseBar, holdingBar>>
    BY <2>6, InstallRefines
  <2>7. ASSUME NEW r \in Readers, ReaderStep(r) \/ \E s \in Slots : LoadElt(r, s)
        PROVE [Safe!Next]_<<phaseBar, holdingBar>>
    BY <2>7, ReaderRefines
  <2> QED
    BY <2>1, <2>2, <2>3, <2>4, <2>5, <2>6, <2>7 DEF Next
<1>3. TypeInv /\ OwnInv /\ MarkInv /\ [Next]_vars => MarkInv'
  BY MarkInductive
<1> QED
  BY <1>1, <1>2, <1>3, HeldKept, TypesKept, WithoutCopies, Ownership, PTL
  DEF Spec, SafeSpec
=============================================================================
