----------------------- MODULE InstanceLifecycleProofs -----------------------
(***************************************************************************)
(* Theorems about InstanceLifecycle: the call guard's counter is exact, and *)
(* a call that was counted in time is waited for.                          *)
(***************************************************************************)
EXTENDS InstanceLifecycle, FiniteSetTheorems, TLAPS

CallPcs == {"idle", "pick", "check", "count"} \cup CountedPcs

\* Where the calls are, and what their counts add up to.
CountInv ==
  /\ pc \in [Calls -> CallPcs]
  /\ bound = [c \in Calls |-> bound[c]]
  /\ activeCalls \in [Data -> Nat]
  /\ CallsCounted

\* Sets of calls are finite.
LEMMA CountedFinite ==
  ASSUME NEW d PROVE IsFiniteSet(Counted(d)) /\ Cardinality(Counted(d)) \in Nat
<1>1. Counted(d) \subseteq Calls
  BY DEF Counted
<1> QED
  BY <1>1, InstanceAssumption, FS_Subset, FS_CardinalityType

\* A step that counts and releases no call.
LEMMA SameCounts ==
  ASSUME CountInv, activeCalls' = activeCalls,
         pc' \in [Calls -> CallPcs], bound' = [c \in Calls |-> bound'[c]],
         \A c \in Calls, d \in Data :
           (pc'[c] \in CountedPcs /\ bound'[c] = d) <=> (pc[c] \in CountedPcs /\ bound[c] = d)
  PROVE  CountInv'
<1>1. ASSUME NEW d \in Data PROVE Counted(d)' = Counted(d)
  BY DEF Counted
<1> QED
  BY <1>1 DEF CountInv, CallsCounted

\* The guard's increment adds one call to those of one instance.
LEMMA CountCallCounts ==
  ASSUME CountInv, NEW c \in Calls, CountCall(c)
  PROVE  CountInv'
<1>1. /\ pc[c] = "count" /\ pc' = [pc EXCEPT ![c] = "setup"] /\ bound' = bound
      /\ activeCalls' = [activeCalls EXCEPT ![bound[c]] = @ + 1]
  BY DEF CountCall
<1>2. ASSUME NEW d \in Data, d # bound[c] PROVE Counted(d)' = Counted(d)
  BY <1>1, <1>2 DEF Counted, CountInv
<1>3. ASSUME NEW d \in Data, d = bound[c]
      PROVE  Counted(d)' = Counted(d) \cup {c} /\ c \notin Counted(d)
  BY <1>1, <1>3 DEF Counted, CountInv, CallPcs, CountedPcs
<1>4. ASSUME NEW d \in Data PROVE activeCalls'[d] = Cardinality(Counted(d)')
  <2>1. CASE d = bound[c]
    <3>1. Cardinality(Counted(d)') = Cardinality(Counted(d)) + 1
      BY <1>3, <2>1, CountedFinite, FS_AddElement
    <3> QED
      BY <1>1, <2>1, <3>1 DEF CountInv, CallsCounted
  <2>2. CASE d # bound[c]
    BY <1>1, <1>2, <2>2 DEF CountInv, CallsCounted
  <2> QED
    BY <2>1, <2>2
<1>5. activeCalls' \in [Data -> Nat]
  <2>1. CASE bound[c] \in Data
    BY <1>1, <2>1 DEF CountInv
  <2>2. CASE bound[c] \notin Data
    <3>1. activeCalls' = activeCalls
      BY <1>1, <2>2 DEF CountInv
    <3> QED
      BY <3>1 DEF CountInv
  <2> QED
    BY <2>1, <2>2
<1>6. pc' \in [Calls -> CallPcs]
  BY <1>1 DEF CountInv, CallPcs, CountedPcs
<1>7. bound' = [k \in Calls |-> bound'[k]]
  BY <1>1 DEF CountInv
<1> QED
  BY <1>4, <1>5, <1>6, <1>7 DEF CountInv, CallsCounted

\* The guard's destructor takes the same call away again.
LEMMA ExitCounts ==
  ASSUME CountInv, NEW c \in Calls, Exit(c)
  PROVE  CountInv'
<1>1. /\ pc[c] = "exit" /\ pc' = [pc EXCEPT ![c] = "idle"]
      /\ bound' = [bound EXCEPT ![c] = None]
      /\ activeCalls' = IF bound[c] = None THEN activeCalls
                        ELSE [activeCalls EXCEPT ![bound[c]] = @ - 1]
  BY DEF Exit, Return
<1>0. pc'[c] = "idle" /\ \A k \in Calls \ {c} : pc'[k] = pc[k] /\ bound'[k] = bound[k]
  BY <1>1 DEF CountInv
<1>2. ASSUME NEW d \in Data, d # bound[c] PROVE Counted(d)' = Counted(d)
  BY <1>0, <1>2 DEF Counted, CountedPcs
<1>3. ASSUME NEW d \in Data, d = bound[c]
      PROVE  Counted(d)' = Counted(d) \ {c} /\ c \in Counted(d)
  BY <1>0, <1>1, <1>3 DEF Counted, CountedPcs
<1>4. ASSUME NEW d \in Data
      PROVE  activeCalls'[d] = Cardinality(Counted(d)') /\ activeCalls'[d] \in Nat
  <2>1. CASE d = bound[c]
    <3>1. Cardinality(Counted(d)') = Cardinality(Counted(d)) - 1
      BY <1>3, <2>1, CountedFinite, FS_RemoveElement
    <3>2. Cardinality(Counted(d)') \in Nat
      BY <1>3, <2>1, CountedFinite, FS_RemoveElement, FS_CardinalityType
    <3>3. activeCalls'[d] = activeCalls[d] - 1
      BY <1>1, <2>1, InstanceAssumption DEF CountInv
    <3> QED
      BY <3>1, <3>2, <3>3 DEF CountInv, CallsCounted
  <2>2. CASE d # bound[c]
    BY <1>1, <1>2, <2>2 DEF CountInv, CallsCounted
  <2> QED
    BY <2>1, <2>2
<1>5. activeCalls' \in [Data -> Nat]
  <2>1. activeCalls' = [d \in Data |-> activeCalls'[d]]
    BY <1>1 DEF CountInv
  <2> QED
    BY <1>4, <2>1
<1>6. pc' \in [Calls -> CallPcs] /\ bound' = [k \in Calls |-> bound'[k]]
  BY <1>1 DEF CountInv, CallPcs, CountedPcs
<1> QED
  BY <1>4, <1>5, <1>6 DEF CountInv, CallsCounted

\* The counts are right in every reachable state.
THEOREM CountsInductive == Spec => []CountInv
<1>1. Init => CountInv
  <2> SUFFICES ASSUME Init PROVE CountInv
    OBVIOUS
  <2>1. ASSUME NEW d \in Data PROVE Counted(d) = {}
    BY DEF Init, Counted, CountedPcs
  <2> QED
    BY <2>1, FS_EmptySet DEF Init, CountInv, CallsCounted, CallPcs
<1>2. CountInv /\ [Next]_vars => CountInv'
  <2> SUFFICES ASSUME CountInv, [Next]_vars PROVE CountInv'
    OBVIOUS
  <2>1. ASSUME NEW v \in VIs, ReserveStep(v) \/ Unreserve(v) \/ UnreserveStep(v) PROVE CountInv'
    <3>1. UNCHANGED <<activeCalls, pc, bound>>
      BY <2>1 DEF ReserveStep, Reserve, Push, Unreserve, UnreserveStep, EarlyExit, Signal, WaitCalls,
                  CleanArrays, UnregisterArrays, Erase, Delete, ClearPointer, call
    <3> QED
      BY <3>1, SameCounts DEF CountInv
  <2>2. ASSUME NEW c \in Calls, Resolve(c) \/ Pick(c) PROVE CountInv'
    <3>1. /\ pc[c] \in {"idle", "pick"} /\ activeCalls' = activeCalls
          /\ \E p \in {"pick", "check", "setup"} : pc' = [pc EXCEPT ![c] = p]
      BY <2>2 DEF Resolve, Pick
    <3>2. /\ \E d : bound' = [bound EXCEPT ![c] = d]
          /\ pc'[c] \in CountedPcs => bound'[c] = None
      BY <2>2, <3>1 DEF Resolve, Pick, CountInv, CountedPcs
    <3>3. pc' \in [Calls -> CallPcs] /\ bound' = [k \in Calls |-> bound'[k]]
      BY <3>1, <3>2 DEF CountInv, CallPcs, CountedPcs
    <3>4. ASSUME NEW k \in Calls, NEW d \in Data
          PROVE  (pc'[k] \in CountedPcs /\ bound'[k] = d) <=> (pc[k] \in CountedPcs /\ bound[k] = d)
      BY <3>1, <3>2, InstanceAssumption DEF CountInv, CountedPcs
    <3> QED
      BY <3>1, <3>3, <3>4, SameCounts
  <2>3. ASSUME NEW c \in Calls, CheckGuard(c) PROVE CountInv'
    <3>1. /\ pc[c] = "check" /\ activeCalls' = activeCalls
          /\ \E p \in {"idle", "count"} : pc' = [pc EXCEPT ![c] = p]
          /\ bound' = bound \/ bound' = [bound EXCEPT ![c] = None]
      BY <2>3 DEF CheckGuard, Return, call
    <3>2. /\ pc' \in [Calls -> CallPcs]
          /\ bound' = [k \in Calls |-> bound'[k]]
      BY <3>1 DEF CountInv, CallPcs, CountedPcs
    <3>3. ASSUME NEW k \in Calls, NEW d \in Data
          PROVE  (pc'[k] \in CountedPcs /\ bound'[k] = d) <=> (pc[k] \in CountedPcs /\ bound[k] = d)
      BY <3>1 DEF CountInv, CountedPcs
    <3> QED
      BY <3>1, <3>2, <3>3, SameCounts
  <2>4. ASSUME NEW c \in Calls, Setup(c) \/ Rebind(c) \/ BindResolve(c) \/ BindStore(c)
        PROVE  CountInv'
    <3>1. /\ pc[c] \in CountedPcs /\ activeCalls' = activeCalls /\ bound' = bound
          /\ \E p \in CountedPcs : pc' = [pc EXCEPT ![c] = p]
      BY <2>4 DEF Setup, Rebind, BindResolve, BindStore, call, CountedPcs
    <3>2. /\ pc' \in [Calls -> CallPcs]
          /\ bound' = [k \in Calls |-> bound'[k]]
      BY <3>1 DEF CountInv, CallPcs
    <3>3. ASSUME NEW k \in Calls, NEW d \in Data
          PROVE  (pc'[k] \in CountedPcs /\ bound'[k] = d) <=> (pc[k] \in CountedPcs /\ bound[k] = d)
      BY <3>1 DEF CountInv
    <3> QED
      BY <3>1, <3>2, <3>3, SameCounts
  <2>5. CASE UNCHANGED vars
    BY <2>5, SameCounts DEF vars, call, CountInv
  <2> QED
    BY <2>1, <2>2, <2>3, <2>4, <2>5, CountCallCounts, ExitCounts DEF Next, CallStep
<1> QED
  BY <1>1, <1>2, PTL DEF Spec

\* activeCalls is exact: for any number of VIs, instances and calls it is the number
\* of the calls whose guard counts the instance (_CallGuard in getValue and putValue).
THEOREM GuardCounts == Spec => []CallsCounted
<1>1. CountInv => CallsCounted
  BY DEF CountInv
<1> QED
  BY <1>1, CountsInductive, PTL

-----------------------------------------------------------------------------
(* What the wait of unreserved is worth.                                   *)

\* The flag of d is up, and no counted call relies on d any more.
Quiet(d) == isUnreserving[d] /\ \A c \in Counted(d) : excused[c]

AfterWait == {"clean", "unregister", "erase", "delete", "clear"}

\* From the end of the wait on the instance is quiet, and it stays so.
PinInv ==
  /\ upc \in [VIs -> {"out", "push", "in", "early", "signal", "wait"} \cup AfterWait]
  /\ ptr \in [VIs -> Data \cup {None}]
  /\ mem \in [Data -> {"unused", "live", "early", "gone"}]
  /\ isUnreserving \in [Data -> BOOLEAN]
  /\ excused = [c \in Calls |-> excused[c]]
  /\ \A v \in VIs : upc[v] \notin {"out"} => ptr[v] \in Data
  /\ \A v \in VIs : upc[v] = "wait" => isUnreserving[ptr[v]]
  /\ \A v \in VIs : upc[v] \in AfterWait => Quiet(ptr[v])
  /\ \A d \in Data : mem[d] = "gone" => Quiet(d)

\* An instance stays quiet as long as a call that counts itself is excused.
LEMMA StaysQuiet ==
  ASSUME NEW d \in Data, Quiet(d), isUnreserving'[d] = isUnreserving[d],
         \A c \in Calls : pc'[c] \in CountedPcs /\ bound'[c] = d =>
            \/ pc[c] \in CountedPcs /\ bound[c] = d /\ (excused[c] => excused'[c])
            \/ excused'[c]
  PROVE  Quiet(d)'
BY DEF Quiet, Counted

\* No step of a call disturbs a quiet instance.
LEMMA CallsKeepQuiet ==
  ASSUME CountInv, PinInv, NEW c \in Calls, Resolve(c) \/ Pick(c) \/ CallStep(c)
  PROVE  PinInv'
<1>1. UNCHANGED <<upc, ptr, mem, isUnreserving>>
  BY DEF Resolve, Pick, CallStep, CheckGuard, CountCall, Setup, Rebind, BindResolve, BindStore, Exit,
         Return, data
<1>2. excused' = excused \/ \E x : excused' = [excused EXCEPT ![c] = x]
  BY DEF Resolve, Pick, CallStep, CheckGuard, CountCall, Setup, Rebind, BindResolve, BindStore,
         Exit, Return, call
<1>3. excused' = [k \in Calls |-> excused'[k]] /\ \A k \in Calls \ {c} : excused'[k] = excused[k]
  BY <1>2 DEF PinInv
<1>4. \A k \in Calls \ {c} : pc'[k] = pc[k] /\ bound'[k] = bound[k]
  BY DEF Resolve, Pick, CallStep, CheckGuard, CountCall, Setup, Rebind, BindResolve, BindStore, Exit,
         Return, call, CountInv
<1>5. ASSUME NEW d \in Data, Quiet(d) PROVE Quiet(d)'
  <2>1. CASE CountCall(c)
    <3>1. bound[c] = d => excused'[c]
      BY <1>5, <2>1 DEF CountCall, Quiet, PinInv
    <3>2. bound'[c] = bound[c]
      BY <2>1 DEF CountCall
    <3> QED
      BY <1>1, <1>3, <1>4, <1>5, <3>1, <3>2, StaysQuiet
  <2>2. CASE Resolve(c) \/ Pick(c)
    <3>1. pc'[c] \in CountedPcs => bound'[c] # d
      BY <2>2, InstanceAssumption DEF Resolve, Pick, CountInv, CountedPcs
    <3> QED
      BY <1>1, <1>3, <1>4, <1>5, <3>1, StaysQuiet
  <2>3. CASE CheckGuard(c) \/ Exit(c)
    <3>1. pc'[c] \notin CountedPcs
      BY <2>3 DEF CheckGuard, Exit, Return, CountInv, CountedPcs
    <3> QED
      BY <1>1, <1>3, <1>4, <1>5, <3>1, StaysQuiet
  <2>4. CASE Setup(c) \/ Rebind(c) \/ BindResolve(c) \/ BindStore(c)
    <3>1. pc[c] \in CountedPcs /\ bound'[c] = bound[c] /\ excused'[c] = excused[c]
      BY <2>4 DEF Setup, Rebind, BindResolve, BindStore, call, CountedPcs
    <3> QED
      BY <1>1, <1>3, <1>4, <1>5, <3>1, StaysQuiet
  <2> QED
    BY <2>1, <2>2, <2>3, <2>4 DEF CallStep
<1> QED
  BY <1>1, <1>3, <1>5 DEF PinInv, AfterWait

\* The steps of reserved and unreserved: the wait makes the instance quiet, before
\* it is deleted.
LEMMA VIsKeepQuiet ==
  ASSUME CountInv, PinInv, NEW v \in VIs, ReserveStep(v) \/ Unreserve(v) \/ UnreserveStep(v)
  PROVE  PinInv'
<1>1. UNCHANGED <<pc, bound>>
  BY DEF ReserveStep, Reserve, Push, Unreserve, UnreserveStep, EarlyExit, Signal, WaitCalls,
         CleanArrays, UnregisterArrays, Erase, Delete, ClearPointer, call
<1>2. \A c \in Calls : excused[c] => excused'[c]
  BY DEF ReserveStep, Reserve, Push, Unreserve, UnreserveStep, EarlyExit, Signal, WaitCalls,
         CleanArrays, UnregisterArrays, Erase, Delete, ClearPointer, call
<1>3. \A d \in Data : isUnreserving[d] => isUnreserving'[d] = isUnreserving[d]
  <2>1. isUnreserving' = isUnreserving \/ isUnreserving' = [isUnreserving EXCEPT ![ptr[v]] = TRUE]
    BY DEF ReserveStep, Reserve, Push, Unreserve, UnreserveStep, EarlyExit, Signal, WaitCalls, data,
           CleanArrays, UnregisterArrays, Erase, Delete, ClearPointer
  <2> QED
    BY <2>1 DEF PinInv
<1>4. ASSUME NEW d \in Data, Quiet(d) PROVE Quiet(d)'
  <2>1. isUnreserving'[d] = isUnreserving[d]
    BY <1>3, <1>4 DEF Quiet
  <2> QED
    BY <1>1, <1>2, <1>4, <2>1, StaysQuiet
<1> USE DEF PinInv, AfterWait, data
<1>5. CASE Reserve(v)
  <2>1. PICK d \in Data : /\ mem' = [mem EXCEPT ![d] = "live"] /\ ptr' = [ptr EXCEPT ![v] = d]
                          /\ upc' = [upc EXCEPT ![v] = "push"]
                          /\ UNCHANGED <<isUnreserving, excused>>
    BY <1>5 DEF Reserve, call
  <2> QED
    BY <1>4, <2>1
<1>6. CASE Push(v) \/ Unreserve(v) \/ CleanArrays(v) \/ UnregisterArrays(v) \/ Erase(v)
  <2>1. UNCHANGED <<mem, ptr, isUnreserving, excused>>
    BY <1>6 DEF Push, Unreserve, CleanArrays, UnregisterArrays, Erase, call
  <2>2. \E q \in {"in", "early", "signal"} \cup AfterWait :
          /\ upc' = [upc EXCEPT ![v] = q] /\ upc[v] # "out"
          /\ q \in AfterWait => upc[v] \in AfterWait
    <3>1. CASE Push(v)
      BY <3>1 DEF Push
    <3>2. CASE Unreserve(v) /\ fn[ptr[v]] = ""
      <4>1. upc' = [upc EXCEPT ![v] = "early"] /\ upc[v] = "in"
        BY <3>2 DEF Unreserve
      <4> QED
        BY <4>1
    <3>3. CASE Unreserve(v) /\ fn[ptr[v]] # ""
      <4>1. upc' = [upc EXCEPT ![v] = "signal"] /\ upc[v] = "in"
        BY <3>3 DEF Unreserve
      <4> QED
        BY <4>1
    <3>4. CASE CleanArrays(v) \/ UnregisterArrays(v) \/ Erase(v)
      BY <3>4 DEF CleanArrays, UnregisterArrays, Erase
    <3> QED
      BY <1>6, <3>1, <3>2, <3>3, <3>4
  <2> QED
    BY <1>4, <2>1, <2>2
<1>7. CASE EarlyExit(v) \/ ClearPointer(v)
  <2>1. /\ upc' = [upc EXCEPT ![v] = "out"] /\ ptr' = [ptr EXCEPT ![v] = None]
        /\ mem' = mem \/ mem' = [mem EXCEPT ![ptr[v]] = "early"]
        /\ UNCHANGED <<isUnreserving, excused>>
    BY <1>7 DEF EarlyExit, ClearPointer, call
  <2> QED
    BY <1>4, <2>1
<1>8. CASE Signal(v)
  <2>1. /\ upc[v] = "signal" /\ upc' = [upc EXCEPT ![v] = "wait"]
        /\ isUnreserving' = [isUnreserving EXCEPT ![ptr[v]] = TRUE]
        /\ UNCHANGED <<mem, ptr, excused>>
    BY <1>8 DEF Signal, call
  <2> QED
    BY <1>4, <2>1
<1>9. CASE WaitCalls(v)
  <2>1. /\ upc[v] = "wait" /\ upc' = [upc EXCEPT ![v] = "clean"] /\ ptr[v] \in Data
        /\ UNCHANGED <<mem, ptr, isUnreserving>>
        /\ excused' = [c \in Calls |-> excused'[c]]
    BY <1>9 DEF WaitCalls
  <2>2. Counted(ptr[v])' = Counted(ptr[v])
    BY <1>1, <2>1 DEF Counted
  <2>3. \A c \in Counted(ptr[v]) : excused'[c]
    <3>1. CASE activeCalls[ptr[v]] = 0
      <4>1. Cardinality(Counted(ptr[v])) = 0
        BY <2>1, <3>1 DEF CountInv, CallsCounted
      <4> QED
        BY <4>1, CountedFinite, FS_EmptySet
    <3>2. CASE activeCalls[ptr[v]] # 0
      BY <1>9, <3>2 DEF WaitCalls, Counted
    <3> QED
      BY <3>1, <3>2
  <2>4. Quiet(ptr[v])'
    BY <2>1, <2>2, <2>3 DEF Quiet
  <2> QED
    BY <1>4, <2>1, <2>4
<1>10. CASE Delete(v)
  <2>1. /\ upc[v] = "delete" /\ upc' = [upc EXCEPT ![v] = "clear"]
        /\ mem' = [mem EXCEPT ![ptr[v]] = "gone"]
        /\ UNCHANGED <<ptr, isUnreserving, excused>>
    BY <1>10 DEF Delete, call
  <2>2. ptr[v] \in Data /\ Quiet(ptr[v])
    BY <2>1
  <2> QED
    BY <1>4, <2>1, <2>2
<1> QED
  BY <1>5, <1>6, <1>7, <1>8, <1>9, <1>10 DEF ReserveStep, UnreserveStep

\* A call is on an instance that unreserved has deleted only if it was excused: its
\* flag was set between the guard's test and its count, or the call outlasted the
\* deadline.  Every other call is waited for.
THEOREM CountedPinned == Spec => []CountedIsPinned
<1>1. Init => PinInv
  <2> SUFFICES ASSUME Init PROVE PinInv
    OBVIOUS
  <2>1. /\ upc \in [VIs -> {"out", "push", "in", "early", "signal", "wait"} \cup AfterWait]
        /\ ptr \in [VIs -> Data \cup {None}]
        /\ mem \in [Data -> {"unused", "live", "early", "gone"}]
        /\ isUnreserving \in [Data -> BOOLEAN]
    BY DEF Init
  <2>2. excused = [c \in Calls |-> excused[c]]
    BY DEF Init
  <2>3. /\ \A v \in VIs : upc[v] = "out"
        /\ \A d \in Data : mem[d] = "unused"
    BY DEF Init
  <2> QED
    BY <2>1, <2>2, <2>3 DEF PinInv, AfterWait
<1>2. CountInv /\ PinInv /\ [Next]_vars => PinInv'
  <2>1. ASSUME CountInv, PinInv, UNCHANGED vars PROVE PinInv'
    BY <2>1 DEF vars, data, call, PinInv, AfterWait, Quiet, Counted
  <2> QED
    BY <2>1, CallsKeepQuiet, VIsKeepQuiet DEF Next
<1>3. PinInv => CountedIsPinned
  BY DEF PinInv, Quiet, CountedIsPinned
<1> QED
  BY <1>1, <1>2, <1>3, CountsInductive, PTL DEF Spec
=============================================================================
