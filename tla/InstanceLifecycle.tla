------------------------- MODULE InstanceLifecycle -------------------------
(***************************************************************************)
(* The instances LabVIEW reserves for the VIs (reserved, unreserved and    *)
(* aborted in calab.cpp), the calls of getValue and putValue that bind to  *)
(* one of them and are counted in its activeCalls, and the map from the    *)
(* LabVIEW arrays to the instances (globals.cpp).                          *)
(*                                                                         *)
(* A VI owns one InstanceDataPtr, which holds a new MyInstanceData each    *)
(* time the VI is reserved, and one PvIndexArray.  A call finds the        *)
(* instance by the array, or takes one from the list.                      *)
(***************************************************************************)
EXTENDS Naturals, Sequences, SequencesExt, FiniteSets

CONSTANTS VIs,       \* VIs that call the library
          Calls,     \* threads in which LabVIEW calls it
          Data,      \* addresses of MyInstanceData, each used once
          None,      \* nullptr
          Ops,       \* the functions that are called
          Timeouts   \* may the timed locks on pvRegistryLock time out?

ASSUME InstanceAssumption ==
  /\ None \notin VIs \cup Calls \cup Data
  /\ VIs \cap Calls = {}
  /\ IsFiniteSet(Calls)
  /\ Ops \subseteq {"getValue", "putValue"}
  /\ Timeouts \in BOOLEAN

VARIABLES instances,     \* Globals::instances
          ptr,           \* per VI: *instanceState
          mem,           \* per address: what became of the MyInstanceData
          fn,            \* MyInstanceData::firstFunctionName
          arr,           \* MyInstanceData::PvIndexArray, named by its VI
          isUnreserving,
          activeCalls,
          map,           \* Globals::arrayToInstanceMap
          has,           \* has the VI got a PvIndexArray?
          holder,        \* who holds instancesMutex
          upc,           \* per VI: the next step of reserved and unreserved
          pc, op, home,  \* per call: next step, function, calling VI
          owner, bound,  \* per call: ownerPtr, boundInstance or instanceData
          excused        \* per call: unreserved does not wait for it, because its
                         \* flag was set before the count or its deadline passed

data == <<instances, ptr, mem, fn, arr, isUnreserving, map, has>>
call == <<op, home, owner, bound, excused>>
vars == <<data, activeCalls, holder, upc, pc, call>>

Init ==
  /\ instances = <<>>
  /\ ptr = [v \in VIs |-> None]
  /\ mem = [d \in Data |-> "unused"]
  /\ fn = [d \in Data |-> ""]
  /\ arr = [d \in Data |-> None]
  /\ isUnreserving = [d \in Data |-> FALSE]
  /\ activeCalls = [d \in Data |-> 0]
  /\ map = [a \in VIs |-> None]
  /\ has = [a \in VIs |-> FALSE]
  /\ holder = None
  /\ upc = [v \in VIs |-> "out"]
  /\ pc = [c \in Calls |-> "idle"]
  /\ op = [c \in Calls |-> None]
  /\ home = [c \in Calls |-> None]
  /\ owner = [c \in Calls |-> None]
  /\ bound = [c \in Calls |-> None]
  /\ excused = [c \in Calls |-> FALSE]

-----------------------------------------------------------------------------
(* The array map: every access takes pvRegistryLock with a timeout.        *)

\* getInstanceForArray: nothing when the lock times out.
LookupResults(a) == {map[a]} \cup (IF Timeouts THEN {None} ELSE {})

\* registerArrayToInstance.
Register(a, v) == map' = [map EXCEPT ![a] = v] \/ (Timeouts /\ map' = map)

\* unregisterArraysForInstance.
Unregister(v) ==
  \/ map' = [a \in VIs |-> IF map[a] = v THEN None ELSE map[a]]
  \/ Timeouts /\ map' = map

-----------------------------------------------------------------------------
(* reserved and unreserved                                                 *)

Reserve(v) ==
  /\ upc[v] = "out"
  /\ \E d \in Data : /\ mem[d] = "unused"
                     /\ mem' = [mem EXCEPT ![d] = "live"]
                     /\ ptr' = [ptr EXCEPT ![v] = d]
  /\ upc' = [upc EXCEPT ![v] = "push"]
  /\ UNCHANGED <<instances, fn, arr, isUnreserving, map, has, activeCalls, holder, pc, call>>

Push(v) ==
  /\ upc[v] = "push" /\ holder = None
  /\ instances' = Append(instances, v)
  /\ upc' = [upc EXCEPT ![v] = "in"]
  /\ UNCHANGED <<ptr, mem, fn, arr, isUnreserving, map, has, activeCalls, holder, pc, call>>

\* The test for an unused instance, without instancesMutex.
Unreserve(v) ==
  /\ upc[v] = "in"
  /\ upc' = [upc EXCEPT ![v] = IF fn[ptr[v]] = "" THEN "early" ELSE "signal"]
  /\ UNCHANGED <<data, activeCalls, holder, pc, call>>

Unlisted(v) == SelectSeq(instances, LAMBDA w : w # v)

\* Mutant: the unused instance stays in the list.
EarlyExitListed(v) ==
  /\ upc[v] = "early" /\ holder = None
  /\ mem' = [mem EXCEPT ![ptr[v]] = "early"]
  /\ ptr' = [ptr EXCEPT ![v] = None]
  /\ upc' = [upc EXCEPT ![v] = "out"]
  /\ UNCHANGED <<instances, fn, arr, isUnreserving, map, has, activeCalls, holder, pc, call>>

\* The early exit: erase, delete and clear the pointer in one lock.
EarlyExit(v) ==
  /\ upc[v] = "early" /\ holder = None
  /\ instances' = Unlisted(v)
  /\ mem' = [mem EXCEPT ![ptr[v]] = "early"]
  /\ ptr' = [ptr EXCEPT ![v] = None]
  /\ upc' = [upc EXCEPT ![v] = "out"]
  /\ UNCHANGED <<fn, arr, isUnreserving, map, has, activeCalls, holder, pc, call>>

Signal(v) ==
  /\ upc[v] = "signal"
  /\ isUnreserving' = [isUnreserving EXCEPT ![ptr[v]] = TRUE]
  /\ upc' = [upc EXCEPT ![v] = "wait"]
  /\ UNCHANGED <<instances, ptr, mem, fn, arr, map, has, activeCalls, holder, pc, call>>

CountedPcs == {"setup", "rebind", "bind", "store", "exit"}

\* The calls that hold a count of the instance data d.
Counted(d) == {c \in Calls : pc[c] \in CountedPcs /\ bound[c] = d}

\* Mutant: no wait.
WaitNot(v) ==
  /\ upc[v] = "wait"
  /\ upc' = [upc EXCEPT ![v] = "clean"]
  /\ UNCHANGED <<data, activeCalls, holder, pc, call>>

\* The wait for the active calls ends, or its deadline passes while a call hangs.
WaitCalls(v) ==
  /\ upc[v] = "wait"
  /\ excused' = IF activeCalls[ptr[v]] = 0 THEN excused
                ELSE [c \in Calls |-> excused[c] \/ c \in Counted(ptr[v])]
  /\ upc' = [upc EXCEPT ![v] = "clean"]
  /\ UNCHANGED <<data, activeCalls, holder, pc, op, home, owner, bound>>

\* The arrays are cleaned up and detached under arrayMutex.
CleanArrays(v) ==
  /\ upc[v] = "clean"
  /\ arr' = [arr EXCEPT ![ptr[v]] = None]
  /\ upc' = [upc EXCEPT ![v] = "unregister"]
  /\ UNCHANGED <<instances, ptr, mem, fn, isUnreserving, map, has, activeCalls, holder, pc, call>>

UnregisterArrays(v) ==
  /\ upc[v] = "unregister"
  /\ Unregister(v)
  /\ upc' = [upc EXCEPT ![v] = "erase"]
  /\ UNCHANGED <<instances, ptr, mem, fn, arr, isUnreserving, has, activeCalls, holder, pc, call>>

Erase(v) ==
  /\ upc[v] = "erase" /\ holder = None
  /\ instances' = Unlisted(v)
  /\ upc' = [upc EXCEPT ![v] = "delete"]
  /\ UNCHANGED <<ptr, mem, fn, arr, isUnreserving, map, has, activeCalls, holder, pc, call>>

Delete(v) ==
  /\ upc[v] = "delete"
  /\ mem' = [mem EXCEPT ![ptr[v]] = "gone"]
  /\ upc' = [upc EXCEPT ![v] = "clear"]
  /\ UNCHANGED <<instances, ptr, fn, arr, isUnreserving, map, has, activeCalls, holder, pc, call>>

ClearPointer(v) ==
  /\ upc[v] = "clear"
  /\ ptr' = [ptr EXCEPT ![v] = None]
  /\ upc' = [upc EXCEPT ![v] = "out"]
  /\ UNCHANGED <<instances, mem, fn, arr, isUnreserving, map, has, activeCalls, holder, pc, call>>

-----------------------------------------------------------------------------
(* A call of getValue or putValue                                          *)

\* It takes instancesMutex and looks its array up in the map.
Resolve(c) ==
  /\ pc[c] = "idle" /\ holder = None
  /\ \E v \in {w \in VIs : upc[w] \notin {"out", "push"}}, o \in Ops :
       /\ home' = [home EXCEPT ![c] = v]
       /\ op' = [op EXCEPT ![c] = o]
       /\ \E r \in IF has[v] THEN LookupResults(v) ELSE {None} :
            owner' = [owner EXCEPT ![c] = r]
  /\ holder' = c
  /\ pc' = [pc EXCEPT ![c] = "pick"]
  /\ UNCHANGED <<data, activeCalls, upc, bound, excused>>

\* The entries of the list that the fallback may take, from the back.
Candidates(f) == {k \in 1 .. Len(instances) :
                    LET d == ptr[instances[k]] IN
                      d # None /\ ~isUnreserving[d] /\ fn[d] = f}
LastOf(S) == instances[CHOOSE k \in S : \A j \in S : j <= k]

Fallback(o) == IF Candidates("") # {} THEN LastOf(Candidates(""))
               ELSE IF Candidates(o) # {} THEN LastOf(Candidates(o))
               ELSE None

PointerOf(v) == IF v = None THEN None ELSE ptr[v]

NameFirst(d, o) == fn' = [fn EXCEPT ![d] = IF @ = "" THEN o ELSE @]

\* The array is stored in the instance and registered, if it is new there.
StoreArray(d, a, v) ==
  IF has'[a] /\ arr[d] # a
    THEN arr' = [arr EXCEPT ![d] = a] /\ Register(a, v)
    ELSE UNCHANGED <<arr, map>>

\* The fallback, the first function's name and, in putValue, the binding of
\* the array, before the instance's flag is read.
Pick(c) ==
  /\ pc[c] = "pick"
  /\ LET v == IF owner[c] # None THEN owner[c] ELSE Fallback(op[c])
         d == PointerOf(v)
     IN /\ bound' = [bound EXCEPT ![c] = d]
        /\ UNCHANGED has
        /\ IF d = None THEN UNCHANGED <<fn, arr, map>>
           ELSE /\ NameFirst(d, op[c])
                /\ IF op[c] = "putValue" THEN StoreArray(d, home[c], v)
                   ELSE UNCHANGED <<arr, map>>
        /\ pc' = [pc EXCEPT ![c] = IF d = None THEN "setup" ELSE "check"]
  /\ owner' = [owner EXCEPT ![c] = None]
  /\ holder' = None
  /\ UNCHANGED <<instances, ptr, mem, isUnreserving, activeCalls, upc, op, home, excused>>

Return(c) ==
  /\ pc' = [pc EXCEPT ![c] = "idle"]
  /\ op' = [op EXCEPT ![c] = None]
  /\ home' = [home EXCEPT ![c] = None]
  /\ bound' = [bound EXCEPT ![c] = None]
  /\ UNCHANGED owner
  /\ excused' = [excused EXCEPT ![c] = FALSE]

\* The early return and the _CallGuard read isUnreserving.
CheckGuard(c) ==
  /\ pc[c] = "check"
  /\ IF isUnreserving[bound[c]] THEN Return(c)
     ELSE pc' = [pc EXCEPT ![c] = "count"] /\ UNCHANGED call
  /\ UNCHANGED <<data, activeCalls, holder, upc>>

\* The guard increments activeCalls.
CountCall(c) ==
  /\ pc[c] = "count"
  /\ activeCalls' = [activeCalls EXCEPT ![bound[c]] = @ + 1]
  /\ excused' = [excused EXCEPT ![c] = isUnreserving[bound[c]]]
  /\ pc' = [pc EXCEPT ![c] = "setup"]
  /\ UNCHANGED <<data, holder, upc, op, home, owner, bound>>

\* The array is created or resized, which a later call need not do.
Setup(c) ==
  /\ pc[c] = "setup"
  /\ \E made \in BOOLEAN :
       /\ has' = [has EXCEPT ![home[c]] = @ \/ made]
       /\ pc' = [pc EXCEPT ![c] =
            IF made /\ bound[c] # None THEN "rebind"
            ELSE IF op[c] = "getValue" THEN "bind" ELSE "exit"]
  /\ UNCHANGED <<instances, ptr, mem, fn, arr, isUnreserving, map, activeCalls, holder, upc, call>>

\* The new array is bound at once, if the instance is still in the list.
Rebind(c) ==
  /\ pc[c] = "rebind" /\ holder = None
  /\ UNCHANGED has
  /\ \/ \E v \in Range(instances) : ptr[v] = bound[c] /\ StoreArray(bound[c], home[c], v)
     \/ (\A v \in Range(instances) : ptr[v] # bound[c]) /\ UNCHANGED <<arr, map>>
  /\ pc' = [pc EXCEPT ![c] = IF op[c] = "getValue" THEN "bind" ELSE "exit"]
  /\ UNCHANGED <<instances, ptr, mem, fn, isUnreserving, activeCalls, holder, upc, call>>

\* bindArraysToInstance: the lookup, the single instance or the last one.
BindResolve(c) ==
  /\ pc[c] = "bind"
  /\ \E r \in IF has[home[c]] THEN LookupResults(home[c]) ELSE {None} :
       IF r # None THEN owner' = [owner EXCEPT ![c] = r]
       ELSE /\ Len(instances) = 1 \/ holder = None
            /\ owner' = [owner EXCEPT ![c] =
                 IF instances = <<>> THEN None ELSE Last(instances)]
  /\ pc' = [pc EXCEPT ![c] = "store"]
  /\ UNCHANGED <<data, activeCalls, holder, upc, op, home, bound, excused>>

\* bindArraysToInstance: the instance found is used, whether counted or not.
BindStore(c) ==
  /\ pc[c] = "store"
  /\ UNCHANGED has
  /\ LET d == PointerOf(owner[c]) IN
       IF d = None THEN UNCHANGED <<fn, arr, map>>
       ELSE NameFirst(d, op[c]) /\ StoreArray(d, home[c], owner[c])
  /\ owner' = [owner EXCEPT ![c] = None]
  /\ pc' = [pc EXCEPT ![c] = "exit"]
  /\ UNCHANGED <<instances, ptr, mem, isUnreserving, activeCalls, holder, upc, op, home, bound, excused>>

\* Mutant: the count is kept when the instance is being unreserved.
ExitKeepsCount(c) ==
  /\ pc[c] = "exit"
  /\ activeCalls' = IF bound[c] = None \/ isUnreserving[bound[c]] THEN activeCalls
                    ELSE [activeCalls EXCEPT ![bound[c]] = @ - 1]
  /\ Return(c)
  /\ UNCHANGED <<data, holder, upc>>

\* The _CallGuard's destructor.
Exit(c) ==
  /\ pc[c] = "exit"
  /\ activeCalls' = IF bound[c] = None THEN activeCalls
                    ELSE [activeCalls EXCEPT ![bound[c]] = @ - 1]
  /\ Return(c)
  /\ UNCHANGED <<data, holder, upc>>

-----------------------------------------------------------------------------
ReserveStep(v) == Reserve(v) \/ Push(v)

UnreserveStep(v) ==
  \/ EarlyExit(v) \/ Signal(v) \/ WaitCalls(v) \/ CleanArrays(v)
  \/ UnregisterArrays(v) \/ Erase(v) \/ Delete(v) \/ ClearPointer(v)

CallStep(c) ==
  \/ CheckGuard(c) \/ CountCall(c) \/ Setup(c) \/ Rebind(c)
  \/ BindResolve(c) \/ BindStore(c) \/ Exit(c)

Next ==
  \/ \E v \in VIs : ReserveStep(v) \/ Unreserve(v) \/ UnreserveStep(v)
  \/ \E c \in Calls : Resolve(c) \/ Pick(c) \/ CallStep(c)

Spec == Init /\ [][Next]_vars

-----------------------------------------------------------------------------
UnreservePcs == {"early", "signal", "wait", "clean", "unregister", "erase", "delete", "clear"}
\* Type invariant.
TypeOK ==
  /\ instances \in Seq(VIs)
  /\ ptr \in [VIs -> Data \cup {None}]
  /\ mem \in [Data -> {"unused", "live", "early", "gone"}]
  /\ fn \in [Data -> Ops \cup {""}]
  /\ arr \in [Data -> VIs \cup {None}]
  /\ isUnreserving \in [Data -> BOOLEAN]
  /\ activeCalls \in [Data -> Nat]
  /\ map \in [VIs -> VIs \cup {None}]
  /\ has \in [VIs -> BOOLEAN]
  /\ holder \in Calls \cup {None}
  /\ upc \in [VIs -> {"out", "push", "in"} \cup UnreservePcs]
  /\ pc \in [Calls -> {"idle", "pick", "check", "count"} \cup CountedPcs]
  /\ op \in [Calls -> Ops \cup {None}]
  /\ home \in [Calls -> VIs \cup {None}]
  /\ owner \in [Calls -> VIs \cup {None}]
  /\ bound \in [Calls -> Data \cup {None}]
  /\ excused \in [Calls -> BOOLEAN]

\* Whoever walks the list under instancesMutex (the fallbacks of getValue and
\* putValue, unreserved's search for shared arrays and shared PVs) finds only
\* instances whose data exists: an instance leaves the list before it dies.
ListedIsLive ==
  \A v \in Range(instances) : ptr[v] # None /\ mem[ptr[v]] = "live"

\* activeCalls is the number of guards that count the instance, however calls
\* and teardowns interleave, so a wait for zero is a wait for the last call.
CallsCounted == \A d \in Data : activeCalls[d] = Cardinality(Counted(d))

\* A call loses its instance to the full teardown only if isUnreserving was set
\* between its test of the flag and its count, or if it outlasts the 5 seconds of
\* unreserved: whoever else was counted is waited for.
CountedIsPinned ==
  \A d \in Data : mem[d] = "gone" => \A c \in Counted(d) : excused[c]

-----------------------------------------------------------------------------
(* Expectations that the code does not meet: see the README, Deviations.   *)

\* What changelog.txt says of the call guard: unreserved waits for all calls
\* in flight, so no call runs on an instance that is gone.
CallOnLiveData ==
  \A c \in Calls : pc[c] \in CountedPcs /\ bound[c] # None => mem[bound[c]] # "gone"

\* What changelog.txt says of unregisterArraysForInstance: an array is never
\* mapped to an instance that has disappeared.
NoStaleMapping == \A a \in VIs : map[a] # None => ptr[map[a]] # None

\* What the comment on the early exit says: only an instance of which no
\* function was ever called is deleted there.
EarlyExitUnused == \A d \in Data : mem[d] = "early" => fn[d] = ""

\* What changelog.txt says of the array map: in a multi-VI setup an array is
\* bound to the instance of the VI that owns it.
ArrayAtItsOwner == \A v \in VIs : ptr[v] # None => arr[ptr[v]] \in {None, v}
=============================================================================
