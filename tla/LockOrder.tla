----------------------------- MODULE LockOrder -----------------------------
(***************************************************************************)
(* The locks of CA Lab and the order in which the entry points take them.  *)
(* A job is one call of an entry point; its path is the sequence of the    *)
(* locks it takes and releases, read off calab.cpp, with all that happens  *)
(* between them left out.  pvRegistryLock and getLock are timed (a job     *)
(* gives up and goes on without the block), the mutexes are not.  The      *)
(* Channel Access library has a lock of its own, which it holds during a   *)
(* callback and which the calls that clear a handle wait for.              *)
(* globals.h states the hierarchy that all code must follow.               *)
(***************************************************************************)
EXTENDS Naturals, Sequences, FiniteSets

CONSTANTS Jobs,  \* calls of the entry points: <<entry point, instance>>
          Loads  \* sets of them that are in progress together

Instances == {1, 2}
Other(i) == 3 - i
EntryPoints ==
  {"getValue", "getValueNoMdel", "putValue", "unreserved", "disconnectPVs", "connectionChanged"}

ASSUME JobsAssumption ==
  /\ \A j \in Jobs : j[1] \in EntryPoints /\ j[2] \in Instances
  /\ Loads \subseteq SUBSET Jobs

\* A lock is a pair; its first component is its kind.
getLock == <<"get", 0>>
pvRegistryLock == <<"registry", 0>>
instancesMutex == <<"instances", 0>>
arrayMutex(i) == <<"array", i>>
ioMutex(p) == <<"io", p>>
eventMutex == <<"event", 0>>
callbackLock == <<"callback", 0>>

Locks == {getLock, pvRegistryLock, instancesMutex, eventMutex, callbackLock}
           \cup {arrayMutex(i) : i \in Instances} \cup {ioMutex(p) : p \in {"base", "child"}}

\* What is done inside a lock, and for the registry inside a shared lock.
Locked(l, inside) == <<[do |-> "lock", on |-> l]>> \o inside \o <<[do |-> "unlock", on |-> l]>>
Shared(inside) == <<[do |-> "share", on |-> pvRegistryLock]>> \o inside
                    \o <<[do |-> "unlock", on |-> pvRegistryLock]>>
Nothing == <<>>

-----------------------------------------------------------------------------
(* The blocks the paths consist of                                         *)

Lookup == Shared(Nothing)                           \* getInstanceForArray
Register == Locked(pvRegistryLock, Nothing)         \* registerArrayToInstance
EachIo == Locked(ioMutex("base"), Nothing) \o Locked(ioMutex("child"), Nothing)

\* postEventForPv: the registry is only tried, so it is not waited for.
PostEvent(p) == Locked(eventMutex, Nothing) \o Locked(ioMutex(p), Nothing)

\* ca_clear_subscription and ca_clear_channel (external)
ClearHandles == Locked(callbackLock, Nothing)

\* getValue and putValue look for the instance; putValue binds the array, too.
ResolveGet == Locked(instancesMutex, Lookup)
ResolvePut(i) == Locked(instancesMutex, Lookup \o Locked(arrayMutex(i), Register))

\* Mutant: the instance's mutex before the list's.
RebindReversed(i) == Locked(arrayMutex(i), Locked(instancesMutex, Register))

\* A new PvIndexArray is bound while the instance is looked for in the list.
Rebind(i) == Locked(instancesMutex, Locked(arrayMutex(i), Register))

\* bindArraysToInstance
BindArrays(i) == Lookup \o Locked(instancesMutex, Nothing) \o Locked(arrayMutex(i), Register)

\* setupPvIndexAndRegistry, subscribeBasePVs and connectPVs
SetupPvs == Locked(pvRegistryLock, EachIo)

\* The output of getValue
Populate == Locked(getLock, Shared(EachIo))

\* The error of one PV in putValue
UpdateError(i) == Locked(arrayMutex(i), Nothing)

\* unreserved, part by part
CollectBasePvs(i) == Locked(arrayMutex(i), Nothing)
CollectChildren == Shared(EachIo)
UsedElsewhere(i) ==  \* skips an instance that is unreserving, too
  Locked(instancesMutex, IF <<"unreserved", Other(i)>> \in Jobs THEN Nothing
                         ELSE Locked(arrayMutex(Other(i)), Nothing))
ResetPvs == Locked(eventMutex, Nothing) \o Shared(EachIo) \o ClearHandles
SharedByOther(i) == Locked(instancesMutex, Locked(arrayMutex(Other(i)), Nothing))
\* Mutant: the arrays are detached inside the block that holds the mutex.
CleanAndDetach(i) == Locked(arrayMutex(i), SharedByOther(i) \o Locked(arrayMutex(i), Nothing))

CleanEntries(i) == Locked(arrayMutex(i), SharedByOther(i))
DetachArrays(i) == Locked(arrayMutex(i), Nothing)
UnlistInstance == Register \o Locked(instancesMutex, Nothing)

\* disconnectPVs: the parent's event is posted inside the child's mutex.
DisconnectPv == EachIo \o ClearHandles \o PostEvent("child") \o Locked(ioMutex("child"), PostEvent("base"))

GetPath(i) == ResolveGet \o SetupPvs \o Rebind(i) \o BindArrays(i) \o Populate
\* In NoMDEL mode the subscription is cleared at the end, inside the item's mutex.
GetNoMdelPath(i) == GetPath(i) \o Locked(ioMutex("base"), ClearHandles)
PutPath(i) == ResolvePut(i) \o SetupPvs \o Rebind(i) \o UpdateError(i)
UnreservedPath(i) ==
  CollectBasePvs(i) \o CollectChildren \o UsedElsewhere(i) \o ResetPvs
    \o CleanEntries(i) \o DetachArrays(i) \o UnlistInstance
DisconnectPath == Locked(instancesMutex, Nothing) \o CollectChildren \o DisconnectPv

\* connectionChanged; what it clears itself needs no lock it has not got.
CallbackPath == Locked(callbackLock, Locked(ioMutex("base"), Nothing) \o PostEvent("base"))

Path(j) == CASE j[1] = "getValue" -> GetPath(j[2])
             [] j[1] = "getValueNoMdel" -> GetNoMdelPath(j[2])
             [] j[1] = "putValue" -> PutPath(j[2])
             [] j[1] = "unreserved" -> UnreservedPath(j[2])
             [] j[1] = "disconnectPVs" -> DisconnectPath
             [] j[1] = "connectionChanged" -> CallbackPath

Paths == [j \in Jobs |-> Path(j)]

Timed(l) == l \in {getLock, pvRegistryLock}

-----------------------------------------------------------------------------
VARIABLES pos,     \* per job: the next step of its path
          owner,   \* per lock: the jobs that hold it
          mode     \* how it is held: "lock" or "share"

lockVars == <<pos, owner, mode>>

LockInit ==
  /\ \E L \in Loads : pos = [j \in Jobs |-> IF j \in L THEN 1 ELSE Len(Paths[j]) + 1]
  /\ owner = [l \in Locks |-> {}]
  /\ mode = [l \in Locks |-> "share"]

Done(j) == pos[j] > Len(Paths[j])
Step(j) == Paths[j][pos[j]]
Asks(j) == ~Done(j) /\ Step(j).do # "unlock"

CanTake(j) ==
  \/ owner[Step(j).on] = {}
  \/ Step(j).do = "share" /\ mode[Step(j).on] = "share"

Take(j) ==
  /\ Asks(j) /\ CanTake(j)
  /\ owner' = [owner EXCEPT ![Step(j).on] = @ \cup {j}]
  /\ mode' = [mode EXCEPT ![Step(j).on] = Step(j).do]
  /\ pos' = [pos EXCEPT ![j] = @ + 1]

\* A timed lock is given up: the job goes on behind the block.
GiveUp(j) ==
  /\ Asks(j) /\ ~CanTake(j) /\ Timed(Step(j).on)
  /\ LET l == Step(j).on
         ends == {k \in pos[j] .. Len(Paths[j]) : Paths[j][k] = [do |-> "unlock", on |-> l]}
     IN pos' = [pos EXCEPT ![j] = (CHOOSE k \in ends : \A m \in ends : k <= m) + 1]
  /\ UNCHANGED <<owner, mode>>

Release(j) ==
  /\ ~Done(j) /\ Step(j).do = "unlock"
  /\ owner' = [owner EXCEPT ![Step(j).on] = @ \ {j}]
  /\ pos' = [pos EXCEPT ![j] = @ + 1]
  /\ UNCHANGED mode

JobStep(j) == Take(j) \/ GiveUp(j) \/ Release(j)
LockNext == \E j \in Jobs : JobStep(j)

LockSpec == LockInit /\ [][LockNext]_lockVars

\* Threads that can run do run, and a mutex that is free again and again is got.
LockFairSpec == LockSpec /\ \A j \in Jobs : SF_lockVars(JobStep(j))

-----------------------------------------------------------------------------
\* Type invariant; a lock that is held exclusively has one owner.
LockTypeOK ==
  /\ \A j \in Jobs : pos[j] \in 1 .. Len(Paths[j]) + 1
  /\ owner \in [Locks -> SUBSET Jobs]
  /\ mode \in [Locks -> {"lock", "share"}]
  /\ \A l \in Locks : mode[l] = "lock" => Cardinality(owner[l]) <= 1

\* The loads without the combinations that can deadlock (README, Deviations): no two
\* instances are unreserved at a time, no value is read or written by an instance
\* that is unreserved, and no connection changes while a subscription is cleared
\* inside an item's mutex.
Compatible(L) ==
  /\ \A j, k \in L : j[1] = "unreserved" /\ k[1] = "unreserved" => j[2] = k[2]
  /\ \A j, k \in L : j[1] = "unreserved" /\ k[1] \in {"getValue", "getValueNoMdel", "putValue"} => j[2] # k[2]
  /\ \A j, k \in L : ~(j[1] = "getValueNoMdel" /\ k[1] = "connectionChanged")

\* The jobs that j waits for without a timeout.
Blocks(j) == IF Asks(j) /\ ~CanTake(j) /\ ~Timed(Step(j).on) THEN owner[Step(j).on] ELSE {}

\* The calls never wait for each other in a circle, which is what the lock
\* hierarchy is for: a set of jobs each of which waits for another one of it.
NoCircularWait ==
  \A S \in SUBSET {j \in Jobs : Blocks(j) # {}} :
    S # {} => \E j \in S : Blocks(j) \cap S = {}

\* Every call comes to its end, timeouts included.
JobsFinish == <>(\A j \in Jobs : Done(j))

-----------------------------------------------------------------------------
(* Expectations that the code does not meet: see the README, Deviations.   *)

\* The rank globals.h gives the locks; instancesMutex has none there.
Rank(l) == CASE l[1] = "get" -> 1 [] l[1] = "registry" -> 2 [] l[1] = "io" -> 3
             [] l[1] = "array" -> 4 [] l[1] = "event" -> 5 [] OTHER -> 0

\* What globals.h says: locks are never acquired in reverse order.
HierarchyKept ==
  \A j \in Jobs : Asks(j) /\ Rank(Step(j).on) > 0 =>
    \A l \in Locks : j \in owner[l] => Rank(l) <= Rank(Step(j).on)
=============================================================================
