--------------------------- MODULE TeardownProofs ---------------------------
(***************************************************************************)
(* Theorems about what an instance does when it leaves, and the locks it   *)
(* takes among the other calls.  PvTeardown: unreserved spares the PVs     *)
(* that others use, and the last instance to leave resets them, for any    *)
(* number of VIs and fields and of teardowns at a time.  LockOrder: calls  *)
(* never wait for each other in a circle, for any number of calls.         *)
(***************************************************************************)
EXTENDS PvTeardown, LockOrder, SequenceTheorems, FiniteSetTheorems, TLAPS

-----------------------------------------------------------------------------
(* The teardown of PVs.                                                    *)

ChannelStates == {"absent", "none", "down", "up"}
CallSteps == {"setup", "bind", "connect", "await", "build", "get", "store", "clear", "ready"}

StepTypes ==
  /\ chan \in [PVs -> ChannelStates]
  /\ pc \in [VIs -> {"unreserved"} \cup CallSteps \cup LeavingSteps]
  /\ bound \subseteq VIs
  /\ pending \in [VIs -> SUBSET PVs] /\ came \in [VIs -> SUBSET VIs]

\* A VI that has set the PV up finds its item; one that is bound has not left.
ItemInv ==
  /\ \A v \in VIs : pc[v] \notin {"unreserved", "setup"} => chan[Base] # "absent"
  /\ \A v \in bound : pc[v] # "unreserved"

\* A teardown that is to reset something: who is bound is leaving, or has come since it looked.
WalkInv ==
  \A v \in VIs : pc[v] \in {"events", "reset"} /\ pending[v] # {} =>
    \A u \in bound \ {v} : Leaving(u) \/ u \in came[v]

\* A PV that is owed a reset has a VI that needs it, or one that is about to reset it.
OwedInv ==
  owed => \E v \in bound : ~Leaving(v) \/ Base \in pending[v]

TearInv == StepTypes /\ ItemInv /\ WalkInv /\ OwedInv

\* What calls, worker, poll thread and Channel Access do to the state of a teardown.
RecordMoves ==
  /\ chan' \in [PVs -> ChannelStates] /\ (chan[Base] # "absent" => chan'[Base] # "absent")
  /\ \/ UNCHANGED <<pc, bound>>
     \/ \E v \in VIs, s \in CallSteps :
          /\ pc[v] \in {"unreserved"} \cup CallSteps /\ pc' = [pc EXCEPT ![v] = s]
          /\ bound' \in {bound, bound \cup {v}}
          /\ s # "setup" => chan'[Base] # "absent"

\* The base PV is one of the family.
LEMMA BaseIsPv == Base \in PVs
BY DEF PVs

\* The library, the poll thread and the worker move no VI and make no item vanish.
LEMMA ThreadsMove ==
  ASSUME StepTypes,
         ServerStep \/ WorkerStep \/ WorkerTimeout \/ \E p \in PVs : CaStep(p) \/ PollStep(p)
  PROVE  RecordMoves /\ bound' = bound
<1> USE DEF StepTypes, ChannelStates
<1>1. UNCHANGED <<pc, bound>>
  BY DEF ServerStep, Change, ServerDown, ServerUp, WorkerStep, HandToParent, Store, WorkerTimeout,
         ParentLocked, Drop, CaStep, ConnUp, ConnDown, Deliver, PollStep, PollConnect, Subscribe, callVars
<1>2. UNCHANGED chan \/ \E p \in PVs, s \in {"up", "down"} : chan' = [chan EXCEPT ![p] = s]
  BY DEF ServerStep, Change, ServerDown, ServerUp, WorkerStep, HandToParent, Store, WorkerTimeout,
         ParentLocked, Drop, CaStep, ConnUp, ConnDown, Deliver, PollStep, PollConnect, Subscribe, linkVars
<1>3. CASE UNCHANGED chan
  BY <1>1, <1>3 DEF RecordMoves
<1>4. ASSUME NEW p \in PVs, NEW s \in {"up", "down"}, chan' = [chan EXCEPT ![p] = s]
      PROVE  chan' \in [PVs -> ChannelStates] /\ (chan[Base] # "absent" => chan'[Base] # "absent")
  BY <1>4, BaseIsPv
<1> QED
  BY <1>1, <1>2, <1>3, <1>4 DEF RecordMoves

\* A call goes from step to step; it makes items and never takes one away.
LEMMA CallsMove ==
  ASSUME StepTypes, ItemInv, NEW v \in VIs,
         Reserve(v) \/ CallAgain(v) \/ CallTimeout(v) \/ RegistryStep(v) \/ OtherCallStep(v) \/ Bind(v)
  PROVE  RecordMoves /\ (bound' = bound \/ Bind(v))
<1> USE DEF StepTypes, ChannelStates, CallSteps, ItemInv
<1>1. CASE Reserve(v) \/ CallAgain(v)
  BY <1>1 DEF Reserve, CallAgain, Goto, linkVars, RecordMoves
<1>2. CASE Setup(v)
  <2>1. /\ chan' = [chan EXCEPT ![Base] = IF @ = "up" THEN @ ELSE "none"]
        /\ pc[v] = "setup" /\ pc' = [pc EXCEPT ![v] = "bind"] /\ bound' = bound
    BY <1>2 DEF Setup, Goto
  <2>2. chan' \in [PVs -> ChannelStates] /\ chan'[Base] # "absent"
    BY <2>1, BaseIsPv
  <2> QED
    BY <2>1, <2>2 DEF RecordMoves
<1>3. CASE Connect(v)
  <2>1. /\ chan' = [p \in PVs |-> IF p \in {Base, Rtyp} /\ chan[p] # "up" THEN "down" ELSE chan[p]]
        /\ pc[v] = "connect" /\ pc' = [pc EXCEPT ![v] = "await"] /\ bound' = bound
    BY <1>3 DEF Connect, Goto
  <2>2. chan' \in [PVs -> ChannelStates] /\ chan'[Base] # "absent"
    BY <2>1, BaseIsPv
  <2> QED
    BY <2>1, <2>2 DEF RecordMoves
<1>4. CASE Build(v)
  <2>1. /\ \/ chan' = chan
           \/ chan' = [p \in PVs |-> IF p \in fields /\ chan[p] \in {"absent", "none"} THEN "down" ELSE chan[p]]
        /\ pc[v] = "build" /\ bound' = bound
        /\ pc' = [pc EXCEPT ![v] = AfterConnecting(v)] /\ AfterConnecting(v) \in {"get", "ready"}
    BY <1>4 DEF Build, Goto, AfterConnecting
  <2>2. chan' \in [PVs -> ChannelStates] /\ chan'[Base] # "absent"
    BY <2>1, BaseIsPv
  <2> QED
    BY <2>1, <2>2 DEF RecordMoves
<1>5. CASE Bind(v) \/ CallTimeout(v) \/ OtherCallStep(v)
  <2>1. /\ chan' = chan /\ pc[v] \in CallSteps \ {"setup"}
        /\ \E s \in CallSteps \ {"setup"} : pc' = [pc EXCEPT ![v] = s]
        /\ bound' \in {bound, bound \cup {v}} /\ (bound' = bound \/ Bind(v))
    BY <1>5 DEF Bind, CallTimeout, ConnectTimesOut, ReturnEarly, OtherCallStep, AwaitType, Deadline,
                Get, StoreGot, ClearSubscription, Goto, AfterConnecting, linkVars
  <2>2. chan[Base] # "absent"
    BY <2>1
  <2> QED
    BY <2>1, <2>2 DEF RecordMoves
<1> QED
  BY <1>1, <1>2, <1>3, <1>4, <1>5 DEF RegistryStep

\* None of that is in the way of a teardown.
LEMMA MovesKeep ==
  ASSUME TearInv, RecordMoves, UNCHANGED pending, came' \in [VIs -> SUBSET VIs],
         \A u \in VIs : pc[u] \in {"events", "reset"} => came[u] \cup (bound' \ bound) \subseteq came'[u],
         owed' = owed \/ \E v \in bound' : ~Leaving(v)'
  PROVE  TearInv'
<1> USE DEF TearInv
<1>1. CASE UNCHANGED <<pc, bound>>
  BY <1>1 DEF RecordMoves, StepTypes, ItemInv, WalkInv, OwedInv, Leaving
<1>2. ASSUME NEW v \in VIs, NEW s \in CallSteps,
             pc[v] \in {"unreserved"} \cup CallSteps, pc' = [pc EXCEPT ![v] = s],
             bound' \in {bound, bound \cup {v}}, s # "setup" => chan'[Base] # "absent"
      PROVE  TearInv'
  <2>1. /\ pc'[v] = s /\ \A u \in VIs \ {v} : pc'[u] = pc[u]
        /\ pc' \in [VIs -> {"unreserved"} \cup CallSteps \cup LeavingSteps]
        /\ s \notin {"unreserved", "walk", "events", "reset"} /\ pc[v] \notin LeavingSteps
    BY <1>2 DEF StepTypes, CallSteps, LeavingSteps
  <2>2. \A u \in VIs : Leaving(u)' <=> Leaving(u)
    BY <2>1 DEF Leaving, LeavingSteps
  <2>3. StepTypes'
    BY <1>2, <2>1 DEF StepTypes, RecordMoves
  <2>4. ItemInv'
    BY <1>2, <2>1 DEF StepTypes, ItemInv, RecordMoves
  <2>5. WalkInv'
    BY <2>1, <2>2 DEF WalkInv, StepTypes
  <2>6. OwedInv'
    BY <1>2, <2>2 DEF OwedInv, StepTypes
  <2> QED
    BY <2>3, <2>4, <2>5, <2>6
<1> QED
  BY <1>1, <1>2 DEF RecordMoves

\* unreserved begins: what is to be reset contains the PV.
LEMMA BeginKeeps ==
  ASSUME TearInv, NEW v \in VIs, Unreserve(v) \/ CollectTimesOut(v)
  PROVE  TearInv'
<1> USE DEF TearInv, StepTypes
<1>1. /\ pc[v] = "ready" /\ pc' = [pc EXCEPT ![v] = "walk"]
      /\ UNCHANGED <<chan, bound, came, owed>>
      /\ \/ pending' = [pending EXCEPT ![v] = {p \in PVs : chan[p] # "absent"}]
         \/ pending' = [pending EXCEPT ![v] = {Base}]
  BY DEF Unreserve, CollectTimesOut, Goto, linkVars
<1>2. chan[Base] # "absent" /\ Base \in PVs
  BY <1>1, BaseIsPv DEF ItemInv
<1>3. /\ pending' \in [VIs -> SUBSET PVs] /\ Base \in pending'[v]
      /\ \A u \in VIs \ {v} : pending'[u] = pending[u]
  BY <1>1, <1>2
<1>4. /\ pc' \in [VIs -> {"unreserved"} \cup CallSteps \cup LeavingSteps]
      /\ pc'[v] = "walk" /\ \A u \in VIs \ {v} : pc'[u] = pc[u]
  BY <1>1 DEF LeavingSteps
<1>5. \A u \in VIs \ {v} : Leaving(u)' <=> Leaving(u)
  BY <1>4 DEF Leaving
<1>6. Leaving(v)' /\ ~Leaving(v)
  BY <1>1, <1>4 DEF Leaving, LeavingSteps
<1>7. ItemInv'
  BY <1>1, <1>2, <1>4 DEF ItemInv
<1>8. WalkInv'
  BY <1>1, <1>4, <1>5, <1>6 DEF WalkInv
<1>9. OwedInv'
  BY <1>1, <1>3, <1>5 DEF OwedInv
<1> QED
  BY <1>1, <1>3, <1>4, <1>7, <1>8, <1>9

\* The PV is given up only for a VI that goes on using it.
LEMMA WalkKeeps ==
  ASSUME TearInv, NEW v \in VIs, Walk(v)
  PROVE  TearInv'
<1> USE DEF TearInv, StepTypes
<1>1. /\ pc[v] = "walk" /\ pc' = [pc EXCEPT ![v] = "events"]
      /\ UNCHANGED <<chan, bound, came, owed>>
      /\ pending' = [pending EXCEPT ![v] = IF Users(v) # {} THEN {} ELSE @]
  BY DEF Walk, Goto, linkVars
<1>2. /\ pending' \in [VIs -> SUBSET PVs]
      /\ pending'[v] = IF Users(v) # {} THEN {} ELSE pending[v]
      /\ \A u \in VIs \ {v} : pending'[u] = pending[u]
  BY <1>1
<1>3. /\ pc' \in [VIs -> {"unreserved"} \cup CallSteps \cup LeavingSteps]
      /\ pc'[v] = "events" /\ \A u \in VIs \ {v} : pc'[u] = pc[u]
  BY <1>1 DEF LeavingSteps
<1>4. \A u \in VIs : Leaving(u)' <=> Leaving(u)
  BY <1>1, <1>3 DEF Leaving, LeavingSteps
<1>5. ItemInv'
  BY <1>1, <1>3 DEF ItemInv
<1>6. WalkInv'
  <2>1. pending'[v] # {} => \A u \in bound \ {v} : Leaving(u)
    BY <1>2 DEF Users
  <2> QED
    BY <1>1, <1>2, <1>3, <1>4, <2>1 DEF WalkInv
<1>7. OwedInv'
  <2> SUFFICES ASSUME owed PROVE \E u \in bound : ~Leaving(u) \/ Base \in pending'[u]
    BY <1>1, <1>4 DEF OwedInv
  <2>1. CASE Users(v) # {}
    BY <2>1 DEF Users
  <2>2. CASE Users(v) = {}
    BY <1>2, <2>2 DEF OwedInv
  <2> QED
    BY <2>1, <2>2
<1> QED
  BY <1>1, <1>2, <1>3, <1>5, <1>6, <1>7

\* ... or for a user event, or because of a lock, and then it is not owed any more.
LEMMA EventsKeeps ==
  ASSUME TearInv, NEW v \in VIs, ReadEvents(v) \/ ResetTimesOut(v)
  PROVE  TearInv'
<1> USE DEF TearInv, StepTypes
<1>1. /\ pc[v] = "events" /\ pc' = [pc EXCEPT ![v] = "reset"]
      /\ UNCHANGED <<chan, bound, came>>
      /\ \/ owed' = owed /\ pending' = [pending EXCEPT ![v] = @]
         \/ ~owed' /\ \E S \in SUBSET pending[v] : pending' = [pending EXCEPT ![v] = S]
  BY DEF ReadEvents, ResetTimesOut, Goto, linkVars
<1>2. pending' \in [VIs -> SUBSET PVs] /\ (owed' => owed /\ pending' = pending)
  BY <1>1
<1>3. /\ pc' \in [VIs -> {"unreserved"} \cup CallSteps \cup LeavingSteps]
      /\ pc'[v] = "reset" /\ \A u \in VIs \ {v} : pc'[u] = pc[u]
  BY <1>1 DEF LeavingSteps
<1>4. \A u \in VIs : Leaving(u)' <=> Leaving(u)
  BY <1>1, <1>3 DEF Leaving, LeavingSteps
<1>5. ItemInv' /\ WalkInv' /\ OwedInv'
  BY <1>1, <1>2, <1>3, <1>4 DEF ItemInv, WalkInv, OwedInv
<1> QED
  BY <1>1, <1>2, <1>3, <1>5

\* What is reset is owed no more.
LEMMA ResetKeeps ==
  ASSUME TearInv, NEW v \in VIs, NEW p \in PVs, ResetPv(v, p)
  PROVE  TearInv'
<1> USE DEF TearInv, StepTypes
<1>1. /\ pending' = [pending EXCEPT ![v] = @ \ {p}] /\ chan' = [chan EXCEPT ![p] = "none"]
      /\ (owed' => owed /\ p # Base) /\ UNCHANGED <<pc, bound, came>>
  BY DEF ResetPv, callVars
<1>2. /\ pending' \in [VIs -> SUBSET PVs]
      /\ \A u \in VIs : p # Base /\ Base \in pending[u] => Base \in pending'[u]
  BY <1>1
<1>3. chan' \in [PVs -> ChannelStates] /\ (chan[Base] # "absent" => chan'[Base] # "absent")
  BY <1>1, BaseIsPv DEF ChannelStates
<1>4. \A u \in VIs : Leaving(u)' <=> Leaving(u)
  BY <1>1 DEF Leaving
<1>5. ItemInv' /\ WalkInv' /\ OwedInv'
  BY <1>1, <1>2, <1>3, <1>4 DEF ItemInv, WalkInv, OwedInv
<1> QED
  BY <1>1, <1>2, <1>3, <1>5

\* A VI that is gone is in nobody's way.
LEMMA UnlistKeeps ==
  ASSUME TearInv, NEW v \in VIs, Unlist(v)
  PROVE  TearInv'
<1> USE DEF TearInv, StepTypes
<1>1. /\ pc[v] = "reset" /\ pending[v] = {} /\ pc' = [pc EXCEPT ![v] = "unreserved"]
      /\ bound' = bound \ {v}
      /\ came' = [u \in VIs |-> IF u = v THEN {} ELSE came[u] \ {v}]
      /\ UNCHANGED <<chan, pending, owed>>
  BY DEF Unlist, Goto, linkVars
<1>2. /\ pc' \in [VIs -> {"unreserved"} \cup CallSteps \cup LeavingSteps]
      /\ pc'[v] = "unreserved" /\ \A u \in VIs \ {v} : pc'[u] = pc[u]
  BY <1>1
<1>3. \A u \in VIs \ {v} : Leaving(u)' <=> Leaving(u)
  BY <1>2 DEF Leaving
<1>4. ItemInv'
  BY <1>1, <1>2 DEF ItemInv
<1>5. WalkInv'
  BY <1>1, <1>2, <1>3 DEF WalkInv
<1>6. OwedInv'
  <2>1. Leaving(v) /\ Base \notin pending[v]
    BY <1>1 DEF Leaving, LeavingSteps
  <2> QED
    BY <1>1, <1>3, <2>1 DEF OwedInv
<1> QED
  BY <1>1, <1>2, <1>4, <1>5, <1>6

\* Every step of calls, teardowns, user events and Channel Access keeps the invariant.
LEMMA TearStep ==
  ASSUME TearInv, [Next]_vars
  PROVE  TearInv'
<1>1. CASE UNCHANGED vars
  BY <1>1 DEF vars, recordVars, linkVars, callVars, teardownVars, TearInv, StepTypes, ItemInv, WalkInv,
              OwedInv, Leaving
<1>2. CASE \/ (ServerStep \/ WorkerStep \/ WorkerTimeout) /\ UNCHANGED teardownVars
           \/ \E p \in PVs : (CaStep(p) \/ PollStep(p)) /\ UNCHANGED teardownVars
  BY <1>2, ThreadsMove, MovesKeep DEF TearInv, StepTypes, teardownVars
<1>3. ASSUME NEW v \in VIs,
             \/ (Reserve(v) \/ CallAgain(v) \/ CallTimeout(v)) /\ UNCHANGED teardownVars
             \/ CallStep(v)
      PROVE  TearInv'
  <2>1. RecordMoves /\ (bound' = bound \/ Bind(v))
    BY <1>3, CallsMove DEF TearInv, CallStep, BindHere
  <2>2. \/ UNCHANGED teardownVars /\ bound' = bound
        \/ BindHere(v)
    <3>1. Reserve(v) \/ CallAgain(v) \/ CallTimeout(v) \/ RegistryStep(v) \/ OtherCallStep(v) => bound' = bound
      BY DEF Reserve, CallAgain, CallTimeout, ConnectTimesOut, ReturnEarly, RegistryStep, Setup, Connect, Build,
             OtherCallStep, AwaitType, Deadline, Get, StoreGot, ClearSubscription
    <3> QED
      BY <1>3, <3>1 DEF CallStep
  <2>3. CASE UNCHANGED teardownVars /\ bound' = bound
    BY <2>1, <2>3, MovesKeep DEF teardownVars, TearInv, StepTypes
  <2>4. CASE BindHere(v)
    <3>1. pc' = [pc EXCEPT ![v] = pc'[v]] /\ pc'[v] \in {"connect", "get", "ready"} /\ v \in bound'
      BY <2>4 DEF BindHere, Bind, Goto, AfterConnecting, TearInv, StepTypes
    <3>2. ~Leaving(v)'
      BY <3>1 DEF Leaving, LeavingSteps
    <3>3. /\ bound' \ bound \subseteq {v} \ bound
          /\ came' = [u \in VIs |-> IF pc[u] \in {"events", "reset"} THEN came[u] \cup ({v} \ bound) ELSE {}]
      BY <2>4 DEF BindHere, Bind
    <3>4. /\ came' \in [VIs -> SUBSET VIs]
          /\ \A u \in VIs : pc[u] \in {"events", "reset"} => came[u] \cup (bound' \ bound) \subseteq came'[u]
      BY <3>3 DEF TearInv, StepTypes
    <3> QED
      BY <2>1, <2>4, <3>1, <3>2, <3>4, MovesKeep DEF BindHere
  <2> QED
    BY <2>2, <2>3, <2>4
<1>4. CASE AddEvent \/ DestroyEvent
  <2>1. RecordMoves /\ UNCHANGED <<bound, pending, came, owed>>
    <3>1. CASE AddEvent
      <4>1. /\ chan' = [chan EXCEPT ![Base] = IF @ = "absent" THEN "none" ELSE @]
            /\ UNCHANGED <<pc, bound, pending, came, owed>>
        BY <3>1 DEF AddEvent, callVars
      <4> QED
        BY <4>1, BaseIsPv DEF RecordMoves, ChannelStates, TearInv, StepTypes
    <3>2. CASE DestroyEvent
      BY <3>2 DEF DestroyEvent, recordVars, linkVars, callVars, RecordMoves, TearInv, StepTypes
    <3> QED
      BY <1>4, <3>1, <3>2
  <2> QED
    BY <2>1, MovesKeep DEF TearInv, StepTypes
<1> QED
  BY <1>1, <1>2, <1>3, <1>4, BeginKeeps, WalkKeeps, EventsKeeps, ResetKeeps, UnlistKeeps
  DEF Next, TeardownStep, TeardownTimeout

\* At the start no VI has set the PV up.
LEMMA TearInit == Init => TearInv
BY DEF Init, RecordInit, TearInv, StepTypes, ChannelStates, ItemInv, WalkInv, OwedInv

\* Teardowns and calls keep the state of the teardowns consistent.
THEOREM TeardownsRight == Spec => []TearInv
BY TearInit, TearStep, PTL DEF Spec

\* unreserved resets no PV that another instance uses, for any number of VIs, fields and
\* teardowns at a time: whoever is bound at a reset is on its way out itself, or came after
\* the teardown had looked for users.
THEOREM UsersSpared == Spec => SparedWhileNeeded
<1>1. TearInv /\ [Next]_vars =>
        [\A v \in VIs : \A p \in PVs : ResetPv(v, p) =>
           \A u \in bound \ {v} : Leaving(u) \/ u \in came[v]]_vars
  BY DEF TearInv, WalkInv, ResetPv
<1> QED
  BY <1>1, TeardownsRight, PTL DEF Spec, SparedWhileNeeded

\* Of any number of instances that leave at the same time the last one does reset the PV.
THEOREM LastResets == Spec => []LastOneResets
<1>1. TearInv => LastOneResets
  BY DEF TearInv, StepTypes, ItemInv, OwedInv, LastOneResets
<1> QED
  BY <1>1, TeardownsRight, PTL

-----------------------------------------------------------------------------
(* The order of the locks.                                                 *)

Steps == [do : {"lock", "share", "unlock"}, on : Locks]
Mutexes == {l \in Locks : ~Timed(l)}

\* Before step k of the path P, lock l has been taken and not been left since.
Open(P, l, k) ==
  \E a \in 1 .. k - 1 :
    /\ P[a].do # "unlock" /\ P[a].on = l
    /\ \A b \in a + 1 .. k - 1 : ~(P[b].do = "unlock" /\ P[b].on = l)

\* Step e is where a job goes on that gives up at step k.
EndOf(P, k, e) ==
  /\ P[e].do = "unlock" /\ P[e].on = P[k].on
  /\ \A b \in k .. e - 1 : ~(P[b].do = "unlock" /\ P[b].on = P[k].on)

\* A path that asks for each mutex after those of a lower rank, that has left all of them at its
\* end, and of which a job that gives up skips a part that leaves none of those it holds.
Ordered(P, rank) ==
  \A k \in 1 .. Len(P), l \in Mutexes :
    P[k].do # "unlock" /\ P[k].on \in Mutexes /\ Open(P, l, k) => rank[l] < rank[P[k].on]
Skips(P) ==
  \A k \in 1 .. Len(P) : P[k].do # "unlock" /\ Timed(P[k].on) =>
    \E e \in k + 1 .. Len(P) : EndOf(P, k, e) /\ \A l \in Mutexes : Open(P, l, k) => Open(P, l, e + 1)
Leaves(P) == \A l \in Mutexes : ~Open(P, l, Len(P) + 1)

Sound(P, rank) == P \in Seq(Steps) /\ Ordered(P, rank) /\ Skips(P) /\ Leaves(P)

\* A sound path that takes no locks but those of X.
Block(P, X, rank) == Sound(P, rank) /\ \A k \in 1 .. Len(P) : P[k].on \in X

\* What is open at the junction of two paths, and after it.
LEMMA OpenFirst ==
  ASSUME NEW s \in Seq(Steps), NEW t \in Seq(Steps), NEW l \in Locks, NEW k \in 1 .. Len(s) + 1
  PROVE  Open(s \o t, l, k) <=> Open(s, l, k)
<1>1. \A i \in 1 .. k - 1 : (s \o t)[i] = s[i]
  BY ConcatProperties, LenProperties
<1>2. \A a \in 1 .. k - 1 : \A b \in a + 1 .. k - 1 : b \in 1 .. k - 1
  BY LenProperties
<1>3. ASSUME NEW a \in 1 .. k - 1
      PROVE  (\A b \in a + 1 .. k - 1 : ~((s \o t)[b].do = "unlock" /\ (s \o t)[b].on = l)) <=>
             (\A b \in a + 1 .. k - 1 : ~(s[b].do = "unlock" /\ s[b].on = l))
  BY <1>1, <1>2
<1> QED
  BY <1>1, <1>3 DEF Open

LEMMA OpenSecond ==
  ASSUME NEW s \in Seq(Steps), NEW t \in Seq(Steps), NEW l \in Locks, NEW k \in 1 .. Len(t) + 1
  PROVE  /\ Open(t, l, k) => Open(s \o t, l, Len(s) + k)
         /\ Open(s \o t, l, Len(s) + k) => Open(t, l, k) \/ Open(s, l, Len(s) + 1)
<1> DEFINE P == s \o t  m == Len(s)
<1>1. m \in Nat /\ Len(t) \in Nat /\ k \in Nat
  BY LenProperties
<1>2. \A i \in 1 .. m : P[i] = s[i]
  BY ConcatProperties, LenProperties
<1>3. \A i \in 1 .. k - 1 : P[m + i] = t[i]
  BY ConcatProperties, LenProperties
<1> HIDE DEF P, m
<1>4. ASSUME Open(t, l, k) PROVE Open(P, l, m + k)
  <2>1. PICK a \in 1 .. k - 1 : /\ t[a].do # "unlock" /\ t[a].on = l
                               /\ \A b \in a + 1 .. k - 1 : ~(t[b].do = "unlock" /\ t[b].on = l)
    BY <1>4 DEF Open
  <2>2. m + a \in 1 .. (m + k) - 1 /\ P[m + a].do # "unlock" /\ P[m + a].on = l
    BY <1>1, <1>3, <2>1
  <2>3. ASSUME NEW b \in (m + a) + 1 .. (m + k) - 1 PROVE ~(P[b].do = "unlock" /\ P[b].on = l)
    <3>1. b - m \in a + 1 .. k - 1 /\ b - m \in 1 .. k - 1 /\ m + (b - m) = b
      BY <1>1
    <3>2. P[m + (b - m)] = t[b - m]
      BY <1>3, <3>1
    <3> QED
      BY <2>1, <3>1, <3>2
  <2> QED
    BY <2>2, <2>3 DEF Open
<1>5. ASSUME Open(P, l, m + k) PROVE Open(t, l, k) \/ Open(s, l, m + 1)
  <2>1. PICK a \in 1 .. (m + k) - 1 :
          /\ P[a].do # "unlock" /\ P[a].on = l
          /\ \A b \in a + 1 .. (m + k) - 1 : ~(P[b].do = "unlock" /\ P[b].on = l)
    BY <1>5 DEF Open
  <2>2. CASE a <= m
    <3>1. a \in 1 .. (m + 1) - 1 /\ s[a] = P[a]
      BY <1>1, <1>2, <2>2
    <3>2. \A b \in a + 1 .. (m + 1) - 1 : b \in a + 1 .. (m + k) - 1 /\ P[b] = s[b]
      BY <1>1, <1>2
    <3> QED
      BY <2>1, <3>1, <3>2 DEF Open
  <2>3. CASE a > m
    <3>1. a - m \in 1 .. k - 1 /\ t[a - m] = P[a]
      <4>1. a - m \in 1 .. k - 1 /\ m + (a - m) = a
        BY <1>1, <2>3
      <4> QED
        BY <1>3, <4>1
    <3>2. ASSUME NEW b \in (a - m) + 1 .. k - 1 PROVE ~(t[b].do = "unlock" /\ t[b].on = l)
      <4>1. m + b \in a + 1 .. (m + k) - 1 /\ b \in 1 .. k - 1
        BY <1>1, <2>3
      <4> QED
        BY <1>3, <2>1, <4>1
    <3> QED
      BY <2>1, <3>1, <3>2 DEF Open
  <2> QED
    BY <1>1, <2>2, <2>3
<1> QED
  BY <1>4, <1>5 DEF P, m

\* One sound path after the other.
LEMMA CatBlock ==
  ASSUME NEW rank, NEW s, NEW t, NEW X, NEW Y, Block(s, X, rank), Block(t, Y, rank)
  PROVE  Block(s \o t, X \cup Y, rank)
<1> DEFINE P == s \o t  m == Len(s)
<1>0. s \in Seq(Steps) /\ t \in Seq(Steps) /\ Mutexes \subseteq Locks
  BY DEF Block, Sound, Mutexes
<1>1. m \in Nat /\ Len(t) \in Nat /\ Len(P) = m + Len(t) /\ P \in Seq(Steps)
  BY <1>0, LenProperties, ConcatProperties
<1>2. \A i \in 1 .. m : i \in 1 .. Len(P) /\ P[i] = s[i]
  BY <1>0, <1>1, ConcatProperties
<1>3. \A i \in 1 .. Len(t) : m + i \in 1 .. Len(P) /\ P[m + i] = t[i]
  BY <1>0, <1>1, ConcatProperties
<1>4. \A k \in 1 .. Len(P) : k \in 1 .. m \/ \E i \in 1 .. Len(t) : k = m + i
  <2> TAKE k \in 1 .. Len(P)
  <2>1. k > m => k - m \in 1 .. Len(t) /\ k = m + (k - m)
    BY <1>1
  <2> QED
    BY <1>1, <2>1
<1>5. \A l \in Mutexes, k \in 1 .. m + 1 : Open(P, l, k) <=> Open(s, l, k)
  BY <1>0, OpenFirst
<1>6. \A l \in Mutexes, k \in 1 .. Len(t) + 1 : Open(P, l, m + k) <=> Open(t, l, k)
  <2>1. \A l \in Mutexes : ~Open(s, l, m + 1)
    BY DEF Block, Sound, Leaves
  <2> QED
    BY <1>0, <2>1, OpenSecond
<1> HIDE DEF P, m
<1>7. Ordered(P, rank)
  <2> SUFFICES ASSUME NEW k \in 1 .. Len(P), NEW l \in Mutexes, P[k].do # "unlock", P[k].on \in Mutexes,
                      Open(P, l, k)
               PROVE  rank[l] < rank[P[k].on]
    BY DEF Ordered
  <2>1. CASE k \in 1 .. m
    <3>1. k \in 1 .. m + 1 /\ k \in 1 .. Len(s)
      BY <1>1, <2>1 DEF m
    <3> QED
      BY <1>2, <1>5, <2>1, <3>1 DEF Block, Sound, Ordered
  <2>2. ASSUME NEW i \in 1 .. Len(t), k = m + i PROVE rank[l] < rank[P[k].on]
    <3>1. i \in 1 .. Len(t) + 1
      BY <1>1
    <3> QED
      BY <1>3, <1>6, <2>2, <3>1 DEF Block, Sound, Ordered
  <2> QED
    BY <1>4, <2>1, <2>2
<1>8. Skips(P)
  <2> SUFFICES ASSUME NEW k \in 1 .. Len(P), P[k].do # "unlock", Timed(P[k].on)
               PROVE  \E e \in k + 1 .. Len(P) :
                        EndOf(P, k, e) /\ \A l \in Mutexes : Open(P, l, k) => Open(P, l, e + 1)
    BY DEF Skips
  <2>1. CASE k \in 1 .. m
    <3>1. PICK e \in k + 1 .. m : EndOf(s, k, e) /\ \A l \in Mutexes : Open(s, l, k) => Open(s, l, e + 1)
      BY <1>2, <2>1 DEF Block, Sound, Skips, m
    <3>2. e \in k + 1 .. Len(P) /\ e \in 1 .. m /\ \A b \in k .. e - 1 : b \in 1 .. m
      BY <1>1, <2>1
    <3>3. EndOf(P, k, e)
      BY <1>2, <2>1, <3>1, <3>2 DEF EndOf
    <3>4. k \in 1 .. m + 1 /\ e + 1 \in 1 .. m + 1
      BY <1>1, <2>1
    <3> QED
      BY <1>5, <3>1, <3>2, <3>3, <3>4
  <2>2. ASSUME NEW i \in 1 .. Len(t), k = m + i
        PROVE  \E e \in k + 1 .. Len(P) :
                 EndOf(P, k, e) /\ \A l \in Mutexes : Open(P, l, k) => Open(P, l, e + 1)
    <3>1. PICK e \in i + 1 .. Len(t) :
            EndOf(t, i, e) /\ \A l \in Mutexes : Open(t, l, i) => Open(t, l, e + 1)
      BY <1>3, <2>2 DEF Block, Sound, Skips
    <3>2. m + e \in k + 1 .. Len(P) /\ e \in 1 .. Len(t)
      BY <1>1, <2>2
    <3>3. ASSUME NEW b \in k .. (m + e) - 1 PROVE ~(P[b].do = "unlock" /\ P[b].on = P[k].on)
      <4>1. b - m \in i .. e - 1 /\ b - m \in 1 .. Len(t) /\ m + (b - m) = b
        BY <1>1, <2>2
      <4> QED
        BY <1>3, <2>2, <3>1, <4>1 DEF EndOf
    <3>4. EndOf(P, k, m + e)
      BY <1>3, <2>2, <3>1, <3>2, <3>3 DEF EndOf
    <3>5. i \in 1 .. Len(t) + 1 /\ e + 1 \in 1 .. Len(t) + 1 /\ (m + e) + 1 = m + (e + 1)
      BY <1>1
    <3> QED
      BY <1>6, <2>2, <3>1, <3>2, <3>4, <3>5
  <2> QED
    BY <1>4, <2>1, <2>2
<1>9. Leaves(P)
  <2>1. Len(P) + 1 = m + (Len(t) + 1) /\ Len(t) + 1 \in 1 .. Len(t) + 1
    BY <1>1
  <2> QED
    BY <1>6, <2>1 DEF Leaves, Block, Sound
<1>10. \A k \in 1 .. Len(P) : P[k].on \in X \cup Y
  BY <1>2, <1>3, <1>4 DEF Block, m
<1> QED
  BY <1>1, <1>7, <1>8, <1>9, <1>10 DEF Block, Sound, P

\* What is done inside a lock, d being how the lock is taken.
Wrapped(d, l, s) == <<[do |-> d, on |-> l]>> \o s \o <<[do |-> "unlock", on |-> l]>>

WrapsOf(P, d, l, s) ==
  /\ P \in Seq(Steps) /\ Len(s) \in Nat /\ Len(P) = Len(s) + 2
  /\ P[1] = [do |-> d, on |-> l] /\ P[Len(s) + 2] = [do |-> "unlock", on |-> l]
  /\ \A k \in 1 .. Len(s) : P[1 + k] = s[k]

LEMMA WrappedSteps ==
  ASSUME NEW s \in Seq(Steps), NEW l \in Locks, NEW d \in {"lock", "share"}
  PROVE  WrapsOf(Wrapped(d, l, s), d, l, s)
<1> DEFINE a == <<[do |-> d, on |-> l]>>  c == <<[do |-> "unlock", on |-> l]>>  as == a \o s
           P == as \o c  n == Len(s)
<1>1. /\ a \in Seq(Steps) /\ Len(a) = 1 /\ a[1] = [do |-> d, on |-> l]
      /\ c \in Seq(Steps) /\ Len(c) = 1 /\ c[1] = [do |-> "unlock", on |-> l]
  BY DEF Steps
<1>2. n \in Nat
  BY LenProperties
<1> HIDE DEF a, c
<1>3. as \in Seq(Steps) /\ Len(as) = 1 + n /\ as[1] = a[1] /\ \A k \in 1 .. n : as[1 + k] = s[k]
  <2>1. /\ as \in Seq(Steps) /\ Len(as) = Len(a) + Len(s)
        /\ \A k \in 1 .. Len(a) + Len(s) : as[k] = IF k <= Len(a) THEN a[k] ELSE s[k - Len(a)]
    BY <1>1, ConcatProperties
  <2>2. 1 \in 1 .. 1 + n /\ \A k \in 1 .. n : 1 + k \in 1 .. 1 + n /\ ~(1 + k <= 1) /\ (1 + k) - 1 = k
    BY <1>2
  <2> HIDE DEF as
  <2>3. Len(as) = 1 + n
    BY <1>1, <2>1 DEF n
  <2>5. as[1] = a[1]
    <3>1. Len(a) = 1 /\ Len(s) = n
      BY <1>1 DEF n
    <3>2. 1 \in 1 .. Len(a) + Len(s) /\ 1 <= Len(a)
      BY <2>2, <3>1
    <3> QED
      BY <2>1, <3>2
  <2>4. ASSUME NEW k \in 1 .. n PROVE as[1 + k] = s[k]
    BY <1>1, <2>1, <2>2 DEF n
  <2> QED
    BY <2>1, <2>3, <2>4, <2>5
<1> HIDE DEF as, n
<1>4. P \in Seq(Steps) /\ Len(P) = (1 + n) + 1 /\ (\A k \in 1 .. 1 + n : P[k] = as[k]) /\ P[(1 + n) + 1] = c[1]
  <2>1. /\ P \in Seq(Steps) /\ Len(P) = Len(as) + Len(c)
        /\ \A k \in 1 .. Len(as) + Len(c) : P[k] = IF k <= Len(as) THEN as[k] ELSE c[k - Len(as)]
    BY <1>1, <1>3, ConcatProperties
  <2> HIDE DEF P
  <2>2. /\ (1 + n) + 1 \in 1 .. (1 + n) + 1 /\ ~((1 + n) + 1 <= 1 + n) /\ ((1 + n) + 1) - (1 + n) = 1
        /\ \A k \in 1 .. 1 + n : k \in 1 .. (1 + n) + 1 /\ k <= 1 + n
    BY <1>2
  <2>3. Len(P) = (1 + n) + 1
    BY <1>1, <1>3, <2>1
  <2>5. P[(1 + n) + 1] = c[1]
    <3>1. Len(as) = 1 + n /\ Len(c) = 1
      BY <1>1, <1>3
    <3> DEFINE e == (1 + n) + 1
    <3>2. e \in 1 .. Len(as) + Len(c) /\ ~(e <= Len(as)) /\ e - Len(as) = 1
      BY <2>2, <3>1
    <3> HIDE DEF e
    <3>3. P[e] = c[e - Len(as)]
      BY <2>1, <3>2
    <3> QED
      BY <3>2, <3>3 DEF e
  <2>4. ASSUME NEW k \in 1 .. 1 + n PROVE P[k] = as[k]
    BY <1>1, <1>3, <2>1, <2>2
  <2> QED
    BY <2>1, <2>3, <2>4, <2>5
<1> HIDE DEF P
<1>5. /\ P[1] = a[1] /\ P[n + 2] = c[1] /\ \A k \in 1 .. n : P[1 + k] = s[k]
  <2>1. 1 \in 1 .. 1 + n /\ (1 + n) + 1 = n + 2 /\ \A k \in 1 .. n : 1 + k \in 1 .. 1 + n
    BY <1>2
  <2> QED
    BY <1>3, <1>4, <2>1
<1>6. Len(P) = n + 2
  BY <1>2, <1>4
<1> QED
  BY <1>1, <1>2, <1>4, <1>5, <1>6 DEF Wrapped, WrapsOf, P, as, a, c, n

\* What is open inside a lock and after it.
LEMMA WrappedOpen ==
  ASSUME NEW s \in Seq(Steps), NEW l \in Locks, NEW d \in {"lock", "share"}, NEW m \in Locks,
         \A k \in 1 .. Len(s) : s[k].on # l
  PROVE  /\ ~Open(Wrapped(d, l, s), m, 1)
         /\ \A k \in 1 .. Len(s) + 1 :
              Open(Wrapped(d, l, s), m, 1 + k) <=> (m = l \/ Open(s, m, k))
         /\ Open(Wrapped(d, l, s), m, Len(s) + 3) => Open(s, m, Len(s) + 1)
<1> DEFINE P == Wrapped(d, l, s)  n == Len(s)
<1>1. /\ n \in Nat /\ Len(P) = n + 2
      /\ P[1] = [do |-> d, on |-> l] /\ P[n + 2] = [do |-> "unlock", on |-> l]
      /\ \A k \in 1 .. n : P[1 + k] = s[k]
  <2>1. WrapsOf(P, d, l, s)
    BY WrappedSteps
  <2> HIDE DEF P
  <2> QED
    BY <2>1 DEF WrapsOf
<1>2. \A k \in 1 .. n : s[k].on # l
  OBVIOUS
<1> HIDE DEF P, n
<1>3. ~Open(P, m, 1)
  BY DEF Open
<1>4. ASSUME NEW k \in 1 .. n + 1, Open(P, m, 1 + k), m # l PROVE Open(s, m, k)
  <2>1. PICK a \in 1 .. (1 + k) - 1 :
          /\ P[a].do # "unlock" /\ P[a].on = m
          /\ \A b \in a + 1 .. (1 + k) - 1 : ~(P[b].do = "unlock" /\ P[b].on = m)
    BY <1>4 DEF Open
  <2>2. a # 1
    BY <1>1, <1>4, <2>1
  <2>3. a - 1 \in 1 .. k - 1 /\ s[a - 1] = P[a]
    <3>1. a - 1 \in 1 .. k - 1 /\ a - 1 \in 1 .. n /\ 1 + (a - 1) = a
      BY <1>1, <2>2
    <3> QED
      BY <1>1, <3>1
  <2>4. ASSUME NEW b \in (a - 1) + 1 .. k - 1 PROVE ~(s[b].do = "unlock" /\ s[b].on = m)
    <3>1. 1 + b \in a + 1 .. (1 + k) - 1 /\ b \in 1 .. n
      BY <1>1, <2>2
    <3> QED
      BY <1>1, <2>1, <3>1
  <2> QED
    BY <2>1, <2>3, <2>4 DEF Open
<1>5. ASSUME NEW k \in 1 .. n + 1, Open(s, m, k) PROVE Open(P, m, 1 + k)
  <2>1. PICK a \in 1 .. k - 1 : /\ s[a].do # "unlock" /\ s[a].on = m
                               /\ \A b \in a + 1 .. k - 1 : ~(s[b].do = "unlock" /\ s[b].on = m)
    BY <1>5 DEF Open
  <2>2. 1 + a \in 1 .. (1 + k) - 1 /\ P[1 + a] = s[a]
    BY <1>1
  <2>3. ASSUME NEW b \in (1 + a) + 1 .. (1 + k) - 1 PROVE ~(P[b].do = "unlock" /\ P[b].on = m)
    <3>1. b - 1 \in a + 1 .. k - 1 /\ b - 1 \in 1 .. n /\ 1 + (b - 1) = b
      BY <1>1
    <3> QED
      BY <1>1, <2>1, <3>1
  <2> QED
    BY <2>1, <2>2, <2>3 DEF Open
<1>6. ASSUME NEW k \in 1 .. n + 1, m = l PROVE Open(P, m, 1 + k)
  <2>1. 1 \in 1 .. (1 + k) - 1 /\ P[1].do # "unlock" /\ P[1].on = m
    BY <1>1, <1>6
  <2>2. ASSUME NEW b \in 1 + 1 .. (1 + k) - 1 PROVE P[b].on # m
    <3>1. b - 1 \in 1 .. n /\ 1 + (b - 1) = b
      BY <1>1
    <3> QED
      BY <1>1, <1>2, <1>6, <3>1
  <2> QED
    BY <2>1, <2>2 DEF Open
<1>7. ASSUME Open(P, m, n + 3) PROVE Open(s, m, n + 1)
  <2>1. PICK a \in 1 .. (n + 3) - 1 :
          /\ P[a].do # "unlock" /\ P[a].on = m
          /\ \A b \in a + 1 .. (n + 3) - 1 : ~(P[b].do = "unlock" /\ P[b].on = m)
    BY <1>7 DEF Open
  <2>2. a # n + 2
    BY <1>1, <2>1
  <2>3. n + 2 \in a + 1 .. (n + 3) - 1 /\ a \in 1 .. (n + 2) - 1
    BY <1>1, <2>2
  <2>4. m # l
    BY <1>1, <2>1, <2>3
  <2>5. \A b \in a + 1 .. (n + 2) - 1 : b \in a + 1 .. (n + 3) - 1
    BY <1>1
  <2>6. Open(P, m, n + 2)
    BY <2>1, <2>3, <2>5 DEF Open
  <2>7. n + 1 \in 1 .. n + 1 /\ 1 + (n + 1) = n + 2
    BY <1>1
  <2> QED
    BY <1>4, <2>4, <2>6, <2>7
<1> QED
  BY <1>3, <1>4, <1>5, <1>6, <1>7 DEF P, n

\* A sound path inside a lock: inside a mutex, one that asks for mutexes of a higher rank only.
LEMMA WrappedBlock ==
  ASSUME NEW rank, NEW s, NEW X, NEW l \in Locks, NEW d \in {"lock", "share"},
         Block(s, X, rank), l \notin X, l \in Mutexes => \A m \in X \cap Mutexes : rank[l] < rank[m]
  PROVE  Block(Wrapped(d, l, s), X \cup {l}, rank)
<1> DEFINE P == Wrapped(d, l, s)  n == Len(s)
<1>0. s \in Seq(Steps) /\ Mutexes \subseteq Locks /\ \A k \in 1 .. n : s[k].on \in X /\ s[k].on # l
  BY DEF Block, Sound, Mutexes
<1>1. /\ P \in Seq(Steps) /\ n \in Nat /\ Len(P) = n + 2
      /\ P[1] = [do |-> d, on |-> l] /\ P[n + 2] = [do |-> "unlock", on |-> l]
      /\ \A k \in 1 .. n : P[1 + k] = s[k]
  <2>1. WrapsOf(P, d, l, s)
    BY <1>0, WrappedSteps
  <2> HIDE DEF P
  <2> QED
    BY <2>1 DEF WrapsOf
<1>2. \A m \in Mutexes :
        /\ ~Open(P, m, 1)
        /\ \A k \in 1 .. n + 1 : Open(P, m, 1 + k) <=> (m = l \/ Open(s, m, k))
        /\ Open(P, m, n + 3) => Open(s, m, n + 1)
  BY <1>0, WrappedOpen
<1>3. \A k \in 1 .. Len(P) : k = 1 \/ k = n + 2 \/ \E i \in 1 .. n : k = 1 + i
  <2> TAKE k \in 1 .. Len(P)
  <2>1. k # 1 /\ k # n + 2 => k - 1 \in 1 .. n /\ k = 1 + (k - 1)
    BY <1>1
  <2> QED
    BY <2>1
<1>4. Sound(s, rank)
  BY DEF Block
<1>5. \A k \in 1 .. n : k \in 1 .. n + 1
  BY <1>1
<1> HIDE DEF P, n
<1>7. Ordered(P, rank)
  <2> SUFFICES ASSUME NEW k \in 1 .. Len(P), NEW m \in Mutexes, P[k].do # "unlock", P[k].on \in Mutexes,
                      Open(P, m, k)
               PROVE  rank[m] < rank[P[k].on]
    BY DEF Ordered
  <2>1. k # 1 /\ k # n + 2
    BY <1>1, <1>2
  <2>2. PICK i \in 1 .. n : k = 1 + i
    BY <1>3, <2>1
  <2>3. P[k] = s[i] /\ s[i].on \in X
    BY <1>0, <1>1, <2>2
  <2>4. CASE m = l
    BY <2>3, <2>4
  <2>5. CASE Open(s, m, i)
    BY <1>4, <2>3, <2>5 DEF Sound, Ordered, n
  <2> QED
    BY <1>2, <1>5, <2>2, <2>4, <2>5
<1>8. Skips(P)
  <2> SUFFICES ASSUME NEW k \in 1 .. Len(P), P[k].do # "unlock", Timed(P[k].on)
               PROVE  \E e \in k + 1 .. Len(P) :
                        EndOf(P, k, e) /\ \A m \in Mutexes : Open(P, m, k) => Open(P, m, e + 1)
    BY DEF Skips
  <2>1. CASE k = 1
    <3>1. n + 2 \in k + 1 .. Len(P)
      BY <1>1, <2>1
    <3>2. ASSUME NEW b \in k .. (n + 2) - 1 PROVE ~(P[b].do = "unlock" /\ P[b].on = P[k].on)
      <4>1. b # n + 2 /\ b \in 1 .. Len(P)
        BY <1>1, <2>1
      <4>2. CASE b = 1
        BY <1>1, <2>1, <4>2
      <4>3. ASSUME NEW i \in 1 .. n, b = 1 + i PROVE P[b].on # P[k].on
        <5>1. P[b].on = s[i].on /\ P[k].on = l
          BY <1>1, <2>1, <4>3
        <5> QED
          BY <1>0, <5>1
      <4> QED
        BY <1>3, <4>1, <4>2, <4>3
    <3>3. EndOf(P, k, n + 2)
      BY <1>1, <2>1, <3>2 DEF EndOf
    <3> QED
      BY <1>2, <2>1, <3>1, <3>3
  <2>2. ASSUME NEW i \in 1 .. n, k = 1 + i
        PROVE  \E e \in k + 1 .. Len(P) :
                 EndOf(P, k, e) /\ \A m \in Mutexes : Open(P, m, k) => Open(P, m, e + 1)
    <3>1. PICK e \in i + 1 .. n :
            EndOf(s, i, e) /\ \A m \in Mutexes : Open(s, m, i) => Open(s, m, e + 1)
      BY <1>1, <1>4, <2>2 DEF Sound, Skips, n
    <3>2. 1 + e \in k + 1 .. Len(P) /\ e \in 1 .. n
      BY <1>1, <2>2
    <3>3. ASSUME NEW b \in k .. (1 + e) - 1 PROVE ~(P[b].do = "unlock" /\ P[b].on = P[k].on)
      <4>1. b - 1 \in i .. e - 1 /\ b - 1 \in 1 .. n /\ 1 + (b - 1) = b
        BY <1>1, <2>2
      <4>2. P[b] = s[b - 1] /\ P[k] = s[i]
        BY <1>1, <2>2, <4>1
      <4>3. ~(s[b - 1].do = "unlock" /\ s[b - 1].on = s[i].on)
        BY <3>1, <4>1 DEF EndOf
      <4> QED
        BY <4>2, <4>3
    <3>4. EndOf(P, k, 1 + e)
      BY <1>1, <2>2, <3>1, <3>2, <3>3 DEF EndOf
    <3>5. i \in 1 .. n + 1 /\ e + 1 \in 1 .. n + 1 /\ (1 + e) + 1 = 1 + (e + 1)
      BY <1>1
    <3> QED
      BY <1>2, <2>2, <3>1, <3>2, <3>4, <3>5
  <2>3. k # n + 2
    BY <1>1
  <2> QED
    BY <1>3, <2>1, <2>2, <2>3
<1>9. Leaves(P)
  <2>1. Len(P) + 1 = n + 3
    BY <1>1
  <2> QED
    BY <1>2, <1>4, <2>1 DEF Leaves, Sound, n
<1>10. \A k \in 1 .. Len(P) : P[k].on \in X \cup {l}
  <2> TAKE k \in 1 .. Len(P)
  <2>1. CASE k = 1 \/ k = n + 2
    BY <1>1, <2>1
  <2>2. ASSUME NEW i \in 1 .. n, k = 1 + i PROVE P[k].on \in X
    BY <1>0, <1>1, <2>2
  <2> QED
    BY <1>3, <2>1, <2>2
<1> QED
  BY <1>1, <1>7, <1>8, <1>9, <1>10 DEF Block, Sound, P

\* Nothing is done at all.
LEMMA NothingBlock ==
  ASSUME NEW rank
  PROVE  Block(Nothing, {}, rank)
BY DEF Block, Sound, Nothing, Ordered, Skips, Leaves, Open

LEMMA WiderBlock ==
  ASSUME NEW rank, NEW s, NEW X, NEW Y, Block(s, X, rank), X \subseteq Y
  PROVE  Block(s, Y, rank)
BY DEF Block

LEMMA LockedBlock ==
  ASSUME NEW rank, NEW s, NEW X, NEW l \in Locks,
         Block(s, X, rank), l \notin X, l \in Mutexes => \A m \in X \cap Mutexes : rank[l] < rank[m]
  PROVE  Block(Locked(l, s), X \cup {l}, rank)
BY WrappedBlock DEF Locked, Wrapped

LEMMA SharedBlock ==
  ASSUME NEW rank, NEW s, NEW X, Block(s, X, rank), pvRegistryLock \notin X
  PROVE  Block(Shared(s), X \cup {pvRegistryLock}, rank)
<1>1. pvRegistryLock \in Locks /\ pvRegistryLock \notin Mutexes
  BY DEF Locks, Mutexes, Timed
<1> QED
  BY <1>1, WrappedBlock DEF Shared, Wrapped

\* A lock whose block holds nothing.
LEMMA LoneBlock ==
  ASSUME NEW rank, NEW l \in Locks
  PROVE  Block(Locked(l, Nothing), {l}, rank)
<1>1. Block(Locked(l, Nothing), {} \cup {l}, rank)
  BY NothingBlock, LockedBlock
<1> QED
  BY <1>1, WiderBlock

LEMMA LockKinds ==
  /\ Mutexes \subseteq Locks
  /\ \A i \in Instances : arrayMutex(i) \in Mutexes /\ Other(i) \in Instances /\ Other(i) # i
  /\ \A i, k \in Instances : arrayMutex(i) = arrayMutex(k) => i = k
  /\ \A p \in {"base", "child"} : ioMutex(p) \in Mutexes
  /\ ioMutex("base") # ioMutex("child")
  /\ {instancesMutex, eventMutex, callbackLock} \subseteq Mutexes
  /\ {getLock, pvRegistryLock} \subseteq Locks /\ getLock \notin Mutexes /\ pvRegistryLock \notin Mutexes
  /\ Mutexes = {instancesMutex, eventMutex, callbackLock}
                 \cup {arrayMutex(i) : i \in Instances} \cup {ioMutex(p) : p \in {"base", "child"}}
  /\ getLock[1] = "get" /\ pvRegistryLock[1] = "registry" /\ instancesMutex[1] = "instances"
  /\ eventMutex[1] = "event" /\ callbackLock[1] = "callback"
  /\ \A i \in Instances : arrayMutex(i)[1] = "array" /\ arrayMutex(i)[2] = i
  /\ \A p \in {"base", "child"} : ioMutex(p)[1] = "io" /\ ioMutex(p)[2] = p
<1>1. \A i \in Instances : arrayMutex(i)[1] = "array" /\ arrayMutex(i)[2] = i
  BY DEF arrayMutex
<1>2. \A p \in {"base", "child"} : ioMutex(p)[1] = "io" /\ ioMutex(p)[2] = p
  BY DEF ioMutex
<1>3. /\ getLock[1] = "get" /\ pvRegistryLock[1] = "registry" /\ instancesMutex[1] = "instances"
      /\ eventMutex[1] = "event" /\ callbackLock[1] = "callback"
  BY DEF getLock, pvRegistryLock, instancesMutex, eventMutex, callbackLock
<1>4. \A i \in Instances : Other(i) \in Instances /\ Other(i) # i
  BY DEF Instances, Other
<1>5. \A l \in {instancesMutex, eventMutex, callbackLock}
                 \cup {arrayMutex(i) : i \in Instances} \cup {ioMutex(p) : p \in {"base", "child"}} :
        l # getLock /\ l # pvRegistryLock
  BY <1>1, <1>2, <1>3
<1>6. Mutexes = {instancesMutex, eventMutex, callbackLock}
                  \cup {arrayMutex(i) : i \in Instances} \cup {ioMutex(p) : p \in {"base", "child"}}
  BY <1>5 DEF Mutexes, Timed, Locks
<1>7. /\ Mutexes \subseteq Locks /\ {getLock, pvRegistryLock} \subseteq Locks
      /\ getLock \notin Mutexes /\ pvRegistryLock \notin Mutexes
  BY DEF Mutexes, Timed, Locks
<1>8. ioMutex("base") # ioMutex("child")
  BY <1>2
<1> QED
  BY <1>1, <1>2, <1>3, <1>4, <1>6, <1>7, <1>8

-----------------------------------------------------------------------------
(* The blocks the paths consist of.                                        *)

LEMMA SmallBlocks ==
  ASSUME NEW rank
  PROVE  /\ Block(Lookup, {pvRegistryLock}, rank)
         /\ Block(Register, {pvRegistryLock}, rank)
         /\ Block(EachIo, {ioMutex("base"), ioMutex("child")}, rank)
         /\ \A p \in {"base", "child"} : Block(PostEvent(p), {eventMutex, ioMutex(p)}, rank)
         /\ Block(ClearHandles, {callbackLock}, rank)
<1>1. Block(Lookup, {} \cup {pvRegistryLock}, rank)
  BY NothingBlock, SharedBlock DEF Lookup
<1>2. Block(Register, {pvRegistryLock}, rank)
  BY LockKinds, LoneBlock DEF Register
<1>3. /\ Block(Locked(ioMutex("base"), Nothing), {ioMutex("base")}, rank)
      /\ Block(Locked(ioMutex("child"), Nothing), {ioMutex("child")}, rank)
      /\ Block(Locked(eventMutex, Nothing), {eventMutex}, rank)
      /\ Block(Locked(callbackLock, Nothing), {callbackLock}, rank)
  BY LockKinds, LoneBlock
<1>4. Block(EachIo, {ioMutex("base")} \cup {ioMutex("child")}, rank)
  BY <1>3, CatBlock DEF EachIo
<1>5. ASSUME NEW p \in {"base", "child"} PROVE Block(PostEvent(p), {eventMutex} \cup {ioMutex(p)}, rank)
  BY <1>3, CatBlock DEF PostEvent
<1>6. ASSUME NEW p \in {"base", "child"} PROVE Block(PostEvent(p), {eventMutex, ioMutex(p)}, rank)
  BY <1>5, WiderBlock
<1>7. Block(Lookup, {pvRegistryLock}, rank) /\ Block(EachIo, {ioMutex("base"), ioMutex("child")}, rank)
  BY <1>1, <1>4, WiderBlock
<1> QED
  BY <1>2, <1>3, <1>6, <1>7 DEF ClearHandles

\* getValue and putValue: the mutex of the list before that of the instance, all else by itself.
CallLocks(i) == {getLock, pvRegistryLock, instancesMutex, arrayMutex(i), ioMutex("base"), ioMutex("child")}

LEMMA CallBlocks ==
  ASSUME NEW rank, NEW i \in Instances, rank[instancesMutex] < rank[arrayMutex(i)]
  PROVE  /\ Block(GetPath(i), CallLocks(i), rank)
         /\ Block(PutPath(i), CallLocks(i), rank)
<1> DEFINE X == CallLocks(i)  mi == {arrayMutex(i), pvRegistryLock}
<1>1. /\ Block(Lookup, {pvRegistryLock}, rank) /\ Block(Register, {pvRegistryLock}, rank)
      /\ Block(EachIo, {ioMutex("base"), ioMutex("child")}, rank)
  BY SmallBlocks
<1>2. Block(Locked(arrayMutex(i), Register), {pvRegistryLock} \cup {arrayMutex(i)}, rank)
  BY <1>1, LockKinds, LockedBlock
<1>3. Block(Locked(arrayMutex(i), Register), mi, rank)
  BY <1>2, WiderBlock
<1>4. Block(Lookup \o Locked(arrayMutex(i), Register), {pvRegistryLock} \cup mi, rank)
  BY <1>1, <1>3, CatBlock
<1>5. Block(Lookup \o Locked(arrayMutex(i), Register), mi, rank)
  BY <1>4, WiderBlock
<1>6. /\ instancesMutex \in Locks /\ instancesMutex \notin mi /\ instancesMutex \notin {pvRegistryLock}
      /\ \A m \in mi \cap Mutexes : rank[instancesMutex] < rank[m]
      /\ \A m \in {pvRegistryLock} \cap Mutexes : rank[instancesMutex] < rank[m]
  BY LockKinds
<1>7. Block(Rebind(i), mi \cup {instancesMutex}, rank)
  BY <1>3, <1>6, LockedBlock DEF Rebind
<1>8. Block(ResolvePut(i), mi \cup {instancesMutex}, rank)
  BY <1>5, <1>6, LockedBlock DEF ResolvePut
<1>9. Block(ResolveGet, {pvRegistryLock} \cup {instancesMutex}, rank)
  BY <1>1, <1>6, LockedBlock DEF ResolveGet
<1>10. Block(Locked(instancesMutex, Nothing), {instancesMutex}, rank)
       /\ Block(UpdateError(i), {arrayMutex(i)}, rank)
  BY LockKinds, LoneBlock DEF UpdateError
<1>11. pvRegistryLock \notin {ioMutex("base"), ioMutex("child")}
       /\ getLock \notin {ioMutex("base"), ioMutex("child"), pvRegistryLock}
  BY LockKinds
<1>12. Block(SetupPvs, {ioMutex("base"), ioMutex("child")} \cup {pvRegistryLock}, rank)
  BY <1>1, <1>11, LockKinds, LockedBlock DEF SetupPvs
<1>13. Block(Shared(EachIo), {ioMutex("base"), ioMutex("child")} \cup {pvRegistryLock}, rank)
  BY <1>1, <1>11, SharedBlock
<1>14. Block(Shared(EachIo), {ioMutex("base"), ioMutex("child"), pvRegistryLock}, rank)
  BY <1>13, WiderBlock
<1>15. Block(Populate, {ioMutex("base"), ioMutex("child"), pvRegistryLock} \cup {getLock}, rank)
  BY <1>11, <1>14, LockKinds, LockedBlock DEF Populate
<1>16. /\ mi \cup {instancesMutex} \subseteq X /\ {pvRegistryLock} \cup {instancesMutex} \subseteq X
       /\ {instancesMutex} \subseteq X /\ {arrayMutex(i)} \subseteq X /\ {pvRegistryLock} \subseteq X
       /\ mi \subseteq X /\ {ioMutex("base"), ioMutex("child")} \cup {pvRegistryLock} \subseteq X
       /\ {ioMutex("base"), ioMutex("child"), pvRegistryLock} \cup {getLock} \subseteq X
       /\ X \cup X = X
  BY DEF CallLocks
<1> HIDE DEF X, mi
<1>17. /\ Block(Rebind(i), X, rank) /\ Block(ResolvePut(i), X, rank) /\ Block(ResolveGet, X, rank)
       /\ Block(UpdateError(i), X, rank) /\ Block(Lookup, X, rank)
       /\ Block(Locked(instancesMutex, Nothing), X, rank) /\ Block(Locked(arrayMutex(i), Register), X, rank)
       /\ Block(SetupPvs, X, rank) /\ Block(Populate, X, rank)
  BY <1>1, <1>3, <1>7, <1>8, <1>9, <1>10, <1>12, <1>15, <1>16, WiderBlock
<1>18. ASSUME NEW s, NEW t, Block(s, X, rank), Block(t, X, rank) PROVE Block(s \o t, X, rank)
  <2>1. Block(s \o t, X \cup X, rank)
    BY <1>18, CatBlock
  <2> QED
    BY <1>16, <2>1
<1>19. Block(BindArrays(i), X, rank)
  BY <1>17, <1>18 DEF BindArrays
<1>20. Block(GetPath(i), X, rank)
  BY <1>17, <1>18, <1>19 DEF GetPath
<1>21. Block(PutPath(i), X, rank)
  BY <1>17, <1>18 DEF PutPath
<1> QED
  BY <1>20, <1>21 DEF X

LEMMA GetNoMdelBlocks ==
  ASSUME NEW rank, NEW i \in Instances, rank[instancesMutex] < rank[arrayMutex(i)],
         rank[ioMutex("base")] < rank[callbackLock]
  PROVE  Block(GetNoMdelPath(i), CallLocks(i) \cup {callbackLock}, rank)
<1>1. /\ ioMutex("base") \in Locks /\ ioMutex("base") \notin {callbackLock}
      /\ \A m \in {callbackLock} \cap Mutexes : rank[ioMutex("base")] < rank[m]
  BY LockKinds
<1>2. Block(Locked(ioMutex("base"), ClearHandles), {callbackLock} \cup {ioMutex("base")}, rank)
  BY <1>1, SmallBlocks, LockedBlock
<1>3. Block(GetNoMdelPath(i), CallLocks(i) \cup ({callbackLock} \cup {ioMutex("base")}), rank)
  BY <1>2, CallBlocks, CatBlock DEF GetNoMdelPath
<1> QED
  BY <1>3, WiderBlock DEF CallLocks

\* unreserved: the mutex of its own instance, then that of the list, then those of the others.
LEMMA UnreservedBlocks ==
  ASSUME NEW rank, NEW i \in Instances, rank[arrayMutex(i)] < rank[instancesMutex],
         rank[instancesMutex] < rank[arrayMutex(Other(i))], rank[arrayMutex(i)] < rank[arrayMutex(Other(i))]
  PROVE  Block(UnreservedPath(i), Locks, rank)
<1> DEFINE o == arrayMutex(Other(i))  X == Locks
<1>1. /\ o \in Locks /\ arrayMutex(i) \in Locks /\ instancesMutex \in Locks /\ o # arrayMutex(i)
      /\ instancesMutex # o /\ instancesMutex # arrayMutex(i) /\ eventMutex \in Locks
  BY LockKinds
<1>2. /\ Block(Locked(o, Nothing), {o}, rank) /\ Block(CollectBasePvs(i), {arrayMutex(i)}, rank)
      /\ Block(DetachArrays(i), {arrayMutex(i)}, rank)
      /\ Block(Locked(instancesMutex, Nothing), {instancesMutex}, rank)
      /\ Block(Locked(eventMutex, Nothing), {eventMutex}, rank)
  BY <1>1, LoneBlock DEF CollectBasePvs, DetachArrays
<1> HIDE DEF o
<1>3. Block(SharedByOther(i), {o} \cup {instancesMutex}, rank)
  <2>1. instancesMutex \notin {o} /\ \A m \in {o} \cap Mutexes : rank[instancesMutex] < rank[m]
    BY <1>1 DEF o
  <2>2. Block(Locked(instancesMutex, Locked(o, Nothing)), {o} \cup {instancesMutex}, rank)
    BY <1>1, <1>2, <2>1, LockedBlock
  <2> QED
    BY <2>2 DEF SharedByOther, o
<1>4. Block(SharedByOther(i), {o, instancesMutex}, rank)
  BY <1>3, WiderBlock
<1>5. Block(CleanEntries(i), {o, instancesMutex} \cup {arrayMutex(i)}, rank)
  <2>1. /\ arrayMutex(i) \notin {o, instancesMutex}
        /\ \A m \in {o, instancesMutex} \cap Mutexes : rank[arrayMutex(i)] < rank[m]
    BY <1>1 DEF o
  <2> QED
    BY <1>1, <1>4, <2>1, LockedBlock DEF CleanEntries
<1>6. Block(UsedElsewhere(i), X, rank)
  <2>1. CASE <<"unreserved", Other(i)>> \in Jobs
    <3>1. UsedElsewhere(i) = Locked(instancesMutex, Nothing)
      BY <2>1 DEF UsedElsewhere
    <3> QED
      BY <1>1, <1>2, <3>1, WiderBlock
  <2>2. CASE <<"unreserved", Other(i)>> \notin Jobs
    <3>1. UsedElsewhere(i) = SharedByOther(i)
      BY <2>2 DEF UsedElsewhere, SharedByOther
    <3> QED
      BY <1>1, <1>4, <3>1, WiderBlock
  <2> QED
    BY <2>1, <2>2
<1>7. Block(Shared(EachIo), {ioMutex("base"), ioMutex("child")} \cup {pvRegistryLock}, rank)
  BY SmallBlocks, LockKinds, SharedBlock
<1>8. /\ {ioMutex("base"), ioMutex("child")} \cup {pvRegistryLock} \subseteq X /\ {pvRegistryLock} \subseteq X
      /\ {callbackLock} \subseteq X /\ {arrayMutex(i)} \subseteq X /\ {instancesMutex} \subseteq X
      /\ {eventMutex} \subseteq X /\ {o, instancesMutex} \cup {arrayMutex(i)} \subseteq X /\ X \cup X = X
  BY <1>1, LockKinds
<1> HIDE DEF X
<1>9. /\ Block(Shared(EachIo), X, rank) /\ Block(Register, X, rank) /\ Block(ClearHandles, X, rank)
      /\ Block(CollectBasePvs(i), X, rank) /\ Block(DetachArrays(i), X, rank)
      /\ Block(Locked(instancesMutex, Nothing), X, rank) /\ Block(Locked(eventMutex, Nothing), X, rank)
      /\ Block(CleanEntries(i), X, rank)
  BY <1>2, <1>5, <1>7, <1>8, SmallBlocks, WiderBlock
<1>10. ASSUME NEW s, NEW t, Block(s, X, rank), Block(t, X, rank) PROVE Block(s \o t, X, rank)
  <2>1. Block(s \o t, X \cup X, rank)
    BY <1>10, CatBlock
  <2> QED
    BY <1>8, <2>1
<1>11. Block(CollectChildren, X, rank) /\ Block(ResetPvs, X, rank) /\ Block(UnlistInstance, X, rank)
  BY <1>9, <1>10 DEF CollectChildren, ResetPvs, UnlistInstance
<1> QED
  BY <1>6, <1>9, <1>10, <1>11 DEF UnreservedPath, X

\* disconnectPVs: the parent's event inside the mutex of the child.
LEMMA DisconnectBlocks ==
  ASSUME NEW rank, rank[ioMutex("child")] < rank[eventMutex], rank[ioMutex("child")] < rank[ioMutex("base")]
  PROVE  Block(DisconnectPath, Locks, rank)
<1> DEFINE X == Locks
<1>1. /\ ioMutex("child") \in Locks /\ ioMutex("child") \notin {eventMutex, ioMutex("base")}
      /\ \A m \in {eventMutex, ioMutex("base")} \cap Mutexes : rank[ioMutex("child")] < rank[m]
  BY LockKinds
<1>2. Block(Locked(ioMutex("child"), PostEvent("base")), {eventMutex, ioMutex("base")} \cup {ioMutex("child")}, rank)
  BY <1>1, SmallBlocks, LockedBlock
<1>3. Block(Shared(EachIo), {ioMutex("base"), ioMutex("child")} \cup {pvRegistryLock}, rank)
  BY SmallBlocks, LockKinds, SharedBlock
<1>4. Block(Locked(instancesMutex, Nothing), {instancesMutex}, rank)
  BY LockKinds, LoneBlock
<1>5. /\ {ioMutex("base"), ioMutex("child")} \cup {pvRegistryLock} \subseteq X
      /\ {ioMutex("base"), ioMutex("child")} \subseteq X /\ {eventMutex, ioMutex("child")} \subseteq X
      /\ {callbackLock} \subseteq X /\ {instancesMutex} \subseteq X
      /\ {eventMutex, ioMutex("base")} \cup {ioMutex("child")} \subseteq X /\ X \cup X = X
  BY LockKinds
<1> HIDE DEF X
<1>6. /\ Block(Shared(EachIo), X, rank) /\ Block(EachIo, X, rank) /\ Block(ClearHandles, X, rank)
      /\ Block(PostEvent("child"), X, rank) /\ Block(Locked(instancesMutex, Nothing), X, rank)
      /\ Block(Locked(ioMutex("child"), PostEvent("base")), X, rank)
  BY <1>2, <1>3, <1>4, <1>5, SmallBlocks, WiderBlock
<1>7. ASSUME NEW s, NEW t, Block(s, X, rank), Block(t, X, rank) PROVE Block(s \o t, X, rank)
  <2>1. Block(s \o t, X \cup X, rank)
    BY <1>7, CatBlock
  <2> QED
    BY <1>5, <2>1
<1>8. Block(DisconnectPv, X, rank) /\ Block(CollectChildren, X, rank)
  BY <1>6, <1>7 DEF DisconnectPv, CollectChildren
<1> QED
  BY <1>6, <1>7, <1>8 DEF DisconnectPath, X

\* connectionChanged: all inside the lock of the library.
LEMMA CallbackBlocks ==
  ASSUME NEW rank, rank[callbackLock] < rank[eventMutex], rank[callbackLock] < rank[ioMutex("base")]
  PROVE  Block(CallbackPath, Locks, rank)
<1> DEFINE X == {eventMutex, ioMutex("base")}
<1>1. Block(Locked(ioMutex("base"), Nothing), {ioMutex("base")}, rank) /\ Block(PostEvent("base"), X, rank)
  BY LockKinds, LoneBlock, SmallBlocks
<1>2. Block(Locked(ioMutex("base"), Nothing) \o PostEvent("base"), {ioMutex("base")} \cup X, rank)
  BY <1>1, CatBlock
<1>3. Block(Locked(ioMutex("base"), Nothing) \o PostEvent("base"), X, rank)
  BY <1>2, WiderBlock
<1>4. callbackLock \in Locks /\ callbackLock \notin X /\ \A m \in X \cap Mutexes : rank[callbackLock] < rank[m]
  BY LockKinds
<1>5. Block(CallbackPath, X \cup {callbackLock}, rank)
  BY <1>3, <1>4, LockedBlock DEF CallbackPath
<1>6. X \cup {callbackLock} \subseteq Locks
  BY LockKinds
<1> QED
  BY <1>5, <1>6, WiderBlock

-----------------------------------------------------------------------------
(* The calls that may be in progress together, and the rank of the locks.  *)

\* The rank depends on the calls: an instance that is unreserved comes before the list, and the
\* lock of the library comes first unless a subscription is cleared inside an item's mutex.
RankIn(L) ==
  [l \in Mutexes |->
     CASE l[1] = "callback" -> IF \E j \in L : j[1] = "getValueNoMdel" THEN 9 ELSE 1
       [] l[1] = "io" -> IF l[2] = "child" THEN 2 ELSE 4
       [] l[1] = "event" -> 3
       [] l[1] = "array" -> IF \E j \in L : j[1] = "unreserved" /\ j[2] = l[2] THEN 5 ELSE 7
       [] OTHER -> 6]

LEMMA RankValues ==
  ASSUME NEW L
  PROVE  /\ RankIn(L)[ioMutex("child")] = 2 /\ RankIn(L)[eventMutex] = 3 /\ RankIn(L)[ioMutex("base")] = 4
         /\ RankIn(L)[instancesMutex] = 6
         /\ RankIn(L)[callbackLock] = IF \E j \in L : j[1] = "getValueNoMdel" THEN 9 ELSE 1
         /\ \A i \in Instances : RankIn(L)[arrayMutex(i)] =
              IF \E j \in L : j[1] = "unreserved" /\ j[2] = i THEN 5 ELSE 7
         /\ \A l \in Mutexes : RankIn(L)[l] \in 1 .. 9
<1>1. RankIn(L)[ioMutex("child")] = 2 /\ RankIn(L)[ioMutex("base")] = 4
  BY LockKinds DEF RankIn
<1>2. RankIn(L)[eventMutex] = 3 /\ RankIn(L)[instancesMutex] = 6
  BY LockKinds DEF RankIn
<1>3. RankIn(L)[callbackLock] = IF \E j \in L : j[1] = "getValueNoMdel" THEN 9 ELSE 1
  BY LockKinds DEF RankIn
<1>4. ASSUME NEW i \in Instances
      PROVE  RankIn(L)[arrayMutex(i)] = IF \E j \in L : j[1] = "unreserved" /\ j[2] = i THEN 5 ELSE 7
  BY LockKinds DEF RankIn
<1>5. ASSUME NEW l \in Mutexes PROVE RankIn(L)[l] \in 1 .. 9
  BY DEF RankIn
<1> QED
  BY <1>1, <1>2, <1>3, <1>4, <1>5

LEMMA PathSound ==
  ASSUME NEW L, Compatible(L), NEW j \in L, j[1] \in EntryPoints, j[2] \in Instances
  PROVE  Sound(Path(j), RankIn(L))
<1> DEFINE rank == RankIn(L)  i == j[2]
<1>1. /\ rank[ioMutex("child")] = 2 /\ rank[eventMutex] = 3 /\ rank[ioMutex("base")] = 4
      /\ rank[instancesMutex] = 6
      /\ rank[callbackLock] = IF \E k \in L : k[1] = "getValueNoMdel" THEN 9 ELSE 1
      /\ \A n \in Instances : rank[arrayMutex(n)] = IF \E k \in L : k[1] = "unreserved" /\ k[2] = n THEN 5 ELSE 7
  BY RankValues
<1>2. \A s, X : Block(s, X, rank) => Sound(s, rank)
  BY DEF Block
<1> HIDE DEF rank
<1>3. CASE j[1] \in {"getValue", "getValueNoMdel", "putValue"}
  <2>1. rank[instancesMutex] < rank[arrayMutex(i)]
    <3>1. rank[arrayMutex(i)] = 7
      BY <1>1, <1>3 DEF Compatible
    <3> QED
      BY <1>1, <3>1
  <2>2. Sound(GetPath(i), rank) /\ Sound(PutPath(i), rank)
    BY <1>2, <2>1, CallBlocks
  <2>3. CASE j[1] = "getValueNoMdel"
    <3>1. rank[ioMutex("base")] < rank[callbackLock]
      BY <1>1, <2>3
    <3>2. Sound(GetNoMdelPath(i), rank)
      BY <1>2, <2>1, <3>1, GetNoMdelBlocks
    <3> QED
      BY <2>3, <3>2 DEF Path, rank
  <2>4. CASE j[1] = "getValue"
    BY <2>2, <2>4 DEF Path, rank
  <2>5. CASE j[1] = "putValue"
    BY <2>2, <2>5 DEF Path, rank
  <2> QED
    BY <1>3, <2>3, <2>4, <2>5
<1>4. CASE j[1] = "unreserved"
  <2>1. rank[arrayMutex(i)] = 5 /\ rank[arrayMutex(Other(i))] = 7
    <3>1. i \in Instances /\ Other(i) \in Instances /\ Other(i) # i
      BY LockKinds
    <3>2. ~ \E k \in L : k[1] = "unreserved" /\ k[2] = Other(i)
      BY <1>4, <3>1 DEF Compatible
    <3> QED
      BY <1>1, <1>4, <3>1, <3>2
  <2>2. Sound(UnreservedPath(i), rank)
    BY <1>1, <1>2, <2>1, UnreservedBlocks
  <2> QED
    BY <1>4, <2>2 DEF Path, rank
<1>5. CASE j[1] = "disconnectPVs"
  <2>1. Sound(DisconnectPath, rank)
    BY <1>1, <1>2, DisconnectBlocks
  <2> QED
    BY <1>5, <2>1 DEF Path, rank
<1>6. CASE j[1] = "connectionChanged"
  <2>1. rank[callbackLock] = 1
    BY <1>1, <1>6 DEF Compatible
  <2>2. Sound(CallbackPath, rank)
    BY <1>1, <1>2, <2>1, CallbackBlocks
  <2> QED
    BY <1>6, <2>2 DEF Path, rank
<1> QED
  BY <1>3, <1>4, <1>5, <1>6 DEF EntryPoints

LEMMA JobPaths ==
  ASSUME NEW j \in Jobs
  PROVE  Paths[j] \in Seq(Steps) /\ Len(Paths[j]) \in Nat
<1>1. Compatible({j}) /\ j[1] \in EntryPoints /\ j[2] \in Instances
  BY JobsAssumption DEF Compatible
<1>2. Sound(Path(j), RankIn({j}))
  BY <1>1, PathSound
<1> QED
  BY <1>2, LenProperties DEF Sound, Paths

-----------------------------------------------------------------------------
(* The calls wait for each other in the order of the ranks only.           *)

\* The calls of load L; what a call holds it has taken on its path and not left.
HeldIsOpen(L) ==
  /\ pos \in [Jobs -> Nat]
  /\ \A j \in Jobs : pos[j] \in 1 .. Len(Paths[j]) + 1
  /\ \A j \in Jobs \ L : Done(j)
  /\ owner \in [Locks -> SUBSET L]
  /\ \A l \in Mutexes : \A j \in owner[l] : Open(Paths[j], l, pos[j])

LockInv == \E L \in Loads : HeldIsOpen(L)

LEMMA OpenKept ==
  ASSUME NEW P, NEW l, NEW k \in Nat, k >= 1, Open(P, l, k), ~(P[k].do = "unlock" /\ P[k].on = l)
  PROVE  Open(P, l, k + 1)
<1>1. PICK a \in 1 .. k - 1 : /\ P[a].do # "unlock" /\ P[a].on = l
                             /\ \A b \in a + 1 .. k - 1 : ~(P[b].do = "unlock" /\ P[b].on = l)
  BY DEF Open
<1>2. a \in 1 .. (k + 1) - 1 /\ \A b \in a + 1 .. (k + 1) - 1 : b \in a + 1 .. k - 1 \/ b = k
  OBVIOUS
<1> QED
  BY <1>1, <1>2 DEF Open

LEMMA OpenTaken ==
  ASSUME NEW P, NEW l, NEW k \in Nat, k >= 1, P[k].do # "unlock", P[k].on = l
  PROVE  Open(P, l, k + 1)
<1>1. k \in 1 .. (k + 1) - 1 /\ \A b \in k + 1 .. (k + 1) - 1 : FALSE
  OBVIOUS
<1> QED
  BY <1>1 DEF Open

LEMMA LockInit_Inv ==
  ASSUME LockInit
  PROVE  LockInv
<1>1. PICK L \in Loads : pos = [j \in Jobs |-> IF j \in L THEN 1 ELSE Len(Paths[j]) + 1]
  BY DEF LockInit
<1>2. owner = [l \in Locks |-> {}] /\ Mutexes \subseteq Locks
  BY LockKinds DEF LockInit
<1>3. \A j \in Jobs : Len(Paths[j]) \in Nat
  BY JobPaths
<1>4. /\ pos \in [Jobs -> Nat]
      /\ \A j \in Jobs : pos[j] \in 1 .. Len(Paths[j]) + 1
      /\ \A j \in Jobs \ L : Done(j)
  BY <1>1, <1>3 DEF Done
<1>5. owner \in [Locks -> SUBSET L] /\ \A l \in Mutexes : owner[l] = {}
  BY <1>2
<1> QED
  BY <1>4, <1>5 DEF LockInv, HeldIsOpen

\* A job that makes a step is one of the load, so that its path is sound.
LEMMA StepOfLoad ==
  ASSUME NEW L \in Loads, Compatible(L), HeldIsOpen(L), NEW j \in Jobs, ~Done(j)
  PROVE  /\ j \in L /\ Sound(Paths[j], RankIn(L)) /\ Paths[j] \in Seq(Steps)
         /\ pos[j] \in 1 .. Len(Paths[j]) /\ pos[j] \in Nat /\ Len(Paths[j]) \in Nat
         /\ Step(j) = Paths[j][pos[j]] /\ Step(j) \in Steps
<1>1. j \in L
  BY DEF HeldIsOpen
<1>2. Paths[j] \in Seq(Steps) /\ Len(Paths[j]) \in Nat
  BY JobPaths
<1>3. Sound(Paths[j], RankIn(L))
  BY <1>1, JobsAssumption, PathSound DEF Paths
<1>4. pos[j] \in 1 .. Len(Paths[j]) /\ pos[j] \in Nat
  BY <1>2 DEF HeldIsOpen, Done
<1>5. Paths[j][pos[j]] \in Steps
  BY <1>2, <1>4, ElementOfSeq
<1> QED
  BY <1>1, <1>2, <1>3, <1>4, <1>5 DEF Step

\* Only job j moves, behind step e; what it holds is still open there.
LEMMA JobMoves ==
  ASSUME NEW L \in Loads, HeldIsOpen(L), NEW j \in L, NEW e \in 1 .. Len(Paths[j]),
         L \subseteq Jobs, pos' = [pos EXCEPT ![j] = e + 1], owner' \in [Locks -> SUBSET L],
         \A l \in Mutexes : owner'[l] \ {j} \subseteq owner[l],
         \A l \in Mutexes : j \in owner'[l] => Open(Paths[j], l, e + 1)
  PROVE  LockInv'
<1>1. Len(Paths[j]) \in Nat
  BY JobPaths
<1>2. pos' \in [Jobs -> Nat] /\ \A k \in Jobs : pos'[k] = IF k = j THEN e + 1 ELSE pos[k]
  BY DEF HeldIsOpen
<1>3. \A k \in Jobs : pos'[k] \in 1 .. Len(Paths[k]) + 1
  BY <1>1, <1>2 DEF HeldIsOpen
<1>4. \A k \in Jobs \ L : Done(k)'
  BY <1>2 DEF HeldIsOpen, Done
<1>5. ASSUME NEW l \in Mutexes, NEW k \in owner'[l] PROVE Open(Paths[k], l, pos'[k])
  <2>1. k \in Jobs
    BY <1>5, LockKinds
  <2>2. CASE k = j
    BY <1>2, <1>5, <2>1, <2>2
  <2>3. CASE k # j
    <3>1. Open(Paths[k], l, pos[k]) /\ pos'[k] = pos[k]
      BY <1>2, <1>5, <2>1, <2>3 DEF HeldIsOpen
    <3> QED
      BY <3>1
  <2> QED
    BY <2>2, <2>3
<1>6. HeldIsOpen(L)'
  BY <1>2, <1>3, <1>4, <1>5 DEF HeldIsOpen
<1> QED
  BY <1>6 DEF LockInv

LEMMA Take_Inv ==
  ASSUME NEW L \in Loads, Compatible(L), HeldIsOpen(L), NEW j \in Jobs, Take(j)
  PROVE  LockInv'
<1> DEFINE P == Paths[j]  p == pos[j]  l0 == Step(j).on
<1>1. /\ j \in L /\ Sound(P, RankIn(L)) /\ p \in 1 .. Len(P) /\ p \in Nat /\ Len(P) \in Nat
      /\ Step(j) = P[p] /\ Step(j) \in Steps
  BY StepOfLoad DEF Take, Asks
<1>2. L \subseteq Jobs /\ owner \in [Locks -> SUBSET L] /\ l0 \in Locks /\ P[p].do # "unlock" /\ P[p].on = l0
  BY <1>1, JobsAssumption DEF HeldIsOpen, Steps, Take, Asks
<1>3. owner' = [owner EXCEPT ![l0] = @ \cup {j}] /\ pos' = [pos EXCEPT ![j] = p + 1]
  BY DEF Take, HeldIsOpen
<1>4. owner' \in [Locks -> SUBSET L] /\ \A l \in Locks : owner'[l] = IF l = l0 THEN owner[l] \cup {j} ELSE owner[l]
  BY <1>1, <1>2, <1>3
<1>5. ASSUME NEW l \in Mutexes, j \in owner'[l] PROVE Open(P, l, p + 1)
  <2>1. l \in Locks /\ p >= 1
    BY <1>1, LockKinds
  <2>2. CASE l = l0
    BY <1>1, <1>2, <2>1, <2>2, OpenTaken
  <2>3. CASE l # l0
    <3>1. Open(P, l, p)
      BY <1>4, <1>5, <2>1, <2>3 DEF HeldIsOpen
    <3> QED
      BY <1>1, <1>2, <2>1, <3>1, OpenKept
  <2> QED
    BY <2>2, <2>3
<1>6. \A l \in Mutexes : owner'[l] \ {j} \subseteq owner[l]
  BY <1>4, LockKinds
<1> QED
  BY <1>1, <1>2, <1>3, <1>4, <1>5, <1>6, JobMoves

LEMMA GiveUp_Inv ==
  ASSUME NEW L \in Loads, Compatible(L), HeldIsOpen(L), NEW j \in Jobs, GiveUp(j)
  PROVE  LockInv'
<1> DEFINE P == Paths[j]  p == pos[j]  l0 == Step(j).on
           ends == {k \in p .. Len(P) : P[k] = [do |-> "unlock", on |-> l0]}
           first == CHOOSE k \in ends : \A m \in ends : k <= m
<1>1. /\ j \in L /\ Sound(P, RankIn(L)) /\ p \in 1 .. Len(P) /\ p \in Nat /\ Len(P) \in Nat
      /\ Step(j) = P[p] /\ Step(j) \in Steps /\ P \in Seq(Steps)
  BY StepOfLoad DEF GiveUp, Asks
<1>2. L \subseteq Jobs /\ owner \in [Locks -> SUBSET L] /\ P[p].do # "unlock" /\ P[p].on = l0 /\ Timed(P[p].on)
  BY <1>1, JobsAssumption DEF HeldIsOpen, GiveUp, Asks
<1>3. owner' = owner /\ pos' = [pos EXCEPT ![j] = first + 1]
  BY DEF GiveUp
<1>4. PICK e \in p + 1 .. Len(P) :
        EndOf(P, p, e) /\ \A l \in Mutexes : Open(P, l, p) => Open(P, l, e + 1)
  BY <1>1, <1>2 DEF Sound, Skips
<1>5. e \in ends
  <2>1. e \in 1 .. Len(P) /\ e \in p .. Len(P)
    BY <1>1, <1>4
  <2>2. P[e] \in Steps
    BY <1>1, <2>1, ElementOfSeq
  <2>3. P[e].do = "unlock" /\ P[e].on = l0
    BY <1>2, <1>4 DEF EndOf
  <2>4. P[e] = [do |-> "unlock", on |-> l0]
    BY <2>2, <2>3 DEF Steps
  <2> QED
    BY <2>1, <2>4
<1>6. \A m \in ends : e <= m
  <2> SUFFICES ASSUME NEW m \in ends, m < e PROVE FALSE
    BY <1>1, <1>4
  <2>1. m \in p .. e - 1 /\ P[m].do = "unlock" /\ P[m].on = l0
    BY <1>1, <1>4
  <2> QED
    BY <1>2, <1>4, <2>1 DEF EndOf
<1>7. first = e
  <2>1. first \in ends /\ \A m \in ends : first <= m
    BY <1>5, <1>6
  <2>2. ends \subseteq Nat
    BY <1>1
  <2> HIDE DEF first, ends
  <2>3. first \in Nat /\ e \in Nat /\ first <= e /\ e <= first
    BY <1>5, <1>6, <2>1, <2>2
  <2> QED
    BY <2>3
<1> HIDE DEF first, ends
<1>8. \A l \in Mutexes : j \in owner'[l] => Open(P, l, e + 1)
  BY <1>3, <1>4 DEF HeldIsOpen
<1>9. e \in 1 .. Len(P)
  BY <1>1, <1>4
<1>10. owner' \in [Locks -> SUBSET L] /\ \A l \in Mutexes : owner'[l] \ {j} \subseteq owner[l]
  BY <1>2, <1>3
<1>11. pos' = [pos EXCEPT ![j] = e + 1]
  BY <1>3, <1>7
<1> QED
  BY <1>1, <1>2, <1>8, <1>9, <1>10, <1>11, JobMoves

LEMMA Release_Inv ==
  ASSUME NEW L \in Loads, Compatible(L), HeldIsOpen(L), NEW j \in Jobs, Release(j)
  PROVE  LockInv'
<1> DEFINE P == Paths[j]  p == pos[j]  l0 == Step(j).on
<1>1. /\ j \in L /\ Sound(P, RankIn(L)) /\ p \in 1 .. Len(P) /\ p \in Nat /\ Len(P) \in Nat
      /\ Step(j) = P[p] /\ Step(j) \in Steps
  BY StepOfLoad DEF Release
<1>2. L \subseteq Jobs /\ owner \in [Locks -> SUBSET L] /\ l0 \in Locks /\ P[p].on = l0
  BY <1>1, JobsAssumption DEF HeldIsOpen, Steps
<1>3. owner' = [owner EXCEPT ![l0] = @ \ {j}] /\ pos' = [pos EXCEPT ![j] = p + 1]
  BY DEF Release
<1>4. owner' \in [Locks -> SUBSET L] /\ \A l \in Locks : owner'[l] = IF l = l0 THEN owner[l] \ {j} ELSE owner[l]
  BY <1>2, <1>3
<1>5. ASSUME NEW l \in Mutexes, j \in owner'[l] PROVE Open(P, l, p + 1)
  <2>1. l \in Locks /\ p >= 1
    BY <1>1, LockKinds
  <2>2. l # l0 /\ Open(P, l, p)
    BY <1>4, <1>5, <2>1 DEF HeldIsOpen
  <2> QED
    BY <1>1, <1>2, <2>1, <2>2, OpenKept
<1>6. \A l \in Mutexes : owner'[l] \ {j} \subseteq owner[l]
  BY <1>4, LockKinds
<1> QED
  BY <1>1, <1>2, <1>3, <1>4, <1>5, <1>6, JobMoves

LEMMA LockNext_Inv ==
  ASSUME \A L \in Loads : Compatible(L), LockInv, [LockNext]_lockVars
  PROVE  LockInv'
<1>1. PICK L \in Loads : HeldIsOpen(L)
  BY DEF LockInv
<1>2. Compatible(L)
  OBVIOUS
<1>3. ASSUME NEW j \in Jobs, JobStep(j) PROVE LockInv'
  BY <1>1, <1>2, <1>3, Take_Inv, GiveUp_Inv, Release_Inv DEF JobStep
<1>4. CASE UNCHANGED lockVars
  BY <1>4 DEF lockVars, LockInv, HeldIsOpen, Done
<1> QED
  BY <1>3, <1>4 DEF LockNext

\* Ranks that are bounded cannot all be exceeded by another one.
LEMMA HighestRank ==
  ASSUME NEW R \in SUBSET (1 .. 9), R # {}
  PROVE  \E n \in R : \A m \in R : m <= n
<1> SUFFICES ASSUME \A n \in R : \E m \in R : n < m PROVE FALSE
  OBVIOUS
<1>1. 9 \notin R
  OBVIOUS
<1>2. 8 \notin R
  BY <1>1
<1>3. 7 \notin R
  BY <1>1, <1>2
<1>4. 6 \notin R
  BY <1>1, <1>2, <1>3
<1>5. 5 \notin R
  BY <1>1, <1>2, <1>3, <1>4
<1>6. \A n \in R : n \in 1 .. 4
  BY <1>1, <1>2, <1>3, <1>4, <1>5
<1>7. 4 \notin R
  BY <1>6
<1>8. 3 \notin R
  BY <1>6, <1>7
<1>9. 2 \notin R
  BY <1>6, <1>7, <1>8
<1>10. 1 \notin R
  BY <1>6, <1>7, <1>8, <1>9
<1>11. PICK n \in R : TRUE
  OBVIOUS
<1>12. n = 1 \/ n = 2 \/ n = 3 \/ n = 4
  BY <1>6
<1> QED
  BY <1>7, <1>8, <1>9, <1>10, <1>12

LEMMA Inv_NoCircularWait ==
  ASSUME \A L \in Loads : Compatible(L), LockInv
  PROVE  NoCircularWait
<1>1. PICK L \in Loads : HeldIsOpen(L)
  BY DEF LockInv
<1> SUFFICES ASSUME NEW S \in SUBSET {j \in Jobs : Blocks(j) # {}}, S # {}
             PROVE  \E j \in S : Blocks(j) \cap S = {}
  BY DEF NoCircularWait
<1> DEFINE want(j) == Step(j).on  rank == RankIn(L)  R == {rank[want(j)] : j \in S}
<1>2. ASSUME NEW j \in S
      PROVE  /\ ~Done(j) /\ Step(j).do # "unlock" /\ want(j) \in Mutexes /\ Blocks(j) = owner[want(j)]
             /\ rank[want(j)] \in 1 .. 9 /\ Sound(Paths[j], rank) /\ pos[j] \in 1 .. Len(Paths[j])
             /\ Step(j) = Paths[j][pos[j]]
  <2>1. j \in Jobs /\ Asks(j) /\ ~Timed(want(j)) /\ Blocks(j) = owner[want(j)]
    BY <1>2 DEF Blocks
  <2>2. /\ Sound(Paths[j], rank) /\ pos[j] \in 1 .. Len(Paths[j]) /\ Step(j) \in Steps
        /\ Step(j) = Paths[j][pos[j]]
    BY <1>1, <2>1, StepOfLoad DEF Asks
  <2>3. want(j) \in Mutexes
    BY <2>1, <2>2 DEF Steps, Mutexes
  <2> QED
    BY <2>1, <2>2, <2>3, RankValues DEF Asks
<1>3. ASSUME NEW j \in S, NEW k \in S, k \in Blocks(j) PROVE rank[want(j)] < rank[want(k)]
  <2>1. Open(Paths[k], want(j), pos[k])
    BY <1>1, <1>2, <1>3 DEF HeldIsOpen
  <2>2. Ordered(Paths[k], rank) /\ Paths[k][pos[k]].do # "unlock" /\ Paths[k][pos[k]].on = want(k)
    BY <1>2 DEF Sound
  <2>3. pos[k] \in 1 .. Len(Paths[k]) /\ want(k) \in Mutexes /\ want(j) \in Mutexes
    BY <1>2
  <2> QED
    BY <2>1, <2>2, <2>3 DEF Ordered
<1>4. R \in SUBSET (1 .. 9) /\ R # {}
  BY <1>2
<1>5. PICK n \in R : \A m \in R : m <= n
  BY <1>4, HighestRank
<1>6. PICK j \in S : n = rank[want(j)]
  BY <1>5
<1>7. ASSUME NEW k \in S, k \in Blocks(j) PROVE FALSE
  <2>1. n < rank[want(k)] /\ rank[want(k)] \in R
    BY <1>3, <1>6, <1>7
  <2>2. rank[want(k)] <= n /\ rank[want(k)] \in Int /\ n \in Int
    BY <1>4, <1>5, <2>1
  <2> QED
    BY <2>1, <2>2
<1> QED
  BY <1>7

\* However many calls of the entry points are in progress on the two instances, if none of the
\* combinations that Compatible leaves out is among them they never wait for each other in a circle.
THEOREM NoCircle ==
  ASSUME \A L \in Loads : Compatible(L)
  PROVE  LockSpec => []NoCircularWait
<1>1. LockInit => LockInv
  BY LockInit_Inv
<1>2. LockInv /\ [LockNext]_lockVars => LockInv'
  BY LockNext_Inv
<1>3. LockInv => NoCircularWait
  BY Inv_NoCircularWait
<1> QED
  BY <1>1, <1>2, <1>3, PTL DEF LockSpec

\* A lock that is held exclusively has one owner.
ModeInv ==
  /\ mode \in [Locks -> {"lock", "share"}]
  /\ \A l \in Locks : mode[l] = "lock" => \A j, k \in owner[l] : j = k

LEMMA LockNext_Mode ==
  ASSUME \A L \in Loads : Compatible(L), LockInv, ModeInv, [LockNext]_lockVars
  PROVE  ModeInv'
<1>1. PICK L \in Loads : HeldIsOpen(L)
  BY DEF LockInv
<1>2. owner \in [Locks -> SUBSET L]
  BY <1>1 DEF HeldIsOpen
<1>3. ASSUME NEW j \in Jobs, Take(j) PROVE ModeInv'
  <2> DEFINE l0 == Step(j).on
  <2>1. l0 \in Locks /\ Step(j).do \in {"lock", "share"}
    BY <1>1, <1>3, StepOfLoad DEF Take, Asks, Steps
  <2>2. /\ owner' = [owner EXCEPT ![l0] = @ \cup {j}] /\ mode' = [mode EXCEPT ![l0] = Step(j).do]
        /\ owner[l0] = {} \/ Step(j).do = "share"
    BY <1>3 DEF Take, CanTake
  <2>3. mode' \in [Locks -> {"lock", "share"}]
    BY <2>1, <2>2 DEF ModeInv
  <2>4. ASSUME NEW l \in Locks, mode'[l] = "lock", NEW i \in owner'[l], NEW k \in owner'[l] PROVE i = k
    <3>1. CASE l = l0
      <4>1. owner[l0] = {} /\ owner'[l] = {j}
        BY <1>2, <2>1, <2>2, <2>4, <3>1 DEF ModeInv
      <4> QED
        BY <2>4, <4>1
    <3>2. CASE l # l0
      BY <1>2, <2>1, <2>2, <2>4, <3>2 DEF ModeInv
    <3> QED
      BY <3>1, <3>2
  <2> QED
    BY <2>3, <2>4 DEF ModeInv
<1>4. ASSUME NEW j \in Jobs, GiveUp(j) PROVE ModeInv'
  BY <1>4 DEF GiveUp, ModeInv
<1>5. ASSUME NEW j \in Jobs, Release(j) PROVE ModeInv'
  <2>1. mode' = mode /\ \A l \in Locks : owner'[l] \subseteq owner[l]
    BY <1>2, <1>5 DEF Release
  <2> QED
    BY <2>1 DEF ModeInv
<1>6. CASE UNCHANGED lockVars
  BY <1>6 DEF lockVars, ModeInv
<1> QED
  BY <1>3, <1>4, <1>5, <1>6 DEF LockNext, JobStep

LEMMA Inv_LockTypeOK ==
  ASSUME LockInv, ModeInv
  PROVE  LockTypeOK
<1>1. PICK L \in Loads : HeldIsOpen(L)
  BY DEF LockInv
<1>2. owner \in [Locks -> SUBSET Jobs] /\ \A j \in Jobs : pos[j] \in 1 .. Len(Paths[j]) + 1
  BY <1>1, JobsAssumption DEF HeldIsOpen
<1>3. ASSUME NEW l \in Locks, mode[l] = "lock" PROVE Cardinality(owner[l]) <= 1
  <2>1. CASE owner[l] = {}
    BY <2>1, FS_EmptySet
  <2>2. ASSUME NEW j \in owner[l] PROVE Cardinality(owner[l]) <= 1
    <3>1. owner[l] = {j}
      BY <1>3, <2>2 DEF ModeInv
    <3> QED
      BY <3>1, FS_Singleton
  <2> QED
    BY <2>1, <2>2
<1> QED
  BY <1>2, <1>3 DEF LockTypeOK, ModeInv

\* Type correctness; no lock is held exclusively by two calls, timed or not.
THEOREM LocksExclude ==
  ASSUME \A L \in Loads : Compatible(L)
  PROVE  LockSpec => []LockTypeOK
<1>1. LockInit => LockInv /\ ModeInv
  <2>1. LockInit => ModeInv
    BY DEF LockInit, ModeInv
  <2> QED
    BY <2>1, LockInit_Inv
<1>2. LockInv /\ ModeInv /\ [LockNext]_lockVars => LockInv' /\ ModeInv'
  BY LockNext_Inv, LockNext_Mode
<1>3. LockInv /\ ModeInv => LockTypeOK
  BY Inv_LockTypeOK
<1> QED
  BY <1>1, <1>2, <1>3, PTL DEF LockSpec
=============================================================================
