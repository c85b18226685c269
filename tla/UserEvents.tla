----------------------------- MODULE UserEvents -----------------------------
(***************************************************************************)
(* LabVIEW user events for one PV.  addEvent registers a reference and its *)
(* target cluster, destroyEvent removes it.  postEventForPv takes a        *)
(* snapshot of the subscribers, fills each target from the PVItem with     *)
(* ioMutex held, and posts it without a lock.  It is called by the worker, *)
(* the connection callback and disconnectPVs after they changed the PV, by *)
(* addEvent, and by the poll thread for the posts that were deferred       *)
(* because pvRegistryLock was taken.  Others change the PV and post        *)
(* nothing: the NoMDEL get, the resets of a stale channel and of a         *)
(* teardown, the error codes of reads and writes.  Names begin with Events *)
(* where ValueWorker, through which the values come, has the same ones:    *)
(* ValuePathProofs extends both.                                           *)
(***************************************************************************)
EXTENDS Integers

CONSTANTS Refs,        \* user event references, each with the thread of its VI
          Changers,    \* threads that change the PV and post
          Poll,        \* the poll thread
          MaxChanges,  \* bound: changes in a behaviour
          MaxHolds,    \* bound: exclusive holds of the registry by others
          None

ASSUME UserEventsAssumption ==
  /\ MaxChanges \in Nat /\ MaxHolds \in Nat
  /\ Refs \cap Changers = {} /\ Poll \notin Refs \cup Changers
  /\ None \notin Refs \cup Changers \cup {Poll}

Threads == Refs \cup Changers \cup {Poll}

VARIABLES exists,      \* the PV is in pvRegistry
          val,         \* what the PVItem holds: the number of its last change
          hasValue,    \* PVItem::hasValue
          due,         \* its last change that is followed by a post
          ioMutex,     \* its holder
          regBusy,     \* pvRegistryLock is held exclusively by someone else
          holds,       \* how often it has been
          registry,    \* g_eventRegistry: the references of the PV
          deferred,    \* the PV is in deferredEvents_
          pc, todo, target,  \* per thread: next step, snapshot, subscriber at hand
          flag,        \* addEvent's valueAlreadyExists
          state,       \* of a reference: see EventsTypeOK
          content,     \* of its target: the change it was filled from
          last, torn,  \* its last event, and whether one mixed two states
          dangling,    \* a freed target was written
          excused      \* addEvent saw no value to post, and registered with changes made

pv == <<exists, val, hasValue, due>>
reg == <<regBusy, holds>>
refs == <<state, content, last, torn, dangling, excused>>
eventVars == <<pv, ioMutex, reg, registry, deferred, pc, todo, target, flag, refs>>

EventsInit ==
  /\ exists \in BOOLEAN /\ val = 0 /\ hasValue = FALSE /\ due = 0
  /\ ioMutex = None /\ regBusy = FALSE /\ holds = 0
  /\ registry = {} /\ deferred = FALSE
  /\ pc = [t \in Threads |-> "idle"]
  /\ todo = [t \in Threads |-> {}]
  /\ target = [t \in Threads |-> None]
  /\ flag = [r \in Refs |-> FALSE]
  /\ state = [r \in Refs |-> "new"]
  /\ content = [r \in Refs |-> 0] /\ last = [r \in Refs |-> 0]
  /\ torn = [r \in Refs |-> FALSE] /\ dangling = FALSE
  /\ excused = [r \in Refs |-> FALSE]

Goto(t, step) == pc' = [pc EXCEPT ![t] = step]

-----------------------------------------------------------------------------
(* The surroundings                                                        *)

\* getValue or putValue puts the PV in the registry.
CreatePv ==
  /\ ~exists /\ ~regBusy /\ exists' = TRUE
  /\ UNCHANGED <<val, hasValue, due, ioMutex, reg, registry, deferred, pc, todo, target, flag, refs>>

\* setupPvIndexAndRegistry or unreserved holds the registry for a while.
TakeRegistry ==
  /\ ~regBusy /\ holds < MaxHolds
  /\ regBusy' = TRUE /\ holds' = holds + 1
  /\ UNCHANGED <<pv, ioMutex, registry, deferred, pc, todo, target, flag, refs>>

LeaveRegistry ==
  /\ regBusy /\ regBusy' = FALSE
  /\ UNCHANGED <<pv, ioMutex, holds, registry, deferred, pc, todo, target, flag, refs>>

\* A value or a connection state, then postEventForPv.
Change(t) ==
  /\ pc[t] = "idle" /\ exists /\ ioMutex = None /\ val < MaxChanges
  /\ val' = val + 1 /\ due' = val + 1
  /\ hasValue' \in BOOLEAN
  /\ excused' = [r \in Refs |-> FALSE]
  /\ Goto(t, "try")
  /\ UNCHANGED <<exists, ioMutex, reg, registry, deferred, todo, target, flag, state, content,
                 last, torn, dangling>>

\* A NoMDEL get stores what it read, connectPv or prepareInstance resets the
\* PV, a read or a write its error code: with ioMutex held, and without a post.
ChangeUnposted ==
  /\ exists /\ ioMutex = None /\ val < MaxChanges
  /\ val' = val + 1
  /\ hasValue' \in BOOLEAN
  /\ UNCHANGED <<exists, due, ioMutex, reg, registry, deferred, pc, todo, target, flag, refs>>

\* Every 100 ms the poll thread takes the deferred names.
DrainDeferred ==
  /\ pc[Poll] = "idle" /\ deferred
  /\ deferred' = FALSE
  /\ Goto(Poll, "try")
  /\ UNCHANGED <<pv, ioMutex, reg, registry, todo, target, flag, refs>>

-----------------------------------------------------------------------------
(* addEvent and destroyEvent                                               *)

AddCheck(r) ==
  /\ pc[r] = "idle" /\ state[r] = "new" /\ ~regBusy
  /\ exists' = TRUE
  /\ flag' = [flag EXCEPT ![r] = exists /\ hasValue]
  /\ Goto(r, "register")
  /\ UNCHANGED <<val, hasValue, due, ioMutex, reg, registry, deferred, todo, target, refs>>

\* pvRegistryLock is not got in 500 ms: the reference is registered all the same.
AddTimeout(r) ==
  /\ pc[r] = "idle" /\ state[r] = "new" /\ regBusy
  /\ Goto(r, "register")
  /\ UNCHANGED <<pv, ioMutex, reg, registry, deferred, todo, target, flag, refs>>

Register(r) ==
  /\ pc[r] = "register"
  /\ registry' = registry \cup {r}
  /\ state' = [state EXCEPT ![r] = "registered"]
  /\ excused' = [excused EXCEPT ![r] = ~flag[r] /\ due # 0]
  /\ Goto(r, IF flag[r] THEN "try" ELSE "idle")
  /\ UNCHANGED <<pv, ioMutex, reg, deferred, todo, target, flag, content, last, torn, dangling>>

Destroy(r) ==
  /\ pc[r] = "idle" /\ state[r] = "registered"
  /\ registry' = registry \ {r}
  /\ state' = [state EXCEPT ![r] = "destroyed"]
  /\ UNCHANGED <<pv, ioMutex, reg, deferred, pc, todo, target, flag, content, last, torn,
                 dangling, excused>>

\* LabVIEW frees the event and its cluster once destroyEvent has returned.
Free(r) ==
  /\ state[r] = "destroyed"
  /\ state' = [state EXCEPT ![r] = "freed"]
  /\ UNCHANGED <<pv, ioMutex, reg, registry, deferred, pc, todo, target, flag, content, last,
                 torn, dangling, excused>>

-----------------------------------------------------------------------------
(* postEventForPv                                                          *)

\* Mutant: a post that finds the registry locked is dropped.
TryOrDrop(t) ==
  /\ pc[t] = "try"
  /\ Goto(t, IF ~regBusy /\ exists THEN "snapshot" ELSE "idle")
  /\ UNCHANGED <<pv, ioMutex, reg, registry, deferred, todo, target, flag, refs>>

Try(t) ==
  /\ pc[t] = "try"
  /\ deferred' = (deferred \/ regBusy)
  /\ Goto(t, IF ~regBusy /\ exists THEN "snapshot" ELSE "idle")
  /\ UNCHANGED <<pv, ioMutex, reg, registry, todo, target, flag, refs>>

Snapshot(t) ==
  /\ pc[t] = "snapshot"
  /\ todo' = [todo EXCEPT ![t] = registry]
  /\ Goto(t, "next")
  /\ UNCHANGED <<pv, ioMutex, reg, registry, deferred, target, flag, refs>>

\* Mutant: the target is emptied before it is filled.
FillEmptied(t, r) ==
  /\ pc[t] = "next" /\ r \in todo[t] /\ ioMutex = None
  /\ ioMutex' = t
  /\ target' = [target EXCEPT ![t] = r]
  /\ todo' = [todo EXCEPT ![t] = @ \ {r}]
  /\ content' = [content EXCEPT ![r] = 0]
  /\ dangling' = (dangling \/ state[r] = "freed")
  /\ Goto(t, "fill")
  /\ UNCHANGED <<pv, reg, registry, deferred, flag, state, last, torn, excused>>

\* The next subscriber of the snapshot; the targets are filled with ioMutex held.
FillBegin(t, r) ==
  /\ pc[t] = "next" /\ r \in todo[t] /\ ioMutex = None
  /\ ioMutex' = t
  /\ target' = [target EXCEPT ![t] = r]
  /\ todo' = [todo EXCEPT ![t] = @ \ {r}]
  /\ dangling' = (dangling \/ state[r] = "freed")
  /\ Goto(t, "fill")
  /\ UNCHANGED <<pv, reg, registry, deferred, flag, state, content, last, torn, excused>>

\* Mutant: a target is filled once.
FillOnce(t) ==
  /\ pc[t] = "fill"
  /\ content' = [content EXCEPT ![target[t]] = IF @ = 0 THEN val ELSE @]
  /\ ioMutex' = None
  /\ Goto(t, "post")
  /\ UNCHANGED <<pv, reg, registry, deferred, todo, target, flag, state, last, torn, dangling, excused>>

FillEnd(t) ==
  /\ pc[t] = "fill"
  /\ content' = [content EXCEPT ![target[t]] = val]
  /\ ioMutex' = None
  /\ Goto(t, "post")
  /\ UNCHANGED <<pv, reg, registry, deferred, todo, target, flag, state, last, torn, dangling, excused>>

BeingFilled(r) == \E t \in Threads : pc[t] = "fill" /\ target[t] = r

\* LabVIEW copies the target.  It refuses a reference that is gone, which is
\* then taken from the registry.
Post(t) ==
  LET r == target[t] IN
  /\ pc[t] = "post"
  /\ IF state[r] = "freed" THEN registry' = registry \ {r} /\ UNCHANGED <<last, torn, excused>>
     ELSE /\ last' = [last EXCEPT ![r] = content[r]]
          /\ torn' = [torn EXCEPT ![r] = @ \/ BeingFilled(r)]
          /\ excused' = [excused EXCEPT ![r] = FALSE]
          /\ UNCHANGED registry
  /\ target' = [target EXCEPT ![t] = None]
  /\ Goto(t, "next")
  /\ UNCHANGED <<pv, ioMutex, reg, deferred, todo, flag, state, content, dangling>>

Return(t) ==
  /\ pc[t] = "next" /\ todo[t] = {}
  /\ Goto(t, "idle")
  /\ UNCHANGED <<pv, ioMutex, reg, registry, deferred, todo, target, flag, refs>>

-----------------------------------------------------------------------------
PostStep(t) == \/ Try(t) \/ Snapshot(t) \/ FillEnd(t) \/ Post(t) \/ Return(t)
               \/ \E r \in Refs : FillBegin(t, r)

AddStep(r) == AddCheck(r) \/ AddTimeout(r) \/ Register(r)

EventsNext ==
  \/ CreatePv \/ TakeRegistry \/ LeaveRegistry \/ DrainDeferred \/ ChangeUnposted
  \/ \E t \in Changers : Change(t)
  \/ \E t \in Threads : PostStep(t)
  \/ \E r \in Refs : AddStep(r) \/ Destroy(r) \/ Free(r)

EventsSpec == EventsInit /\ [][EventsNext]_eventVars

\* Threads go on, and those that hold the registry or ioMutex leave it.
EventsFairSpec ==
  /\ EventsSpec
  /\ \A t \in Threads : /\ WF_eventVars(Try(t) \/ Snapshot(t) \/ FillEnd(t) \/ Post(t) \/ Return(t))
                        /\ \A r \in Refs : SF_eventVars(FillBegin(t, r))
  /\ WF_eventVars(DrainDeferred) /\ WF_eventVars(LeaveRegistry)
  /\ \A r \in Refs : WF_eventVars(Register(r))

-----------------------------------------------------------------------------
\* Type invariant.
EventsTypeOK ==
  /\ exists \in BOOLEAN /\ hasValue \in BOOLEAN
  /\ val \in 0 .. MaxChanges /\ due \in 0 .. MaxChanges
  /\ ioMutex \in Threads \cup {None} /\ regBusy \in BOOLEAN /\ holds \in 0 .. MaxHolds
  /\ registry \subseteq Refs /\ deferred \in BOOLEAN
  /\ pc \in [Threads -> {"idle", "register", "try", "snapshot", "next", "fill", "post"}]
  /\ todo \in [Threads -> SUBSET Refs]
  /\ target \in [Threads -> Refs \cup {None}]
  /\ flag \in [Refs -> BOOLEAN]
  /\ state \in [Refs -> {"new", "registered", "destroyed", "freed"}]
  /\ content \in [Refs -> 0 .. MaxChanges] /\ last \in [Refs -> 0 .. MaxChanges]
  /\ torn \in [Refs -> BOOLEAN] /\ dangling \in BOOLEAN
  /\ excused \in [Refs -> BOOLEAN]

\* Somebody will still post an event to r that is filled after the last
\* change that must be shown.
OnItsWay(r) ==
  \/ deferred
  \/ \E t \in Threads : \/ pc[t] \in {"try", "snapshot"}
                        \/ r \in todo[t]
                        \/ pc[t] = "fill" /\ target[t] = r
                        \/ pc[t] = "post" /\ target[t] = r /\ content[r] >= due

\* No change that is followed by a post (postEventForPv of the worker, the
\* connection callback, disconnectPVs) is lost to a registered subscriber,
\* also when the post was deferred and when others change the PV without one:
\* the last event shows it or a later state, or an event that will is on its
\* way, unless it came before the registration of a reference for which
\* addEvent saw no value.
NoLostEvent == \A r \in registry : last[r] >= due \/ excused[r] \/ OnItsWay(r)

\* However many threads post, events never go back to an older state.
EventsInOrder == [][\A r \in Refs : last'[r] >= last[r]]_eventVars

\* A subscriber's last event shows, in the end, the last change that was
\* followed by a post, or a later state.
LatestDelivered == \A r \in Refs : <>[](r \in registry => last[r] >= due \/ excused[r])

-----------------------------------------------------------------------------
(* Expectations that the code does not meet: see the README, Deviations.   *)

\* changelog.txt:150 destroyEvent "avoids dangling references".
NoDanglingTarget == ~dangling

\* calab.cpp:2596 "If the PV already has a value, post an event immediately."
InitialEvent == \A r \in registry : hasValue /\ last[r] = 0 => OnItsWay(r)

\* changelog.txt:138 the clusters are filled "from the current PVItem state":
\* a subscriber is told of every change of it.
EveryChangeShown == \A r \in registry : last[r] = val \/ excused[r] \/ OnItsWay(r)

\* changelog.txt:147 "addEvent ensures that the target PVItem exists in the PV
\* registry, registers the event".
AddEnsuresPv == registry # {} => exists

\* changelog.txt:138 the clusters are filled "from the current PVItem state"
\* and posted: no event mixes two states.
EventIntact == \A r \in Refs : ~torn[r]
=============================================================================
