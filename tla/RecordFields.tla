---------------------------- MODULE RecordFields ----------------------------
(***************************************************************************)
(* A PV with its child PVs (calab.cpp): the PV `base.RTYP', which tells    *)
(* the record type, and the PVs of the fields that a VI asks for, which    *)
(* can be chosen only when the record type is known.  The first getValue   *)
(* of a VI sets all of them up (setupPvIndexAndRegistry, subscribeBasePVs, *)
(* connectPVs); the worker hands what the children deliver to the parent   *)
(* (processValueChangeTask); a VI in NoMDEL mode gets the value itself     *)
(* with every call (getChangedPvIndices).  The poll thread connects and    *)
(* subscribes what is not.                                                 *)
(*                                                                         *)
(* A value is the number of the change at the server.  The channel of a PV *)
(* is what the library knows of it; module PvChannel has the handles.  The *)
(* queue of the worker is one queue for each PV here, since updates of     *)
(* different PVs may come in any order.                                    *)
(***************************************************************************)
EXTENDS Naturals, Sequences

CONSTANTS VIs,        \* call nodes of getValue
          Wanting,    \* ... of them those with a FieldNameArray
          NoMdel,     \* ... and those in NoMDEL mode
          Base, Rtyp, \* the PV and its .RTYP
          Fields,     \* the PVs of the fields asked for that its record type has
          NULL,
          QueueMax,   \* bound on the updates in the queue
          Budgets     \* bounds: how often the things that need not happen do happen

PVs == {Base, Rtyp} \cup Fields
Children == PVs \ {Base}

ASSUME PartsAssumption ==
  /\ Base # Rtyp /\ {Base, Rtyp} \cap Fields = {} /\ NULL \notin PVs
  /\ Wanting \subseteq VIs /\ NoMdel \subseteq VIs
  /\ QueueMax \in Nat \ {0}
  /\ \A b \in Budgets : b \in [VIs \cup {"outage", "change", "timeout", "event"} -> Nat]

VARIABLES server,       \* is the IOC up?
          sv,           \* the value it has
          budget,       \* what is left of one of Budgets
          chan,         \* per PV: no PVItem, no channel, not connected, connected
          sub,          \* per PV: no subscription, one with an update due, one that is served
          queue,        \* per PV: the updates that wait for the worker
          job,          \* the child whose value the worker is handing to the parent
          value, recordType, fields, fieldValues,  \* of the base PV's item; value 0: none
          pc,           \* per VI: next step
          bound,        \* VIs whose PvIndexArray holds the PV
          uninit,       \* VIs whose call has the PV in uninitializedPvNames
          got,          \* per VI: what ca_array_get returned
          lost,         \* history: PVs of which an update was dropped, or forgotten
          late          \* history: VIs whose deadline came before the record type

caVars   == <<server, sv>>
itemVars == <<value, recordType, fields, fieldValues>>
linkVars == <<chan, sub>>
workVars == <<queue, job>>
callVars == <<pc, bound, uninit, got>>
recordVars == <<caVars, budget, linkVars, workVars, itemVars, callVars, lost, late>>

Spend(what) == budget[what] > 0 /\ budget' = [budget EXCEPT ![what] = @ - 1]

RecordInit ==
  /\ server = TRUE /\ sv = 1
  /\ budget \in Budgets
  /\ chan = [p \in PVs |-> "absent"]
  /\ sub = [p \in PVs |-> "none"]
  /\ queue = [p \in PVs |-> <<>>]
  /\ job = NULL
  /\ value = 0 /\ recordType = FALSE /\ fields = {} /\ fieldValues = {}
  /\ pc = [v \in VIs |-> "unreserved"]
  /\ bound = {} /\ uninit = {}
  /\ got = [v \in VIs |-> 0]
  /\ lost = {} /\ late = {}

-----------------------------------------------------------------------------
(* Channel Access and the server (external).                               *)

Change ==
  /\ server /\ Spend("change")
  /\ sv' = sv + 1
  /\ sub' = [sub EXCEPT ![Base] = IF @ = "none" THEN @ ELSE "due"]
  /\ UNCHANGED <<server, chan, workVars, itemVars, callVars, lost, late>>

ServerDown ==
  /\ server /\ Spend("outage")
  /\ server' = FALSE
  /\ UNCHANGED <<sv, linkVars, workVars, itemVars, callVars, lost, late>>

ServerUp ==
  /\ ~server /\ server' = TRUE
  /\ UNCHANGED <<sv, budget, linkVars, workVars, itemVars, callVars, lost, late>>

\* connectionChanged, CA_OP_CONN_UP
ConnUp(p) ==
  /\ server /\ chan[p] = "down"
  /\ chan' = [chan EXCEPT ![p] = "up"]
  /\ UNCHANGED <<caVars, budget, sub, workVars, itemVars, callVars, lost, late>>

\* Mutant: the subscription of the lost connection is kept.
ConnDownKeeps(p) ==
  /\ ~server /\ chan[p] = "up"
  /\ chan' = [chan EXCEPT ![p] = "down"]
  /\ value' = IF p = Base THEN 0 ELSE value
  /\ UNCHANGED <<caVars, budget, sub, workVars, recordType, fields, fieldValues, callVars, lost, late>>

\* connectionChanged, CA_OP_CONN_DOWN: the record type is kept.
ConnDown(p) ==
  /\ ~server /\ chan[p] = "up"
  /\ chan' = [chan EXCEPT ![p] = "down"]
  /\ sub' = [sub EXCEPT ![p] = "none"]
  /\ value' = IF p = Base THEN 0 ELSE value
  /\ UNCHANGED <<caVars, budget, workVars, recordType, fields, fieldValues, callVars, lost, late>>

\* valueChanged puts an update into the queue; the first one comes with the subscription.
Deliver(p) ==
  /\ server /\ chan[p] = "up" /\ sub[p] = "due"
  /\ Len(queue[p]) < QueueMax
  /\ queue' = [queue EXCEPT ![p] = Append(@, sv)]
  /\ sub' = [sub EXCEPT ![p] = "served"]
  /\ UNCHANGED <<caVars, budget, chan, job, itemVars, callVars, lost, late>>

-----------------------------------------------------------------------------
(* The poll thread.                                                        *)

PollConnect(p) ==
  /\ chan[p] = "none"
  /\ chan' = [chan EXCEPT ![p] = "down"]
  /\ UNCHANGED <<caVars, budget, sub, workVars, itemVars, callVars, lost, late>>

\* subscribePv, by the poll thread or by a call that waits for the PV.
Subscribe(p) ==
  /\ chan[p] = "up" /\ sub[p] = "none"
  /\ sub' = [sub EXCEPT ![p] = "due"]
  /\ UNCHANGED <<caVars, budget, chan, workVars, itemVars, callVars, lost, late>>

-----------------------------------------------------------------------------
(* The worker: processValueChangeTask.                                     *)

\* The value is stored on the item of its PV; that of a child goes on to the parent.
Store(p) ==
  /\ job = NULL /\ queue[p] # <<>>
  /\ queue' = [queue EXCEPT ![p] = Tail(@)]
  /\ IF p = Base
     THEN value' = Head(queue[p]) /\ lost' = lost \ {p} /\ UNCHANGED job
     ELSE job' = p /\ UNCHANGED <<value, lost>>
  /\ UNCHANGED <<caVars, budget, linkVars, recordType, fields, fieldValues, callVars, late>>

\* The registry, or the item, is locked for more than 200 ms: the update is dropped.
Drop(p) ==
  /\ job = NULL /\ queue[p] # <<>> /\ Spend("timeout")
  /\ queue' = [queue EXCEPT ![p] = Tail(@)]
  /\ lost' = lost \cup {p}
  /\ UNCHANGED <<caVars, linkVars, job, itemVars, callVars, late>>

HandToParent ==
  /\ job # NULL
  /\ IF job = Rtyp THEN recordType' = TRUE /\ UNCHANGED fieldValues
                   ELSE fieldValues' = fieldValues \cup {job} /\ UNCHANGED recordType
  /\ job' = NULL
  /\ lost' = lost \ {job}
  /\ UNCHANGED <<caVars, budget, linkVars, queue, value, fields, callVars, late>>

\* The parent is locked for more than 200 ms: its record type stays as it is.
ParentLocked ==
  /\ job = Rtyp /\ Spend("timeout")
  /\ job' = NULL
  /\ lost' = lost \cup {Rtyp}
  /\ UNCHANGED <<caVars, linkVars, queue, itemVars, callVars, late>>

-----------------------------------------------------------------------------
(* A call of getValue.                                                     *)

Goto(v, step) == pc' = [pc EXCEPT ![v] = step]

Reserve(v) ==
  /\ pc[v] = "unreserved" /\ Spend(v)
  /\ Goto(v, "setup")
  /\ UNCHANGED <<caVars, linkVars, workVars, itemVars, bound, uninit, got, lost, late>>

\* In NoMDEL mode every call starts anew, otherwise only the first one does.
CallAgain(v) ==
  /\ pc[v] = "ready" /\ v \in NoMdel
  /\ Goto(v, "setup")
  /\ UNCHANGED <<caVars, budget, linkVars, workVars, itemVars, bound, uninit, got, lost, late>>

\* What an item forgets with its channel; the subscription of .RTYP may live on.
Forget(rtypStays) ==
  /\ value' = 0 /\ recordType' = FALSE
  /\ lost' = IF rtypStays /\ sub[Rtyp] = "served" THEN lost \cup {Rtyp} ELSE lost

\* setupPvIndexAndRegistry: a new item, or one whose channel is not connected and is
\* given up, or one that has no channel or no value yet.
Setup(v) ==
  /\ pc[v] = "setup"
  /\ IF chan[Base] = "down"
     THEN Forget(TRUE) /\ sub' = [sub EXCEPT ![Base] = "none"]
     ELSE UNCHANGED <<value, recordType, lost, sub>>
  /\ chan' = [chan EXCEPT ![Base] = IF @ = "up" THEN @ ELSE "none"]
  /\ uninit' = IF chan[Base] # "up" \/ value = 0 THEN uninit \cup {v} ELSE uninit \ {v}
  /\ fields' = IF v \in Wanting THEN Fields ELSE fields
  /\ Goto(v, "bind")
  /\ UNCHANGED <<caVars, budget, workVars, fieldValues, bound, got, late>>

\* With subscriptions there is nothing more to do than to read the item.
AfterConnecting(v) == IF v \in NoMdel THEN "get" ELSE "ready"

\* The array is bound; then the item is examined again.
Bind(v) ==
  /\ pc[v] = "bind"
  /\ bound' = bound \cup {v}
  /\ Goto(v, IF \/ v \in uninit
                \/ v \in Wanting /\ fields # {}
                \/ v \notin Wanting /\ (chan[Base] = "none" \/ ~recordType)
             THEN "connect" ELSE AfterConnecting(v))
  /\ uninit' = uninit \ {v}
  /\ UNCHANGED <<caVars, budget, linkVars, workVars, itemVars, got, lost, late>>

\* connectPv for the PV and its .RTYP: a channel that is not connected is replaced.
Connect(v) ==
  /\ pc[v] = "connect"
  /\ chan' = [p \in PVs |-> IF p \in {Base, Rtyp} /\ chan[p] # "up" THEN "down" ELSE chan[p]]
  /\ Goto(v, "await")
  /\ UNCHANGED <<caVars, budget, sub, workVars, itemVars, bound, uninit, got, lost, late>>

\* The registry stays locked: no channel is made for .RTYP.
ConnectTimesOut(v) ==
  /\ pc[v] = "connect" /\ Spend("timeout")
  /\ Goto(v, "await")
  /\ UNCHANGED <<caVars, linkVars, workVars, itemVars, bound, uninit, got, lost, late>>

\* connectPVs waits for the record type.
AwaitType(v) ==
  /\ pc[v] = "await" /\ recordType
  /\ Goto(v, IF fields = {} THEN AfterConnecting(v) ELSE "build")
  /\ UNCHANGED <<caVars, budget, linkVars, workVars, itemVars, bound, uninit, got, lost, late>>

\* The deadline, or a lock that was not got: the call goes on without the fields.
Deadline(v) ==
  /\ pc[v] \in {"await", "build"}
  /\ Goto(v, AfterConnecting(v))
  /\ late' = late \cup ({v} \cap Wanting)
  /\ UNCHANGED <<caVars, budget, linkVars, workVars, itemVars, bound, uninit, got, lost>>

\* buildFieldChannels, which looks at the record type again.
Build(v) ==
  /\ pc[v] = "build"
  /\ IF recordType
     THEN /\ chan' = [p \in PVs |-> IF p \in fields /\ chan[p] \in {"absent", "none"}
                                    THEN "down" ELSE chan[p]]
          /\ late' = late \ {v}
     ELSE late' = late \cup ({v} \cap Wanting) /\ UNCHANGED chan
  /\ Goto(v, AfterConnecting(v))
  /\ UNCHANGED <<caVars, budget, sub, workVars, itemVars, bound, uninit, got, lost>>

\* NoMDEL: ca_array_get and ca_pend_io, whose answer is in a buffer of the call.
Get(v) ==
  /\ pc[v] = "get"
  /\ IF server /\ chan[Base] = "up"
     THEN got' = [got EXCEPT ![v] = sv] /\ Goto(v, "store")
     ELSE UNCHANGED got /\ Goto(v, "clear")
  /\ UNCHANGED <<caVars, budget, linkVars, workVars, itemVars, bound, uninit, lost, late>>

\* ... which is stored on the item later, whatever has been stored meanwhile.
StoreGot(v) ==
  /\ pc[v] = "store"
  /\ value' = got[v]
  /\ got' = [got EXCEPT ![v] = 0]
  /\ Goto(v, "clear")
  /\ UNCHANGED <<caVars, budget, linkVars, workVars, recordType, fields, fieldValues, bound, uninit, lost, late>>

\* At the end of the call the subscription of the PV is cleared, whosever it is.
ClearSubscription(v) ==
  /\ pc[v] = "clear"
  /\ sub' = [sub EXCEPT ![Base] = "none"]
  /\ Goto(v, "ready")
  /\ UNCHANGED <<caVars, budget, chan, workVars, itemVars, bound, uninit, got, lost, late>>

\* getLock or the registry is not got: the call returns without that.
ReturnEarly(v) ==
  /\ pc[v] = "clear" /\ Spend("timeout")
  /\ Goto(v, "ready")
  /\ UNCHANGED <<caVars, linkVars, workVars, itemVars, bound, uninit, got, lost, late>>

-----------------------------------------------------------------------------
ServerStep == Change \/ ServerDown \/ ServerUp
CaStep(p) == ConnUp(p) \/ ConnDown(p) \/ Deliver(p)
PollStep(p) == PollConnect(p) \/ Subscribe(p)
WorkerStep == HandToParent \/ \E p \in PVs : Store(p)
WorkerTimeout == ParentLocked \/ \E p \in PVs : Drop(p)

\* The steps of a call that has the registry for itself, and those that have not.
RegistryStep(v) == Setup(v) \/ Connect(v) \/ Build(v)
OtherCallStep(v) ==
  \/ AwaitType(v) \/ Deadline(v) \/ Get(v) \/ StoreGot(v) \/ ClearSubscription(v)
CallTimeout(v) == ConnectTimesOut(v) \/ ReturnEarly(v)
=============================================================================
