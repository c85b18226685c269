---------------------------- MODULE ChangeDetect ----------------------------
(***************************************************************************)
(* How getValue decides which PVs to copy to the output arrays.  Each      *)
(* PvIndexEntry keeps the change hash of its PVItem (PVMetaInfo); a call   *)
(* compares hashes without a lock, copies the PVs that differ under their  *)
(* ioMutex (the values in one section, status, severity and time in a      *)
(* second), and then stores the hash they have at that time.  Meanwhile    *)
(* the worker applies value changes and the channels go down and up.       *)
(*                                                                         *)
(* The hash is modelled by the fields it mixes, without collisions.  One   *)
(* VI calls; Globals::getLock keeps the calls of others away from it.      *)
(***************************************************************************)
EXTENDS Integers, FiniteSets

CONSTANTS PVs,         \* of the call
          Enums,       \* those of type enum, whose labels are fetched apart
          Puts,        \* those that puts write to
          Buffers,     \* addresses malloc may return for the values of a PV
          MaxUpdates,  \* bound: value changes in a behaviour
          MaxDrops,    \* bound: connections lost in a behaviour
          FreshStamps, \* BOOLEAN: every value change has a new time stamp
          None

ASSUME ChangeDetectAssumption ==
  /\ Enums \subseteq PVs /\ Puts \subseteq PVs
  /\ MaxUpdates \in Nat /\ MaxDrops \in Nat
  /\ FreshStamps \in BOOLEAN
ASSUME NoneAssumption ==
  /\ None \notin Buffers
  /\ None \notin [val : Nat, stamp : Nat, alarm : {"ok", "comm"}, labels : BOOLEAN]

VARIABLES item,        \* PVItem: see ItemType
          wpc, task,   \* the worker: next step, the value change it applies
          updates, drops,
          meta,        \* PVMetaInfo::lastChangeHash
          out,         \* what the output arrays show of a PV
          outErr,      \* and its ErrorIO: in error or not
          isInitialized, status,
          rpc, reinit, changed, pending, todo, cached,  \* the call
          missed       \* what the last copy of a PV does not show, and the hash does not tell

call == <<rpc, reinit, changed, pending, todo, cached>>
worker == <<wpc, task>>
counts == <<updates, drops>>
shown == <<out, outErr>>
vars == <<item, worker, counts, meta, shown, isInitialized, status, call, missed>>

Versions == 0 .. MaxUpdates  \* 0: no value yet
ItemType == [val : Versions, stamp : Versions, alarm : {"ok", "comm"}, buf : Buffers \cup {None},
             conn : BOOLEAN, has : BOOLEAN, err : BOOLEAN, labels : BOOLEAN]
HashType == [stamp : Versions, alarm : {"ok", "comm"}, buf : Buffers \cup {None}]
OutType == [val : Versions, stamp : Versions, alarm : {"ok", "comm"}, labels : BOOLEAN]

\* What updateChangeHash mixes: neither the error code nor the labels.
ChangeHash(p) == [stamp |-> item[p].stamp, alarm |-> item[p].alarm, buf |-> item[p].buf]

\* ioMutex of p is free.
Unlocked(p) == IF wpc = "idle" THEN TRUE ELSE task.pv # p

Init ==
  /\ item = [p \in PVs |-> [val |-> 0, stamp |-> 0, alarm |-> "ok", buf |-> None,
                            conn |-> TRUE, has |-> FALSE, err |-> FALSE, labels |-> FALSE]]
  /\ wpc = "idle" /\ task = None
  /\ updates = 0 /\ drops = 0
  /\ meta = [p \in PVs |-> ChangeHash(p)]
  /\ out = [p \in PVs |-> None] /\ outErr = [p \in PVs |-> FALSE]
  /\ isInitialized = FALSE /\ status = 0
  /\ rpc = "idle" /\ reinit = FALSE
  /\ changed = {} /\ pending = {} /\ todo = {} /\ cached = None
  /\ missed = [p \in PVs |-> FALSE]

-----------------------------------------------------------------------------
(* The PVItem                                                              *)

\* The PVs of this call: all when it initialises, else those that changed.
Copies == IF reinit THEN PVs ELSE changed

\* A change of p the copy in this call no longer shows, though the hash that
\* the call stores will include it.
Late(p) == \/ rpc = "populate" /\ p \in Copies \ todo
           \/ rpc = "write" /\ p \in Copies \ (todo \ {cached.pv})
           \/ rpc = "update" /\ p \in todo

\* This call still copies p.
WillCopy(p) == \/ rpc \in {"setup", "scan", "labels", "decide", "lock"} /\ p \in Copies \cup pending
               \/ rpc = "populate" /\ p \in todo
               \/ rpc = "write" /\ p \in todo \ {cached.pv}

Miss(p) == missed' = [missed EXCEPT ![p] = @ \/ Late(p)]

\* Mutant: the time stamp is not taken over.
ApplyNoStamp ==
  /\ wpc = "idle" /\ updates < MaxUpdates
  /\ \E p \in PVs, b \in Buffers :
       /\ item[p].conn /\ b # item[p].buf
       /\ task' = [pv |-> p, buf |-> b]
       /\ item' = [item EXCEPT ![p].alarm = "ok", ![p].err = FALSE]
       /\ Miss(p)
  /\ updates' = updates + 1
  /\ wpc' = "clear"
  /\ UNCHANGED <<drops, meta, shown, isInitialized, status, call>>

\* The worker takes a task and the item's ioMutex, and sets time and alarm.
\* The callback allocated the buffer, so its address is not the item's.
ApplyStamp ==
  /\ wpc = "idle" /\ updates < MaxUpdates
  /\ \E p \in PVs, b \in Buffers, fresh \in {TRUE, FreshStamps} :
       /\ item[p].conn /\ b # item[p].buf
       /\ task' = [pv |-> p, buf |-> b]
       /\ item' = [item EXCEPT ![p].stamp = IF fresh THEN updates + 1 ELSE @,
                                 ![p].alarm = "ok", ![p].err = FALSE]
       /\ Miss(p)
  /\ updates' = updates + 1
  /\ wpc' = "clear"
  /\ UNCHANGED <<drops, meta, shown, isInitialized, status, call>>

ClearDbr ==
  /\ wpc = "clear"
  /\ item' = [item EXCEPT ![task.pv].buf = None]
  /\ Miss(task.pv)
  /\ wpc' = "set"
  /\ UNCHANGED <<task, counts, meta, shown, isInitialized, status, call>>

SetDbr ==
  /\ wpc = "set"
  /\ item' = [item EXCEPT ![task.pv].buf = task.buf, ![task.pv].val = updates, ![task.pv].has = TRUE]
  /\ Miss(task.pv)
  /\ wpc' = "idle" /\ task' = None
  /\ UNCHANGED <<counts, meta, shown, isInitialized, status, call>>

ConnDown(p) ==
  /\ Unlocked(p) /\ item[p].conn /\ drops < MaxDrops
  /\ item' = [item EXCEPT ![p].conn = FALSE, ![p].has = FALSE, ![p].alarm = "comm", ![p].err = TRUE]
  /\ drops' = drops + 1
  /\ Miss(p)
  /\ UNCHANGED <<worker, updates, meta, shown, isInitialized, status, call>>

ConnUp(p) ==
  /\ Unlocked(p) /\ ~item[p].conn
  /\ item' = [item EXCEPT ![p].conn = TRUE, ![p].err = FALSE]
  /\ UNCHANGED <<worker, counts, meta, shown, isInitialized, status, call, missed>>

\* A put sets the error code of its PV, and clears it.
PutError(p) ==
  /\ p \in Puts /\ Unlocked(p)
  /\ \E e \in BOOLEAN : item' = [item EXCEPT ![p].err = e]
  /\ UNCHANGED <<worker, counts, meta, shown, isInitialized, status, call, missed>>

\* enumInfoChanged takes no lock and changes no hash.
EnumInfo(p) ==
  /\ p \in Enums /\ item[p].has /\ ~item[p].labels
  /\ item' = [item EXCEPT ![p].labels = TRUE]
  /\ missed' = [missed EXCEPT ![p] = @ \/ ~WillCopy(p)]
  /\ UNCHANGED <<worker, counts, meta, shown, isInitialized, status, call>>

ItemStep == \/ ApplyStamp \/ ClearDbr \/ SetDbr
            \/ \E p \in PVs : ConnDown(p) \/ ConnUp(p) \/ PutError(p) \/ EnumInfo(p)

-----------------------------------------------------------------------------
(* getValue                                                                *)

Finish == /\ rpc' = "idle" /\ reinit' = FALSE
          /\ changed' = {} /\ pending' = {} /\ todo' = {}

Begin ==
  /\ rpc = "idle"
  /\ \E r \in BOOLEAN :
       /\ ~isInitialized => r
       /\ reinit' = r
       /\ rpc' = IF r THEN "setup" ELSE "scan"
  /\ todo' = PVs
  /\ UNCHANGED <<item, worker, counts, meta, shown, isInitialized, status, changed, pending, cached, missed>>

\* setupPvIndexAndRegistry makes a new entry for every PV.  Then getValue
\* connects and waits, and calls itself initialised.
Setup(p) ==
  /\ rpc = "setup" /\ p \in todo
  /\ meta' = [meta EXCEPT ![p] = ChangeHash(p)]
  /\ IF todo = {p} THEN rpc' = "scan" /\ todo' = PVs /\ isInitialized' = TRUE
     ELSE todo' = todo \ {p} /\ UNCHANGED <<rpc, isInitialized>>
  /\ UNCHANGED <<item, worker, counts, shown, status, reinit, changed, pending, cached, missed>>

HasChanged(p) == ChangeHash(p) # meta[p]

\* Mutant: a PV that has lost its connection is never looked at.
ScanConnected(p) ==
  /\ rpc = "scan" /\ p \in todo
  /\ changed' = IF item[p].conn /\ (~item[p].has \/ HasChanged(p)) THEN changed \cup {p} ELSE changed
  /\ IF todo = {p} THEN rpc' = "labels" /\ todo' = PVs ELSE todo' = todo \ {p} /\ UNCHANGED rpc
  /\ UNCHANGED <<item, worker, counts, meta, shown, isInitialized, status, reinit, pending, cached, missed>>

\* A connected PV without a value is subscribed and waited for.
Scan(p) ==
  /\ rpc = "scan" /\ p \in todo
  /\ changed' = IF (item[p].conn /\ ~item[p].has) \/ HasChanged(p) THEN changed \cup {p} ELSE changed
  /\ IF todo = {p} THEN rpc' = "labels" /\ todo' = PVs ELSE todo' = todo \ {p} /\ UNCHANGED rpc
  /\ UNCHANGED <<item, worker, counts, meta, shown, isInitialized, status, reinit, pending, cached, missed>>

\* The wait for the values has ended, by their arrival or its timeout.
Labels(p) ==
  /\ rpc = "labels" /\ p \in todo
  /\ pending' = IF p \in Enums /\ item[p].conn /\ item[p].has /\ ~item[p].labels
                THEN pending \cup {p} ELSE pending
  /\ IF todo = {p} THEN rpc' = "decide" /\ todo' = {} ELSE todo' = todo \ {p} /\ UNCHANGED rpc
  /\ UNCHANGED <<item, worker, counts, meta, shown, isInitialized, status, reinit, changed, cached, missed>>

AnyError == \E p \in PVs : item[p].err  \* pvErrorCount > 0

\* The wait for the labels has ended too.
Decide ==
  /\ rpc = "decide"
  /\ IF changed \cup pending = {} /\ ~reinit
     THEN Finish /\ status' = IF AnyError THEN 1 ELSE 0
     ELSE rpc' = "lock" /\ changed' = changed \cup pending /\ UNCHANGED <<reinit, pending, todo, status>>
  /\ UNCHANGED <<item, worker, counts, meta, shown, isInitialized, cached, missed>>

\* getLock times out, or the output arrays cannot be prepared.
GiveUp ==
  /\ rpc = "lock"
  /\ Finish /\ status' = 1
  /\ missed' = [p \in PVs |-> missed[p] \/ reinit \/ p \in pending]
  /\ UNCHANGED <<item, worker, counts, meta, shown, isInitialized, cached>>

\* pvRegistryLock times out: the status is left as it is.
GiveUpRegistry ==
  /\ rpc = "lock"
  /\ Finish
  /\ missed' = [p \in PVs |-> missed[p] \/ reinit \/ p \in pending]
  /\ UNCHANGED <<item, worker, counts, meta, shown, isInitialized, status, cached>>

Lock ==
  /\ rpc = "lock"
  /\ rpc' = "populate" /\ todo' = Copies
  /\ UNCHANGED <<item, worker, counts, meta, shown, isInitialized, status, reinit, changed, pending, cached, missed>>

\* The first critical section of populateOutputArrays: the values as strings
\* or numbers.
Copy(p) ==
  /\ rpc = "populate" /\ p \in todo /\ Unlocked(p)
  /\ cached' = [pv |-> p, val |-> item[p].val, labels |-> item[p].labels]
  /\ missed' = [missed EXCEPT ![p] = FALSE]
  /\ rpc' = "write"
  /\ UNCHANGED <<item, worker, counts, meta, shown, isInitialized, status, reinit, changed, pending, todo>>

\* The second: the errors of all PVs if there is one, then all of this PV.
Write ==
  /\ rpc = "write" /\ Unlocked(cached.pv)
  /\ out' = [out EXCEPT ![cached.pv] =
               [val |-> cached.val, stamp |-> item[cached.pv].stamp, alarm |-> item[cached.pv].alarm,
                labels |-> cached.labels]]
  /\ outErr' = [p \in PVs |-> IF AnyError \/ p = cached.pv THEN item[p].err ELSE outErr[p]]
  /\ cached' = None
  /\ IF todo = {cached.pv}
     THEN /\ rpc' = "update" /\ status' = IF AnyError THEN 1 ELSE 0
          /\ todo' = IF changed = {} THEN PVs ELSE changed
     ELSE rpc' = "populate" /\ todo' = todo \ {cached.pv} /\ UNCHANGED status
  /\ UNCHANGED <<item, worker, counts, meta, isInitialized, reinit, changed, pending, missed>>

\* Mutant: the hash of every PV is stored, whichever were copied.
UpdateAll(p) ==
  /\ rpc = "update" /\ p \in todo
  /\ meta' = [q \in PVs |-> ChangeHash(q)]
  /\ IF todo = {p} THEN Finish ELSE todo' = todo \ {p} /\ UNCHANGED <<rpc, reinit, changed, pending>>
  /\ UNCHANGED <<item, worker, counts, shown, isInitialized, status, cached, missed>>

\* updatePvIndexArray stores the hash the PV has now, not the one copied.
Update(p) ==
  /\ rpc = "update" /\ p \in todo
  /\ meta' = [meta EXCEPT ![p] = ChangeHash(p)]
  /\ IF todo = {p} THEN Finish ELSE todo' = todo \ {p} /\ UNCHANGED <<rpc, reinit, changed, pending>>
  /\ UNCHANGED <<item, worker, counts, shown, isInitialized, status, cached, missed>>

-----------------------------------------------------------------------------
CallStep == \/ Begin \/ Decide \/ Lock \/ Write
            \/ \E p \in PVs : Setup(p) \/ Scan(p) \/ Labels(p) \/ Copy(p) \/ Update(p)

Next == ItemStep \/ CallStep \/ GiveUp \/ GiveUpRegistry

Spec == Init /\ [][Next]_vars

\* The VI calls again and again, the worker works, and the locks are got at
\* times.
FairSpec == /\ Spec
            /\ WF_vars(CallStep) /\ SF_vars(Lock) /\ SF_vars(Write)
            /\ \A p \in PVs : SF_vars(Copy(p))
            /\ WF_vars(ClearDbr) /\ WF_vars(SetDbr)

-----------------------------------------------------------------------------
\* Type invariant.
TypeOK ==
  /\ item \in [PVs -> ItemType]
  /\ wpc \in {"idle", "clear", "set"}
  /\ task \in [pv : PVs, buf : Buffers] \cup {None}
  /\ updates \in Versions /\ drops \in 0 .. MaxDrops
  /\ meta \in [PVs -> HashType]
  /\ out \in [PVs -> OutType \cup {None}]
  /\ outErr \in [PVs -> BOOLEAN]
  /\ isInitialized \in BOOLEAN /\ status \in {0, 1}
  /\ rpc \in {"idle", "setup", "scan", "labels", "decide", "lock", "populate", "write", "update"}
  /\ reinit \in BOOLEAN
  /\ changed \subseteq PVs /\ pending \subseteq PVs /\ todo \subseteq PVs
  /\ cached \in [pv : PVs, val : Versions, labels : BOOLEAN] \cup {None}
  /\ missed \in [PVs -> BOOLEAN]

Shows(p) == /\ out[p] # None
            /\ out[p].val = item[p].val /\ out[p].stamp = item[p].stamp
            /\ out[p].alarm = item[p].alarm /\ out[p].labels = item[p].labels

\* Between two calls, a PV that hasChanged would not find changed is shown as
\* it is, unless it changed after it was copied and before its hash was
\* stored, its labels came too late, or a call gave up after its setup.
SeenIsShownUnlessMissed ==
  rpc = "idle" /\ isInitialized =>
    \A p \in PVs : HasChanged(p) \/ missed[p] \/ Shows(p)

\* A value is never shown with the time stamp of an older one: the values are
\* copied first.
ValueNotAheadOfStamp == \A p \in PVs : out[p] # None => out[p].val <= out[p].stamp

\* When the PVs no longer change, each is in the end shown as it is, with the
\* same exceptions.
EventuallyShown == <>[](\A p \in PVs : missed[p] \/ Shows(p))

-----------------------------------------------------------------------------
(* Expectations that the code does not meet: see the README, Deviations.   *)

\* changelog.txt:114 "keeping tracking consistent": a PV that is taken as
\* seen is shown.
SeenIsShown ==
  rpc = "idle" /\ (\A p \in PVs : out[p] # None) =>
    \A p \in PVs : HasChanged(p) \/ out[p].val = item[p].val

\* calab.h:252: the hash detects that a value has changed, when nothing was
\* missed.
ChangeDetected == SeenIsShownUnlessMissed

\* calab.h:179: IsInitialized is true when the arrays are initialised.
InitializedIsFilled == rpc = "idle" /\ isInitialized => \A p \in PVs : out[p] # None

\* calab.cpp:3712: ErrorIO reflects the error of all PVs, not just the changed
\* ones, after a PV was written.
ErrorIoCurrent == [][Write => outErr' = [p \in PVs |-> item[p].err]]_vars
=============================================================================
