------------------------- MODULE ChangeDetectProofs -------------------------
(***************************************************************************)
(* Theorems about ChangeDetect: what a call shows of a PV, against the     *)
(* worker that sets time and value of the PVItem in separate steps.        *)
(***************************************************************************)
EXTENDS ChangeDetect, TLAPS

\* Every value has a time stamp of its own.
Fresh == FreshStamps = TRUE

ItemStates ==
  [val : Nat, stamp : Nat, alarm : {"ok", "comm"}, buf : Buffers \cup {None},
   conn : BOOLEAN, has : BOOLEAN, err : BOOLEAN, labels : BOOLEAN]

\* In the PVItem, and in what the call has copied, the value is never newer than the stamp;
\* the worker gives the value the number of the stamp it set before.
StampInv ==
  /\ updates \in Nat
  /\ item \in [PVs -> ItemStates]
  /\ \A p \in PVs : item[p].val <= item[p].stamp /\ item[p].stamp <= updates
  /\ wpc # "idle" => /\ task.pv \in PVs /\ task.buf \in Buffers
                    /\ item[task.pv].stamp = updates
  /\ rpc = "write" => /\ cached.pv \in PVs /\ cached.val \in Nat
                      /\ cached.val <= item[cached.pv].stamp

\* Neither is what the output arrays show.
OutInv == \A p \in PVs : out[p] # None => out[p].val <= out[p].stamp

\* A step that gives no PVItem another value or stamp, and begins no write.
LEMMA SameStamps ==
  ASSUME StampInv, UNCHANGED <<updates, wpc, task, cached>>, rpc' = "write" => rpc = "write",
         item' \in [PVs -> ItemStates],
         \A p \in PVs : item'[p].val = item[p].val /\ item'[p].stamp = item[p].stamp
  PROVE  StampInv'
BY DEF StampInv

\* The worker.
LEMMA WorkerStamps ==
  ASSUME Fresh, StampInv, ApplyStamp \/ ClearDbr \/ SetDbr
  PROVE  StampInv'
<1> USE DEF StampInv
<1>1. CASE ApplyStamp
  <2>1. PICK p \in PVs, b \in Buffers :
          /\ task' = [pv |-> p, buf |-> b]
          /\ item' = [item EXCEPT ![p].stamp = updates + 1, ![p].alarm = "ok", ![p].err = FALSE]
    BY <1>1 DEF ApplyStamp, Fresh
  <2>2. updates' = updates + 1 /\ rpc' = rpc /\ cached' = cached
    BY <1>1 DEF ApplyStamp, call
  <2>3. item' \in [PVs -> ItemStates]
    <3>1. PICK n \in Nat : n = updates + 1
      OBVIOUS
    <3>2. [item[p] EXCEPT !.stamp = n, !.alarm = "ok", !.err = FALSE] \in ItemStates
      BY ZenonT(30) DEF ItemStates
    <3> QED
      BY <2>1, <3>1, <3>2
  <2>4. /\ item'[p].val = item[p].val /\ item'[p].stamp = updates + 1
        /\ \A q \in PVs \ {p} : item'[q] = item[q]
    BY <2>1 DEF ItemStates
  <2>5. \A q \in PVs : item[q].val \in Nat /\ item[q].stamp \in Nat
    BY DEF ItemStates
  <2> QED
    BY <2>1, <2>2, <2>3, <2>4, <2>5
<1>2. CASE ClearDbr
  <2>1. /\ wpc = "clear" /\ item' = [item EXCEPT ![task.pv].buf = None]
        /\ UNCHANGED <<task, updates, rpc, cached>>
    BY <1>2 DEF ClearDbr, counts, call
  <2>2. PICK p \in PVs : p = task.pv
    BY <2>1
  <2>3. item' \in [PVs -> ItemStates]
    BY <2>1, <2>2 DEF ItemStates
  <2>4. \A q \in PVs : item'[q].val = item[q].val /\ item'[q].stamp = item[q].stamp
    BY <2>1, <2>2 DEF ItemStates
  <2> QED
    BY <2>1, <2>2, <2>3, <2>4
<1>3. CASE SetDbr
  <2>1. /\ wpc = "set" /\ wpc' = "idle"
        /\ item' = [item EXCEPT ![task.pv].buf = task.buf, ![task.pv].val = updates, ![task.pv].has = TRUE]
        /\ UNCHANGED <<updates, rpc, cached>>
    BY <1>3 DEF SetDbr, counts, call
  <2>2. PICK p \in PVs : p = task.pv
    BY <2>1
  <2>3. item' \in [PVs -> ItemStates]
    <3>1. PICK n \in Nat : n = updates
      OBVIOUS
    <3>2. PICK b \in Buffers : b = task.buf
      BY <2>1
    <3>3. [item[p] EXCEPT !.buf = b, !.val = n, !.has = TRUE] \in ItemStates
      BY ZenonT(30) DEF ItemStates
    <3> QED
      BY <2>1, <2>2, <3>1, <3>2, <3>3
  <2>4. /\ item'[p].val = updates /\ item'[p].stamp = item[p].stamp
        /\ \A q \in PVs \ {p} : item'[q] = item[q]
    BY <2>1, <2>2 DEF ItemStates
  <2> QED
    BY <2>1, <2>2, <2>3, <2>4
<1> QED
  BY <1>1, <1>2, <1>3

\* What a call copies and shows is never newer than the stamp shown with it.
THEOREM StampsRight == ASSUME Fresh PROVE Spec => [](StampInv /\ OutInv)
<1>1. Init => StampInv /\ OutInv
  BY DEF Init, StampInv, OutInv, ItemStates
<1>2. StampInv /\ OutInv /\ [Next]_vars => (StampInv /\ OutInv)'
  <2> SUFFICES ASSUME StampInv, OutInv, [Next]_vars PROVE StampInv' /\ OutInv'
    OBVIOUS
  <2>1. StampInv'
    <3>1. CASE ItemStep
      <4>1. ASSUME NEW p \in PVs, ConnDown(p) \/ ConnUp(p) \/ PutError(p) \/ EnumInfo(p) PROVE StampInv'
        <5>1. UNCHANGED <<updates, wpc, task, cached, rpc>>
          BY <4>1 DEF ConnDown, ConnUp, PutError, EnumInfo, worker, counts, call
        <5>2. item' \in [PVs -> ItemStates]
          <6>1. /\ [item[p] EXCEPT !.conn = FALSE, !.has = FALSE, !.alarm = "comm", !.err = TRUE] \in ItemStates
                /\ [item[p] EXCEPT !.conn = TRUE, !.err = FALSE] \in ItemStates
                /\ \A e \in BOOLEAN : [item[p] EXCEPT !.err = e] \in ItemStates
                /\ [item[p] EXCEPT !.labels = TRUE] \in ItemStates
            BY DEF StampInv, ItemStates
          <6> QED
            BY <4>1, <6>1 DEF ConnDown, ConnUp, PutError, EnumInfo, StampInv
        <5>3. \A q \in PVs : item'[q].val = item[q].val /\ item'[q].stamp = item[q].stamp
          BY <4>1 DEF ConnDown, ConnUp, PutError, EnumInfo, StampInv, ItemStates
        <5> QED
          BY <5>1, <5>2, <5>3, SameStamps
      <4> QED
        BY <3>1, <4>1, WorkerStamps DEF ItemStep
    <3>2. ASSUME NEW p \in PVs, Copy(p) PROVE StampInv'
      <4>1. /\ cached'.pv = p /\ cached'.val = item[p].val
            /\ UNCHANGED <<item, wpc, task, updates>>
        BY <3>2 DEF Copy, worker, counts
      <4> QED
        BY <4>1 DEF StampInv, ItemStates
    <3>3. CASE Write
      <4>1. UNCHANGED <<item, wpc, task, updates>> /\ rpc' # "write"
        BY <3>3 DEF Write, worker, counts
      <4> QED
        BY <4>1 DEF StampInv
    <3>4. CASE Begin \/ Decide \/ Lock \/ GiveUp \/ GiveUpRegistry
               \/ \E p \in PVs : Setup(p) \/ Scan(p) \/ Labels(p) \/ Update(p)
      <4>1. UNCHANGED <<item, wpc, task, updates, cached>> /\ (rpc' = "write" => rpc = "write")
        BY <3>4 DEF Begin, Decide, Lock, GiveUp, GiveUpRegistry, Setup, Scan, Labels, Update, Finish,
                    worker, counts
      <4> QED
        BY <4>1, SameStamps DEF StampInv
    <3>5. CASE UNCHANGED vars
      BY <3>5 DEF vars, worker, counts, call, StampInv
    <3> QED
      BY <3>1, <3>2, <3>3, <3>4, <3>5 DEF Next, CallStep
  <2>2. OutInv'
    <3>1. CASE Write
      <4>1. /\ rpc = "write"
            /\ out' = [out EXCEPT ![cached.pv] =
                         [val |-> cached.val, stamp |-> item[cached.pv].stamp,
                          alarm |-> item[cached.pv].alarm, labels |-> cached.labels]]
        BY <3>1 DEF Write
      <4>2. cached.val <= item[cached.pv].stamp
        BY <4>1 DEF StampInv
      <4>3. ASSUME NEW p \in PVs, p = cached.pv, p \in DOMAIN out PROVE out'[p].val <= out'[p].stamp
        BY <4>1, <4>2, <4>3
      <4> QED
        BY <4>1, <4>3 DEF OutInv
    <3>2. CASE out' = out
      BY <3>2 DEF OutInv
    <3> QED
      BY <3>1, <3>2
      DEF Next, ItemStep, CallStep, ApplyStamp, ClearDbr, SetDbr, ConnDown, ConnUp, PutError, EnumInfo,
          Begin, Decide, Lock, GiveUp, GiveUpRegistry, Setup, Scan, Labels, Copy, Update, shown, vars
  <2> QED
    BY <2>1, <2>2
<1> QED
  BY <1>1, <1>2, PTL DEF Spec

\* A value is never shown with the time stamp of an older one (calab.cpp, populateOutputArrays
\* copies the values first), for any number of PVs, updates and lost connections.
THEOREM StampNotOlder == ASSUME Fresh PROVE Spec => []ValueNotAheadOfStamp
<1>1. OutInv => ValueNotAheadOfStamp
  BY DEF OutInv, ValueNotAheadOfStamp
<1> QED
  BY <1>1, StampsRight, PTL

-----------------------------------------------------------------------------
(* What a call takes as seen: the hash tells every later change.           *)

HashStates == [stamp : Nat, alarm : {"ok", "comm"}, buf : Buffers \cup {None}]

\* The types the argument needs.
CallTypes ==
  /\ meta \in [PVs -> HashStates] /\ missed \in [PVs -> BOOLEAN] /\ DOMAIN out = PVs
  /\ wpc \in {"idle", "clear", "set"}
  /\ isInitialized \in BOOLEAN /\ reinit \in BOOLEAN
  /\ changed \subseteq PVs /\ pending \subseteq PVs /\ todo \subseteq PVs
  /\ rpc \in {"idle", "setup", "scan", "labels", "decide", "lock", "populate", "write", "update"}
  /\ rpc = "write" => cached.labels \in BOOLEAN

WorkerOn(p) == wpc # "idle" /\ task.pv = p

\* A hash that was stored comes back only with the value it was stored for: under one
\* time stamp the buffer goes from the old one over none to the new one, and the alarm
\* from none to lost.
HashOk(p) ==
  /\ WorkerOn(p) => item[p].buf # task.buf
  /\ WorkerOn(p) /\ wpc = "set" => item[p].buf = None
  /\ meta[p].stamp <= item[p].stamp
  /\ meta[p].stamp = item[p].stamp =>
       /\ meta[p].alarm = "comm" => item[p].alarm = "comm"
       /\ WorkerOn(p) => meta[p].buf # task.buf
       /\ WorkerOn(p) /\ wpc = "clear" => meta[p].buf = item[p].buf
HashInv == \A p \in PVs : HashOk(p)

Before == rpc \in {"setup", "scan", "labels", "decide", "lock"}

\* What the call has still to do with a PV, what it has copied without having stored
\* the hash, and the PV it is at.
ToCopy(p) == \/ Before /\ (reinit \/ p \in pending)
             \/ rpc = "populate" /\ p \in todo
             \/ rpc = "write" /\ p \in todo \ {cached.pv}
Copied(p) == \/ rpc \in {"populate", "write"} /\ p \in Copies \ todo
             \/ rpc = "update" /\ p \in todo
Held(p) == rpc = "write" /\ cached.pv = p

CallShape ==
  /\ ~isInitialized => rpc \in {"idle", "setup"}
  /\ rpc = "idle" => ~reinit /\ changed = {} /\ pending = {}
  /\ rpc = "setup" => reinit /\ changed = {} /\ pending = {}
  /\ rpc = "scan" => pending = {}
  /\ rpc \in {"populate", "write"} => todo \subseteq Copies
  /\ rpc = "write" => cached.pv \in todo
  /\ rpc = "lock" => pending \subseteq changed

Settled(p) == isInitialized /\ ~ToCopy(p) /\ ~Copied(p) /\ ~Held(p)

SeenInv == \A p \in PVs :
  /\ Settled(p) => missed[p] \/ HasChanged(p) \/ Shows(p)
  /\ Copied(p) => missed[p] \/ Shows(p)
  /\ Held(p) => missed[p] \/ (cached.val = item[p].val /\ cached.labels = item[p].labels)
  /\ Before /\ ~reinit /\ p \in changed \ pending => HasChanged(p) \/ ~item[p].has

CallInv == CallTypes /\ HashInv /\ CallShape /\ SeenInv

\* Two hashes differ when one of their fields does, before a step and after it.
LEMMA HashFields ==
  /\ StampInv /\ CallTypes => \A p \in PVs :
       HasChanged(p) <=> ~(/\ meta[p].stamp = item[p].stamp /\ meta[p].alarm = item[p].alarm
                           /\ meta[p].buf = item[p].buf)
  /\ StampInv' /\ CallTypes' => \A p \in PVs :
       HasChanged(p)' <=> ~(/\ meta'[p].stamp = item'[p].stamp /\ meta'[p].alarm = item'[p].alarm
                            /\ meta'[p].buf = item'[p].buf)
<1>1. ASSUME StampInv, CallTypes, NEW p \in PVs
      PROVE  HasChanged(p) <=> ~(/\ meta[p].stamp = item[p].stamp /\ meta[p].alarm = item[p].alarm
                                 /\ meta[p].buf = item[p].buf)
  BY <1>1 DEF StampInv, CallTypes, HasChanged, ChangeHash, HashStates
<1>2. ASSUME StampInv', CallTypes', NEW p \in PVs
      PROVE  HasChanged(p)' <=> ~(/\ meta'[p].stamp = item'[p].stamp /\ meta'[p].alarm = item'[p].alarm
                                  /\ meta'[p].buf = item'[p].buf)
  BY <1>2 DEF StampInv, CallTypes, HasChanged, ChangeHash, HashStates
<1> QED
  BY <1>1, <1>2

\* A step of a PVItem changes nothing that is shown, or is noticed: by missed, by the
\* hash, or by the copy that is still to come.
Move(p) ==
  \/ /\ item'[p].val = item[p].val /\ item'[p].stamp = item[p].stamp
     /\ item'[p].alarm = item[p].alarm /\ item'[p].labels = item[p].labels
  \/ missed'[p]
  \/ HasChanged(p)' /\ ~Late(p)
  \/ WillCopy(p) /\ item[p].has /\ item'[p].has

\* What the moves of all PVs mean for the call.
LEMMA MovesSeen ==
  ASSUME CallInv, UNCHANGED <<meta, out, isInitialized, rpc, reinit, changed, pending, todo, cached>>,
         \A p \in PVs : /\ missed[p] => missed'[p]
                        /\ HasChanged(p) => HasChanged(p)'
                        /\ item'[p].has => item[p].has \/ HasChanged(p)'
                        /\ Move(p)
  PROVE  CallShape' /\ SeenInv'
<1> USE DEF CallInv
<1>1. CallShape'
  BY DEF CallShape, Copies
<1>2. ASSUME NEW p \in PVs
      PROVE  /\ (ToCopy(p)' <=> ToCopy(p)) /\ (Copied(p)' <=> Copied(p)) /\ (Held(p)' <=> Held(p))
             /\ (Settled(p)' <=> Settled(p)) /\ (Before' <=> Before)
             /\ (Late(p) <=> Copied(p) \/ Held(p))
             /\ WillCopy(p) => ToCopy(p) \/ (Before /\ ~reinit /\ p \in changed \ pending)
             /\ ToCopy(p) => ~Copied(p) /\ ~Held(p)
  BY DEF ToCopy, Copied, Held, Settled, Before, Late, WillCopy, Copies, CallShape
<1>3. ASSUME NEW p \in PVs, Settled(p) PROVE missed'[p] \/ HasChanged(p)' \/ Shows(p)'
  BY <1>2, <1>3 DEF SeenInv, Move, Shows, Settled
<1>4. ASSUME NEW p \in PVs, Copied(p) PROVE missed'[p] \/ Shows(p)'
  BY <1>2, <1>4 DEF SeenInv, Move, Shows, Copied, Before
<1>5. ASSUME NEW p \in PVs, Held(p)
      PROVE  missed'[p] \/ (cached'.val = item'[p].val /\ cached'.labels = item'[p].labels)
  BY <1>2, <1>5 DEF SeenInv, Move, Held, Before
<1>6. ASSUME NEW p \in PVs, Before, ~reinit, p \in changed \ pending
      PROVE  HasChanged(p)' \/ ~item'[p].has
  BY <1>6 DEF SeenInv
<1>7. SeenInv'
  BY <1>2, <1>3, <1>4, <1>5, <1>6 DEF SeenInv
<1> QED
  BY <1>1, <1>7

\* A step of one PVItem leaves the others and the call alone.
LEMMA OneMoves ==
  ASSUME CallInv, CallTypes', NEW q \in PVs,
         UNCHANGED <<meta, out, isInitialized, rpc, reinit, changed, pending, todo, cached>>,
         \A p \in PVs \ {q} : /\ item'[p] = item[p] /\ missed'[p] = missed[p]
                              /\ WorkerOn(p)' => WorkerOn(p) /\ wpc' = wpc /\ task' = task,
         HashOk(q)', missed[q] => missed'[q], HasChanged(q) => HasChanged(q)',
         item'[q].has => item[q].has \/ HasChanged(q)', Move(q)
  PROVE  CallInv'
<1>1. ASSUME NEW p \in PVs \ {q}
      PROVE  HashOk(p)' /\ (HasChanged(p)' <=> HasChanged(p)) /\ Move(p)
  <2>1. HashOk(p)
    BY DEF CallInv, HashInv
  <2> QED
    BY <2>1 DEF HashOk, HasChanged, ChangeHash, Move
<1>2. \A p \in PVs : /\ missed[p] => missed'[p]
                     /\ HasChanged(p) => HasChanged(p)'
                     /\ item'[p].has => item[p].has \/ HasChanged(p)'
                     /\ Move(p)
  BY <1>1
<1>3. CallShape' /\ SeenInv'
  BY <1>2, MovesSeen
<1>4. HashInv'
  BY <1>1 DEF HashInv
<1> QED
  BY <1>3, <1>4 DEF CallInv

\* Every change of a PVItem by the worker or by the channel is noticed.
LEMMA ItemSeen ==
  ASSUME Fresh, StampInv, StampInv', CallInv, ItemStep
  PROVE  CallInv'
<1>0. CallTypes
  BY DEF CallInv
<1>1. UNCHANGED <<meta, out, isInitialized, rpc, reinit, changed, pending, todo, cached>>
  BY Zenon DEF ItemStep, ApplyStamp, ClearDbr, SetDbr, ConnDown, ConnUp, PutError, EnumInfo, shown, call
<1>2. CallTypes'
  <2>1. missed' \in [PVs -> BOOLEAN] /\ wpc' \in {"idle", "clear", "set"}
    <3>1. ASSUME NEW p \in PVs, NEW b \in BOOLEAN PROVE [missed EXCEPT ![p] = @ \/ b] \in [PVs -> BOOLEAN]
      BY <1>0 DEF CallTypes
    <3>2. \A p \in PVs : Late(p) \in BOOLEAN /\ (~WillCopy(p)) \in BOOLEAN
      BY DEF Late, WillCopy
    <3>3. CASE ApplyStamp
      BY <3>1, <3>2, <3>3 DEF ApplyStamp, Miss
    <3>4. CASE ClearDbr
      BY <3>1, <3>2, <3>4 DEF ClearDbr, Miss, StampInv
    <3>5. CASE SetDbr
      BY <3>1, <3>2, <3>5 DEF SetDbr, Miss, StampInv
    <3>6. ASSUME NEW p \in PVs, ConnDown(p) \/ ConnUp(p) \/ PutError(p) \/ EnumInfo(p)
          PROVE  missed' \in [PVs -> BOOLEAN] /\ wpc' \in {"idle", "clear", "set"}
      BY <1>0, <3>1, <3>2, <3>6 DEF ConnDown, ConnUp, PutError, EnumInfo, Miss, worker, CallTypes
    <3> QED
      BY <3>3, <3>4, <3>5, <3>6 DEF ItemStep
  <2> QED
    BY <1>0, <1>1, <2>1 DEF CallTypes
<1>3. \A p \in PVs :
        /\ HasChanged(p) <=> ~(/\ meta[p].stamp = item[p].stamp /\ meta[p].alarm = item[p].alarm
                               /\ meta[p].buf = item[p].buf)
        /\ HasChanged(p)' <=> ~(/\ meta[p].stamp = item'[p].stamp /\ meta[p].alarm = item'[p].alarm
                                /\ meta[p].buf = item'[p].buf)
  BY <1>0, <1>1, <1>2, HashFields
<1>4. \A p \in PVs : HashOk(p) /\ item[p] \in ItemStates /\ meta[p] \in HashStates
  BY DEF CallInv, HashInv, CallTypes, StampInv
<1> USE DEF ItemStates, HashStates
<1>5. CASE ApplyStamp
  <2>0. PICK q \in PVs, b \in Buffers, fresh \in {TRUE, FreshStamps} :
          /\ b # item[q].buf /\ task' = [pv |-> q, buf |-> b]
          /\ item' = [item EXCEPT ![q].stamp = IF fresh THEN updates + 1 ELSE @,
                                 ![q].alarm = "ok", ![q].err = FALSE]
          /\ Miss(q)
    BY <1>5, Zenon DEF ApplyStamp
  <2>1. /\ wpc = "idle" /\ wpc' = "clear" /\ b # item[q].buf /\ task' = [pv |-> q, buf |-> b]
        /\ item' = [item EXCEPT ![q].stamp = updates + 1, ![q].alarm = "ok", ![q].err = FALSE]
    BY <1>5, <2>0 DEF ApplyStamp, Fresh
  <2>2. /\ item'[q].stamp = updates + 1 /\ item'[q].buf = item[q].buf /\ item'[q].has = item[q].has
        /\ \A p \in PVs \ {q} : item'[p] = item[p]
    BY <2>1, <1>4 DEF StampInv
  <2>3. /\ missed'[q] <=> missed[q] \/ Late(q)
        /\ \A p \in PVs \ {q} : missed'[p] = missed[p]
    BY <2>0, <1>0 DEF Miss, CallTypes
  <2>4. meta[q].stamp < item'[q].stamp
    BY <2>2, <1>4 DEF StampInv, HashOk
  <2>5. HasChanged(q)'
    BY <1>3, <1>4, <2>4
  <2>6. HashOk(q)'
    <3>1. meta[q].stamp \in Nat /\ item'[q].stamp \in Nat /\ task'.buf = b /\ wpc' = "clear"
      BY <1>4, <2>1, <2>2 DEF StampInv
    <3>2. meta'[q].stamp <= item'[q].stamp /\ meta'[q].stamp # item'[q].stamp
      BY <1>1, <2>4, <3>1
    <3>3. item'[q].buf # task'.buf
      BY <2>1, <2>2, <3>1
    <3> QED
      BY <3>1, <3>2, <3>3 DEF HashOk, WorkerOn
  <2>7. \A p \in PVs \ {q} : ~WorkerOn(p)'
    BY <2>1 DEF WorkerOn
  <2>8. Move(q)
    BY <2>3, <2>5 DEF Move
  <2> QED
    BY <1>1, <1>2, <2>2, <2>3, <2>5, <2>6, <2>7, <2>8, OneMoves
<1>6. CASE ClearDbr
  <2>1. PICK q \in PVs : q = task.pv
    BY <1>6 DEF ClearDbr, StampInv
  <2>2. /\ wpc = "clear" /\ wpc' = "set" /\ task' = task /\ WorkerOn(q)
        /\ item' = [item EXCEPT ![q].buf = None] /\ Miss(q) /\ task.buf \in Buffers
    BY <1>6, <2>1 DEF ClearDbr, StampInv, WorkerOn
  <2>3. /\ item'[q].buf = None /\ item'[q].stamp = item[q].stamp /\ item'[q].alarm = item[q].alarm
        /\ item'[q].val = item[q].val /\ item'[q].labels = item[q].labels /\ item'[q].has = item[q].has
        /\ \A p \in PVs \ {q} : item'[p] = item[p]
    BY <2>2, <1>4 DEF StampInv
  <2>4. /\ missed'[q] <=> missed[q] \/ Late(q)
        /\ \A p \in PVs \ {q} : missed'[p] = missed[p]
    BY <2>2, <1>0 DEF Miss, CallTypes
  <2>5. HasChanged(q) => HasChanged(q)'
    BY <1>3, <1>4, <2>2, <2>3 DEF HashOk
  <2>6. HashOk(q)'
    BY <1>1, <1>4, <2>1, <2>2, <2>3, NoneAssumption DEF HashOk, WorkerOn
  <2>7. \A p \in PVs \ {q} : ~WorkerOn(p)'
    BY <2>1, <2>2 DEF WorkerOn
  <2>8. Move(q)
    BY <2>3 DEF Move
  <2> QED
    BY <1>1, <1>2, <2>3, <2>4, <2>5, <2>6, <2>7, <2>8, OneMoves
<1>7. CASE SetDbr
  <2>1. PICK q \in PVs : q = task.pv
    BY <1>7 DEF SetDbr, StampInv
  <2>2. /\ wpc = "set" /\ wpc' = "idle" /\ WorkerOn(q) /\ Miss(q)
        /\ item' = [item EXCEPT ![q].buf = task.buf, ![q].val = updates, ![q].has = TRUE]
    BY <1>7, <2>1 DEF SetDbr, WorkerOn
  <2>3. /\ item'[q].buf = task.buf /\ item'[q].stamp = item[q].stamp /\ item'[q].alarm = item[q].alarm
        /\ \A p \in PVs \ {q} : item'[p] = item[p]
    BY <2>2, <1>4 DEF StampInv
  <2>4. /\ missed'[q] <=> missed[q] \/ Late(q)
        /\ \A p \in PVs \ {q} : missed'[p] = missed[p]
    BY <2>2, <1>0 DEF Miss, CallTypes
  <2>5. HasChanged(q)'
    BY <1>3, <1>4, <2>2, <2>3, ZenonT(30) DEF HashOk
  <2>6. HashOk(q)' /\ \A p \in PVs : ~WorkerOn(p)'
    BY <1>1, <1>4, <2>2, <2>3 DEF HashOk, WorkerOn
  <2>7. Move(q)
    BY <2>4, <2>5 DEF Move
  <2> QED
    BY <1>1, <1>2, <2>3, <2>4, <2>5, <2>6, <2>7, OneMoves
<1>8. ASSUME NEW q \in PVs, ConnDown(q) PROVE CallInv'
  <2>1. /\ ~WorkerOn(q) /\ UNCHANGED <<wpc, task>> /\ Miss(q)
        /\ item' = [item EXCEPT ![q].conn = FALSE, ![q].has = FALSE, ![q].alarm = "comm", ![q].err = TRUE]
    BY <1>8 DEF ConnDown, Unlocked, WorkerOn, worker
  <2>2. /\ item'[q].buf = item[q].buf /\ item'[q].stamp = item[q].stamp /\ item'[q].alarm = "comm"
        /\ item'[q].val = item[q].val /\ item'[q].labels = item[q].labels /\ ~item'[q].has
        /\ \A p \in PVs \ {q} : item'[p] = item[p]
    BY <2>1, <1>4 DEF StampInv
  <2>3. /\ missed'[q] <=> missed[q] \/ Late(q)
        /\ \A p \in PVs \ {q} : missed'[p] = missed[p]
    BY <2>1, <1>0 DEF Miss, CallTypes
  <2>4. /\ HasChanged(q) => HasChanged(q)'
        /\ item[q].alarm = "ok" => HasChanged(q)'
    BY <1>3, <1>4, <2>2 DEF HashOk
  <2>5. HashOk(q)' /\ \A p \in PVs : WorkerOn(p)' => WorkerOn(p)
    BY <1>1, <1>4, <2>1, <2>2 DEF HashOk, WorkerOn
  <2>6. Move(q)
    BY <1>4, <2>2, <2>3, <2>4 DEF Move
  <2> QED
    BY <1>1, <1>2, <2>1, <2>2, <2>3, <2>4, <2>5, <2>6, OneMoves
<1>9. ASSUME NEW q \in PVs, ConnUp(q) \/ PutError(q) \/ EnumInfo(q) PROVE CallInv'
  <2>1. /\ UNCHANGED <<wpc, task>>
        /\ item'[q].buf = item[q].buf /\ item'[q].stamp = item[q].stamp /\ item'[q].alarm = item[q].alarm
        /\ item'[q].val = item[q].val /\ item'[q].has = item[q].has
        /\ \A p \in PVs \ {q} : item'[p] = item[p]
    BY <1>9, <1>4 DEF ConnUp, PutError, EnumInfo, worker, StampInv
  <2>2. /\ missed[q] => missed'[q]
        /\ \A p \in PVs \ {q} : missed'[p] = missed[p]
    BY <1>9, <1>0 DEF ConnUp, PutError, EnumInfo, CallTypes
  <2>3. HasChanged(q) => HasChanged(q)'
    BY <1>3, <2>1
  <2>4. HashOk(q)' /\ \A p \in PVs : WorkerOn(p)' => WorkerOn(p)
    BY <1>1, <1>4, <2>1 DEF HashOk, WorkerOn
  <2>5. Move(q)
    <3>1. CASE ConnUp(q) \/ PutError(q)
      <4>1. item'[q].labels = item[q].labels
        BY <3>1, <1>4 DEF ConnUp, PutError, StampInv
      <4> QED
        BY <2>1, <4>1 DEF Move
    <3>2. CASE EnumInfo(q)
      <4>1. item[q].has /\ (missed'[q] <=> missed[q] \/ ~WillCopy(q))
        BY <3>2, <1>0 DEF EnumInfo, CallTypes
      <4> QED
        BY <2>1, <4>1 DEF Move
    <3> QED
      BY <1>9, <3>1, <3>2
  <2> QED
    BY <1>1, <1>2, <2>1, <2>2, <2>3, <2>4, <2>5, OneMoves
<1> QED
  BY <1>5, <1>6, <1>7, <1>8, <1>9 DEF ItemStep

\* A step of the call that stores no hash and shows nothing.
LEMMA SameHash ==
  ASSUME CallInv, UNCHANGED <<item, wpc, task, meta, out>>
  PROVE  /\ HashInv'
         /\ \A p \in PVs : (HasChanged(p)' <=> HasChanged(p)) /\ (Shows(p)' <=> Shows(p))
<1>1. HashInv'
  BY DEF CallInv, HashInv, HashOk, WorkerOn
<1>2. \A p \in PVs : (HasChanged(p)' <=> HasChanged(p)) /\ (Shows(p)' <=> Shows(p))
  BY DEF HasChanged, ChangeHash, Shows
<1> QED
  BY <1>1, <1>2

\* A step that stores the hash a PVItem has now.
LEMMA NewHash ==
  ASSUME StampInv, CallInv, UNCHANGED <<item, wpc, task, out>>, NEW q \in PVs,
         meta' = [meta EXCEPT ![q] = ChangeHash(q)]
  PROVE  /\ HashInv' /\ meta' \in [PVs -> HashStates]
         /\ \A p \in PVs \ {q} : HasChanged(p)' <=> HasChanged(p)
         /\ \A p \in PVs : Shows(p)' <=> Shows(p)
<1>1. ChangeHash(q) \in HashStates
  BY DEF ChangeHash, HashStates, StampInv, ItemStates
<1>2. meta' \in [PVs -> HashStates] /\ meta'[q] = ChangeHash(q)
      /\ \A p \in PVs \ {q} : meta'[p] = meta[p]
  BY <1>1 DEF CallInv, CallTypes
<1>3. HashOk(q)'
  <2>1. HashOk(q) /\ item[q].stamp \in Nat
    BY DEF CallInv, HashInv, StampInv, ItemStates
  <2>2. /\ meta'[q].stamp = item[q].stamp /\ meta'[q].alarm = item[q].alarm
        /\ meta'[q].buf = item[q].buf
    BY <1>2 DEF ChangeHash
  <2> QED
    BY <2>1, <2>2 DEF HashOk, WorkerOn
<1>4. \A p \in PVs \ {q} : HashOk(p)'
  BY <1>2 DEF CallInv, HashInv, HashOk, WorkerOn
<1>5. /\ \A p \in PVs \ {q} : HasChanged(p)' <=> HasChanged(p)
      /\ \A p \in PVs : Shows(p)' <=> Shows(p)
  BY <1>2 DEF HasChanged, ChangeHash, Shows
<1> QED
  BY <1>2, <1>3, <1>4, <1>5 DEF HashInv

\* The call up to its copies: what it will not copy is shown.
LEMMA ScanSeen ==
  ASSUME CallInv, StampInv,
         Begin \/ Decide \/ Lock \/ GiveUp \/ GiveUpRegistry \/ \E p \in PVs : Scan(p) \/ Labels(p)
  PROVE  CallInv'
<1> USE DEF CallInv
<1>1. UNCHANGED <<item, wpc, task, meta, out, isInitialized, cached>>
  BY DEF Begin, Decide, Lock, GiveUp, GiveUpRegistry, Scan, Labels, worker, shown
<1>2. /\ HashInv'
      /\ \A p \in PVs : (HasChanged(p)' <=> HasChanged(p)) /\ (Shows(p)' <=> Shows(p))
  BY <1>1, SameHash
<1> USE DEF CallTypes, CallShape, SeenInv, Settled, ToCopy, Copied, Held, Before, Copies, Finish
<1>3. CASE Begin
  <2>1. CallTypes' /\ CallShape'
    BY <1>1, <1>3 DEF Begin
  <2>2. SeenInv'
    BY <1>1, <1>2, <1>3 DEF Begin
  <2> QED
    BY <1>2, <2>1, <2>2
<1>4. CASE Decide
  <2>0. /\ missed' = missed /\ rpc = "decide"
        /\ \/ rpc' = "idle" /\ reinit' = FALSE /\ changed' = {} /\ pending' = {} /\ todo' = {}
           \/ rpc' = "lock" /\ changed' = changed \cup pending /\ UNCHANGED <<reinit, pending, todo>>
    BY <1>4 DEF Decide
  <2>1. CallTypes' /\ CallShape'
    BY <1>1, <2>0
  <2>2. SeenInv'
    BY <1>1, <1>2, <1>4 DEF Decide
  <2> QED
    BY <1>2, <2>1, <2>2
<1>5. CASE Lock
  <2>1. CallTypes' /\ CallShape'
    BY <1>1, <1>5 DEF Lock
  <2>2. SeenInv'
    BY <1>1, <1>2, <1>5 DEF Lock
  <2> QED
    BY <1>2, <2>1, <2>2
<1>6. CASE GiveUp \/ GiveUpRegistry
  <2>1. CallTypes' /\ CallShape'
    BY <1>1, <1>6 DEF GiveUp, GiveUpRegistry
  <2>2. \A p \in PVs : missed'[p] <=> missed[p] \/ reinit \/ p \in pending
    BY <1>6 DEF GiveUp, GiveUpRegistry
  <2>3. SeenInv'
    BY <1>1, <1>2, <1>6, <2>2 DEF GiveUp, GiveUpRegistry
  <2> QED
    BY <1>2, <2>1, <2>3
<1>7. ASSUME NEW q \in PVs, Scan(q) PROVE CallInv'
  <2>1. CallTypes' /\ CallShape'
    BY <1>1, <1>7 DEF Scan
  <2>2. SeenInv'
    BY <1>1, <1>2, <1>7 DEF Scan
  <2> QED
    BY <1>2, <2>1, <2>2
<1>8. ASSUME NEW q \in PVs, Labels(q) PROVE CallInv'
  <2>1. CallTypes' /\ CallShape'
    BY <1>1, <1>8 DEF Labels
  <2>2. SeenInv'
    BY <1>1, <1>2, <1>8 DEF Labels
  <2> QED
    BY <1>2, <2>1, <2>2
<1> QED
  BY <1>3, <1>4, <1>5, <1>6, <1>7, <1>8

\* Setting up, copying, writing and storing the hash.
LEMMA CopySeen ==
  ASSUME CallInv, StampInv,
         Write \/ \E p \in PVs : Setup(p) \/ Copy(p) \/ Update(p)
  PROVE  CallInv'
<1> USE DEF CallInv
<1>1. UNCHANGED <<item, wpc, task>>
  BY DEF Write, Setup, Copy, Update, worker
<1>2. ASSUME NEW q \in PVs, Setup(q) PROVE CallInv'
  <2>1. UNCHANGED <<out, missed, reinit, changed, pending, cached>> /\ meta' = [meta EXCEPT ![q] = ChangeHash(q)]
    BY <1>2 DEF Setup, shown
  <2>2. HashInv' /\ meta' \in [PVs -> HashStates]
    BY <1>1, <2>1, NewHash
  <2>3. CallTypes' /\ CallShape'
    <3>1. /\ rpc = "setup" /\ rpc' \in {"setup", "scan"} /\ todo' \subseteq PVs
          /\ isInitialized' \in BOOLEAN /\ (rpc' = "scan" => isInitialized') /\ wpc' = wpc
      BY <1>1, <1>2 DEF Setup, CallTypes
    <3>2. CallTypes'
      BY <2>1, <2>2, <3>1 DEF CallTypes
    <3>3. CallShape'
      BY <2>1, <3>1 DEF CallTypes, CallShape
    <3> QED
      BY <3>2, <3>3
  <2>4. SeenInv'
    BY <1>2, <2>1 DEF Setup, CallTypes, CallShape, SeenInv, Settled, ToCopy, Copied, Held, Before
  <2> QED
    BY <2>2, <2>3, <2>4
<1>3. ASSUME NEW q \in PVs, Copy(q) PROVE CallInv'
  <2>1. /\ UNCHANGED <<meta, out, isInitialized, reinit, changed, pending, todo>>
        /\ rpc = "populate" /\ rpc' = "write" /\ q \in todo
        /\ cached' = [pv |-> q, val |-> item[q].val, labels |-> item[q].labels]
        /\ missed' = [missed EXCEPT ![q] = FALSE]
    BY <1>3 DEF Copy, shown
  <2>2. /\ HashInv'
        /\ \A p \in PVs : (HasChanged(p)' <=> HasChanged(p)) /\ (Shows(p)' <=> Shows(p))
    BY <1>1, <2>1, SameHash
  <2>3. cached'.pv = q /\ cached'.val = item[q].val /\ cached'.labels = item[q].labels
        /\ item[q].labels \in BOOLEAN
    BY <2>1 DEF StampInv, ItemStates
  <2>4. CallTypes' /\ CallShape'
    BY <1>1, <2>1, <2>3 DEF CallTypes, CallShape, Copies
  <2>5. \A p \in PVs \ {q} : missed'[p] = missed[p]
    BY <2>1 DEF CallTypes
  <2>6. SeenInv'
    BY <1>1, <2>1, <2>2, <2>3, <2>5
    DEF CallShape, SeenInv, Settled, ToCopy, Copied, Held, Before, Copies
  <2> QED
    BY <2>2, <2>4, <2>6
<1>4. CASE Write
  <2>0. PICK q \in PVs : q = cached.pv
    BY <1>4 DEF Write, StampInv
  <2>1. /\ UNCHANGED <<meta, missed, isInitialized, reinit, changed, pending>>
        /\ rpc = "write" /\ q \in todo /\ todo \subseteq Copies
        /\ out' = [out EXCEPT ![q] = [val |-> cached.val, stamp |-> item[q].stamp,
                                      alarm |-> item[q].alarm, labels |-> cached.labels]]
    BY <1>4, <2>0 DEF Write, CallShape
  <2>2. /\ todo = {q} => rpc' = "update" /\ todo' = IF changed = {} THEN PVs ELSE changed
        /\ todo # {q} => rpc' = "populate" /\ todo' = todo \ {q}
    BY <1>4, <2>0 DEF Write
  <2>3. HashInv' /\ \A p \in PVs : HasChanged(p)' <=> HasChanged(p)
    BY <1>1, <2>1 DEF HashInv, HashOk, WorkerOn, HasChanged, ChangeHash
  <2>4. \A p \in PVs \ {q} : Shows(p)' <=> Shows(p)
    BY <1>1, <2>1 DEF Shows, CallTypes
  <2>5. missed[q] \/ Shows(q)'
    <3>1. out'[q] = [val |-> cached.val, stamp |-> item[q].stamp,
                     alarm |-> item[q].alarm, labels |-> cached.labels]
      BY <2>1 DEF CallTypes
    <3>2. /\ cached.val \in Nat /\ cached.labels \in BOOLEAN
          /\ item[q].stamp \in Nat /\ item[q].alarm \in {"ok", "comm"}
      BY <2>1 DEF StampInv, ItemStates, CallTypes
    <3>3. out'[q] # None
      BY <3>1, <3>2, NoneAssumption
    <3>4. missed[q] \/ (cached.val = item[q].val /\ cached.labels = item[q].labels)
      BY <2>0, <2>1 DEF SeenInv, Held
    <3> QED
      BY <1>1, <3>1, <3>3, <3>4 DEF Shows
  <2>6. CallTypes' /\ CallShape'
    <3>1. rpc' \in {"update", "populate"} /\ todo' \subseteq PVs /\ DOMAIN out' = PVs
      BY <2>1, <2>2 DEF CallTypes
    <3>2. rpc' = "populate" => todo' \subseteq Copies'
      BY <2>1, <2>2 DEF Copies
    <3>3. CallTypes'
      BY <1>1, <2>1, <3>1 DEF CallTypes
    <3>4. CallShape'
      BY <2>1, <3>1, <3>2 DEF CallShape
    <3> QED
      BY <3>3, <3>4
  <2>7. todo = {q} => todo' \subseteq Copies
    <3>1. changed \subseteq PVs /\ (~reinit => q \in changed)
      BY <2>1 DEF CallTypes, Copies
    <3> QED
      BY <2>2, <3>1 DEF Copies
  <2>8. SeenInv'
    BY <1>1, <2>0, <2>1, <2>2, <2>3, <2>4, <2>5, <2>7
    DEF CallTypes, CallShape, SeenInv, Settled, ToCopy, Copied, Held, Before, Copies
  <2> QED
    BY <2>3, <2>6, <2>8
<1>5. ASSUME NEW q \in PVs, Update(q) PROVE CallInv'
  <2>1. /\ UNCHANGED <<out, missed, isInitialized, cached>> /\ meta' = [meta EXCEPT ![q] = ChangeHash(q)]
        /\ rpc = "update" /\ q \in todo
    BY <1>5 DEF Update, shown
  <2>2. /\ HashInv' /\ meta' \in [PVs -> HashStates]
        /\ \A p \in PVs \ {q} : HasChanged(p)' <=> HasChanged(p)
        /\ \A p \in PVs : Shows(p)' <=> Shows(p)
    BY <1>1, <2>1, NewHash
  <2>3. CallTypes' /\ CallShape'
    <3>1. /\ wpc' = wpc
          /\ \/ rpc' = "idle" /\ reinit' = FALSE /\ changed' = {} /\ pending' = {} /\ todo' = {}
             \/ todo' = todo \ {q} /\ UNCHANGED <<rpc, reinit, changed, pending>>
      BY <1>1, <1>5 DEF Update, Finish
    <3>2. CallTypes'
      BY <2>1, <2>2, <3>1 DEF CallTypes
    <3>3. CallShape'
      BY <2>1, <3>1 DEF CallShape
    <3> QED
      BY <3>2, <3>3
  <2>4. SeenInv'
    BY <1>1, <1>5, <2>1, <2>2
    DEF Update, Finish, CallTypes, CallShape, SeenInv, Settled, ToCopy, Copied, Held, Before
  <2> QED
    BY <2>2, <2>3, <2>4
<1> QED
  BY <1>2, <1>3, <1>4, <1>5

\* The change hash is enough: between two calls, a PV whose hash is the stored one is
\* shown as it is, for any number of PVs, updates and lost connections, unless it changed
\* after it was copied, its labels came too late, or a call gave up.
THEOREM HashIsEnough == ASSUME Fresh PROVE Spec => []SeenIsShownUnlessMissed
<1>1. Init => CallInv
  <2> SUFFICES ASSUME Init PROVE CallInv
    OBVIOUS
  <2>1. CallTypes
    BY DEF Init, CallTypes, HashStates, ChangeHash
  <2>2. HashInv
    BY DEF Init, HashInv, HashOk, WorkerOn, ChangeHash
  <2>3. CallShape /\ SeenInv
    BY DEF Init, CallShape, SeenInv, Settled, ToCopy, Copied, Held, Before
  <2> QED
    BY <2>1, <2>2, <2>3 DEF CallInv
<1>2. StampInv /\ StampInv' /\ CallInv /\ [Next]_vars => CallInv'
  <2> SUFFICES ASSUME StampInv, StampInv', CallInv, [Next]_vars PROVE CallInv'
    OBVIOUS
  <2>1. CASE UNCHANGED vars
    BY <2>1
    DEF vars, worker, counts, call, shown, CallInv, CallTypes, HashInv, HashOk, WorkerOn, CallShape, SeenInv,
        Settled, ToCopy, Copied, Held, Before, Copies, HasChanged, ChangeHash, Shows
  <2> QED
    BY <2>1, ItemSeen, ScanSeen, CopySeen DEF Next, CallStep
<1>3. CallInv => SeenIsShownUnlessMissed
  BY DEF CallInv, SeenInv, Settled, ToCopy, Copied, Held, Before, SeenIsShownUnlessMissed
<1> QED
  BY <1>1, <1>2, <1>3, StampsRight, PTL DEF Spec
=============================================================================
