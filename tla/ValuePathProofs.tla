--------------------------- MODULE ValuePathProofs ---------------------------
(***************************************************************************)
(* Theorems about the way of a value through CA Lab, for any number of     *)
(* channels, updates, subscribers and threads.  From the callbacks to the  *)
(* PVItems (ValueWorker): one worker runs, updates keep their order, none  *)
(* gets lost but by giving up, every value buffer has one owner, and the   *)
(* path implements LastValue.  From the PVItem to the user events          *)
(* (UserEvents): no change is lost, and events do not go back.             *)
(***************************************************************************)
EXTENDS ValueWorker, UserEvents, SequenceTheorems, TLAPS

-----------------------------------------------------------------------------
(* From the callbacks to the PVItems.                                      *)

\* The steps of a callback that has the worker to start.
Starting == {"resetstop", "spawn", "setstarted"}
Stopping == {"setstop", "notify", "join"}

\* Only the callback with g_vcStartMtx starts the worker, only when it is not started, and
\* the teardown only takes one away that is.
StartInv ==
  /\ \A p \in PVs : cb[p] \in Starting \cup {"hook"} => startMtx = {p}
  /\ \A p \in PVs : cb[p] \in Starting => ~started
  /\ down \in Stopping => started
  /\ down = "clearstarted" => started /\ thread = "none"
  /\ thread # "none" => started \/ \E p \in PVs : cb[p] = "setstarted"
  /\ thread # "terminate"

\* The steps of a callback that has a task.
Carrying == {"ensure", "lock", "resetstop", "spawn", "setstarted", "hook", "push"}

Count(p) == Len(sent[p])

\* What a callback carries is the last update of its channel.
CarryInv ==
  \A p \in PVs :
    /\ Count(p) <= MaxUpdates
    /\ cb[p] \in Carrying =>
         /\ Count(p) > 0
         /\ cbTask[p].pv = p /\ cbTask[p].n = Count(p) /\ cbTask[p].data = sent[p][Count(p)]
    /\ cb[p] \notin Carrying => cbTask[p] = NoTask

\* The worker has a task while it processes it.
HoldInv ==
  /\ thread = "none" => worker \in {"loop", "end"}
  /\ task # NoTask <=> worker \in {"process", "drainprocess"}

Delivered(t) == t.pv \in PVs /\ t.n \in 1 .. Count(t.pv) /\ t.data = sent[t.pv][t.n]

\* Updates of a PV keep their order: the worker has the oldest, a callback the newest.
OrderInv ==
  /\ task # NoTask => Delivered(task)
  /\ \A i \in 1 .. Len(queue) : Delivered(queue[i])
  /\ \A i, j \in 1 .. Len(queue) : i < j /\ queue[i].pv = queue[j].pv => queue[i].n < queue[j].n
  /\ \A i \in 1 .. Len(queue) : task.pv = queue[i].pv => task.n < queue[i].n
  /\ \A i \in 1 .. Len(queue) : cbTask[queue[i].pv] # NoTask => queue[i].n < Count(queue[i].pv)
  /\ task # NoTask /\ cbTask[task.pv] # NoTask => task.n < Count(task.pv)

Shown(p) == item[p].value

\* What is under way is newer than what is shown, and all that came later is under way, too.
FlowInv ==
  \A p \in PVs :
    /\ \A n \in 1 .. MaxUpdates : UnderWay(p, n) => n <= Count(p) /\ Shown(p) < n
    /\ \A n, m \in 1 .. MaxUpdates : UnderWay(p, n) /\ n < m /\ m <= Count(p) => UnderWay(p, m)
    /\ Shown(p) > 0 => Shown(p) <= Count(p) /\ sent[p][Shown(p)]

\* No value and no status gets lost on the way, but by giving up.
ArriveInv ==
  \A p \in PVs :
    /\ \A n \in 1 .. Count(p) :
         sent[p][n] => Shown(p) >= n \/ UnderWay(p, n) \/ <<p, n>> \in dropped
    /\ Count(p) > 0 => item[p].error = ~sent[p][Count(p)] \/ UnderWay(p, Count(p))
                         \/ <<p, Count(p)>> \in dropped

\* A buffer is allocated as long as its update is under way or shown.
HeapInv ==
  \A p \in PVs : \A n \in 1 .. MaxUpdates :
    <<p, n>> \in heap <=> n <= Count(p) /\ sent[p][n] /\ (UnderWay(p, n) \/ Shown(p) = n)

IsLastGiven(p, n) ==
  /\ n \in 0 .. Count(p)
  /\ n = 0 \/ sent[p][n]
  /\ \A k \in n + 1 .. Count(p) : ~sent[p][k]
LastInv == \A p \in PVs : \E n \in 0 .. Count(p) : IsLastGiven(p, n)

-----------------------------------------------------------------------------
(* The start and the stop of the worker.                                   *)

\* Of the start of the worker, callbacks and teardown change nothing outside these steps.
StartVars == <<cb, started, startMtx, thread, down>>

\* Whoever starts or takes away the worker keeps the others from doing so.
LEMMA StartStep ==
  ASSUME StartInv, cb \in [PVs -> CbSteps], [Next]_vars
  PROVE  StartInv'
<1> USE DEF StartInv, Starting, Stopping, CbSteps
<1>1. ASSUME NEW p \in PVs, cb[p] \notin Starting \cup {"hook"},
             UNCHANGED <<started, startMtx, thread, down>>,
             \E s \in {"idle", "ensure", "lock", "push", "notify"} : cb' = [cb EXCEPT ![p] = s]
      PROVE  StartInv'
  BY <1>1
<1>2. ASSUME NEW p \in PVs, Enqueue(p) PROVE StartInv'
  <2>1. CASE EnsureStarted(p)
    BY <2>1, <1>1 DEF EnsureStarted, threadVars
  <2>2. CASE EnsureAgain(p)
    <3>1. CASE started
      BY <2>2, <3>1, <1>1 DEF EnsureAgain
    <3>2. CASE ~started
      BY <2>2, <3>2 DEF EnsureAgain
    <3> QED
      BY <3>1, <3>2
  <2>3. CASE ResetStop(p)
    BY <2>3 DEF ResetStop
  <2>4. CASE Spawn(p)
    <3>1. ~started /\ startMtx = {p} /\ \A q \in PVs : cb[q] # "setstarted"
      BY <2>4 DEF Spawn
    <3>2. thread = "none"
      BY <3>1
    <3> QED
      BY <2>4, <3>1, <3>2 DEF Spawn
  <2>5. CASE SetStarted(p)
    BY <2>5 DEF SetStarted
  <2>6. CASE RegisterHook(p)
    BY <2>6 DEF RegisterHook
  <2>7. CASE Push(p)
    BY <2>7, <1>1 DEF Push, threadVars
  <2>8. CASE NotifyOne(p)
    BY <2>8, <1>1 DEF NotifyOne, threadVars
  <2> QED
    BY <1>2, <2>1, <2>2, <2>3, <2>4, <2>5, <2>6, <2>7, <2>8 DEF Enqueue
<1>3. ASSUME NEW p \in PVs, NEW ok \in BOOLEAN, ValueChanged(p, ok) PROVE StartInv'
  BY <1>3, <1>1 DEF ValueChanged, threadVars
<1>4. CASE WorkerStep \/ SpuriousWakeup \/ UNCHANGED vars
  <2>1. UNCHANGED StartVars
    BY <1>4 DEF WorkerStep, LoopHead, TakeTask, Block, Drain, ProcessTask, GiveUpTask,
                SpuriousWakeup, cbVars, threadVars, vars, StartVars
  <2> QED
    BY <2>1 DEF StartVars
<1>5. CASE SetStopped \/ RunHooks \/ SetStop \/ NotifyAll
  <2>1. /\ UNCHANGED <<cb, started, startMtx, thread>>
        /\ down' \in Stopping => started
        /\ down' # "clearstarted"
    BY <1>5 DEF SetStopped, RunHooks, SetStop, NotifyAll, cbVars, threadVars
  <2> QED
    BY <2>1
<1>6. CASE Join \/ ClearStarted
  <2>1. /\ UNCHANGED <<cb, startMtx>> /\ thread' = "none"
        /\ \/ down' = "clearstarted" /\ started /\ UNCHANGED started
           \/ down' = "past" /\ ~started'
    BY <1>6 DEF Join, ClearStarted, cbVars, threadVars
  <2> QED
    BY <2>1
<1> QED
  BY <1>2, <1>3, <1>4, <1>5, <1>6 DEF Next, StopStep

-----------------------------------------------------------------------------
(* The types, and what callbacks and worker hold.                          *)

HandInv == TypeOK /\ StartInv /\ CarryInv /\ HoldInv

\* What an update carries is well typed.
LEMMA TaskTypes ==
  ASSUME NEW p \in PVs, NEW n \in 1 .. MaxUpdates, NEW ok \in BOOLEAN
  PROVE  /\ [pv |-> p, n |-> n, data |-> ok] \in Tasks \ {NoTask}
         /\ <<p, n>> \in Buffers
BY WorkerAssumption DEF Tasks, NoTask, Buffers

\* What is in the place of a task is one, or there is none.
LEMMA RealTask ==
  ASSUME NEW t \in Tasks
  PROVE  /\ t.n \in 0 .. MaxUpdates /\ t.data \in BOOLEAN
         /\ t # NoTask => t.pv \in PVs /\ t.n \in 1 .. MaxUpdates /\ buf(t) \in Buffers
         /\ t = NoTask => t.n = 0 /\ t.data = FALSE
<1>1. CASE t = NoTask
  BY <1>1, WorkerAssumption DEF NoTask
<1>2. CASE t # NoTask
  <2>1. t \in [pv : PVs, n : 1 .. MaxUpdates, data : BOOLEAN]
    BY <1>2 DEF Tasks
  <2>2. t.pv \in PVs /\ t.n \in 1 .. MaxUpdates /\ t.data \in BOOLEAN
    BY <2>1
  <2> QED
    BY <1>2, <2>2, WorkerAssumption DEF Buffers, buf
<1> QED
  BY <1>1, <1>2

\* A new update: it is the last one of its channel, and the callback has it.
LEMMA CameHand ==
  ASSUME HandInv, NEW p \in PVs, NEW ok \in BOOLEAN, ValueChanged(p, ok)
  PROVE  /\ (TypeOK /\ CarryInv /\ HoldInv)'
         /\ Count(p)' = Count(p) + 1 /\ Count(p)' \in 1 .. MaxUpdates
         /\ sent'[p][Count(p) + 1] = ok
         /\ \A n \in 1 .. Count(p) : sent'[p][n] = sent[p][n]
         /\ \A q \in PVs \ {p} : sent'[q] = sent[q] /\ Count(q)' = Count(q) /\ cbTask'[q] = cbTask[q]
         /\ cbTask[p] = NoTask /\ cbTask'[p] = [pv |-> p, n |-> Count(p) + 1, data |-> ok]
<1>1. /\ cb[p] = "idle" /\ Count(p) < MaxUpdates
      /\ sent' = [sent EXCEPT ![p] = Append(@, ok)]
      /\ cbTask' = [cbTask EXCEPT ![p] = [pv |-> p, n |-> Len(sent'[p]), data |-> ok]]
      /\ heap' = IF ok THEN heap \cup {<<p, Len(sent'[p])>>} ELSE heap
      /\ item' = IF ok THEN item ELSE [item EXCEPT ![p].error = TRUE]
      /\ cb' = [cb EXCEPT ![p] = "ensure"]
      /\ UNCHANGED <<queue, threadVars, workVars, dropped, down>>
  BY DEF ValueChanged, Count
<1>2. sent[p] \in Seq(BOOLEAN) /\ sent \in [PVs -> Seq(BOOLEAN)]
  BY DEF HandInv, TypeOK
<1>3. sent'[p] = Append(sent[p], ok) /\ \A q \in PVs \ {p} : sent'[q] = sent[q]
  BY <1>1, <1>2
<1>4. /\ sent'[p] \in Seq(BOOLEAN) /\ Count(p) \in Nat /\ Count(p)' = Count(p) + 1
      /\ sent'[p][Count(p) + 1] = ok
      /\ \A n \in 1 .. Count(p) : sent'[p][n] = sent[p][n]
  BY <1>2, <1>3, AppendProperties, LenProperties DEF Count
<1>5. Count(p)' \in 1 .. MaxUpdates /\ Len(sent'[p]) = Count(p) + 1
  BY <1>1, <1>4, WorkerAssumption DEF Count
<1>6. /\ [pv |-> p, n |-> Len(sent'[p]), data |-> ok] \in Tasks
      /\ <<p, Len(sent'[p])>> \in Buffers
  BY <1>4, <1>5, TaskTypes
<1>7. /\ cbTask'[p] = [pv |-> p, n |-> Count(p) + 1, data |-> ok]
      /\ \A q \in PVs \ {p} : cbTask'[q] = cbTask[q]
      /\ cb'[p] = "ensure" /\ \A q \in PVs \ {p} : cb'[q] = cb[q]
      /\ cbTask' \in [PVs -> Tasks] /\ cb' \in [PVs -> CbSteps]
  BY <1>1, <1>5, <1>6 DEF HandInv, TypeOK, CbSteps
<1>8. item' \in [PVs -> [value : 0 .. MaxUpdates, error : BOOLEAN]]
  BY <1>1 DEF HandInv, TypeOK
<1>9. sent' \in [PVs -> Seq(BOOLEAN)]
  BY <1>1, <1>2, <1>3, <1>4
<1>10. TypeOK'
  BY <1>1, <1>6, <1>7, <1>8, <1>9 DEF HandInv, TypeOK, threadVars, workVars
<1>11. CarryInv'
  BY <1>3, <1>4, <1>5, <1>7 DEF HandInv, CarryInv, Carrying, Count
<1>12. HoldInv'
  BY <1>1 DEF HandInv, HoldInv, threadVars, workVars
<1>13. cbTask[p] = NoTask
  BY <1>1 DEF HandInv, CarryInv, Carrying
<1> QED
  BY <1>3, <1>4, <1>5, <1>7, <1>10, <1>11, <1>12, <1>13 DEF Count

\* A callback that starts the worker keeps its task.
LEMMA StartHand ==
  ASSUME HandInv, StartInv', NEW p \in PVs,
         \/ EnsureStarted(p) \/ EnsureAgain(p) \/ ResetStop(p) \/ Spawn(p) \/ SetStarted(p)
         \/ RegisterHook(p)
  PROVE  (TypeOK /\ CarryInv /\ HoldInv)' /\ UNCHANGED <<sent, cbTask, queue, task, itemVars>>
<1>1. /\ cb[p] \in Carrying /\ \E s \in Carrying : cb' = [cb EXCEPT ![p] = s]
      /\ UNCHANGED <<sent, cbTask, queue, task, itemVars, down>>
      /\ stop' \in BOOLEAN /\ started' \in BOOLEAN /\ hook' \in BOOLEAN
      /\ startMtx' \in {startMtx, {p}, {}}
  BY DEF EnsureStarted, EnsureAgain, ResetStop, Spawn, SetStarted, RegisterHook, Carrying,
         threadVars, workVars, HandInv, TypeOK
<1>2. \/ UNCHANGED <<thread, worker>>
      \/ thread' \in {"running", "terminate"} /\ worker' = "loop" /\ (thread = "none" \/ thread' = "terminate")
  BY DEF EnsureStarted, EnsureAgain, ResetStop, Spawn, SetStarted, RegisterHook, threadVars, workVars
<1>3. thread' # "terminate"
  BY DEF StartInv
<1>4. CarryInv'
  BY <1>1 DEF HandInv, TypeOK, CarryInv, Count
<1>5. HoldInv' /\ worker' \in WorkerSteps /\ thread' \in {"none", "running", "terminate"}
  BY <1>1, <1>2, <1>3 DEF HandInv, TypeOK, HoldInv, WorkerSteps
<1>6. cb' \in [PVs -> CbSteps] /\ startMtx' \subseteq PVs
  BY <1>1 DEF HandInv, TypeOK, Carrying, CbSteps
<1> QED
  BY <1>1, <1>4, <1>5, <1>6 DEF HandInv, TypeOK, itemVars

\* A task goes from a callback into the queue.
LEMMA PushHand ==
  ASSUME HandInv, NEW p \in PVs, Push(p)
  PROVE  /\ (TypeOK /\ CarryInv /\ HoldInv)'
         /\ cbTask[p] # NoTask /\ cbTask'[p] = NoTask
         /\ \A q \in PVs \ {p} : cbTask'[q] = cbTask[q]
         /\ Len(queue') = Len(queue) + 1 /\ queue'[Len(queue) + 1] = cbTask[p]
         /\ \A i \in 1 .. Len(queue) : queue'[i] = queue[i]
         /\ UNCHANGED <<sent, task, itemVars>>
<1>1. /\ cb[p] = "push" /\ queue' = Append(queue, cbTask[p])
      /\ cbTask' = [cbTask EXCEPT ![p] = NoTask] /\ cb' = [cb EXCEPT ![p] = "notify"]
      /\ UNCHANGED <<sent, threadVars, workVars, itemVars, down>>
  BY DEF Push
<1>2. cbTask[p] \in Tasks /\ queue \in Seq(Tasks \ {NoTask}) /\ NoTask \in Tasks
  BY DEF HandInv, TypeOK, Tasks
<1>3. cbTask[p].n > 0 /\ cbTask[p].n # 0
  BY <1>1, LenProperties DEF HandInv, TypeOK, CarryInv, Carrying, Count
<1>4. cbTask[p] \in Tasks \ {NoTask}
  BY <1>2, <1>3 DEF NoTask
<1>5. /\ queue' \in Seq(Tasks \ {NoTask}) /\ Len(queue') = Len(queue) + 1
      /\ queue'[Len(queue) + 1] = cbTask[p] /\ \A i \in 1 .. Len(queue) : queue'[i] = queue[i]
  BY <1>1, <1>2, <1>4, AppendProperties
<1>6. /\ cbTask'[p] = NoTask /\ \A q \in PVs \ {p} : cbTask'[q] = cbTask[q]
      /\ cbTask' \in [PVs -> Tasks] /\ cb' \in [PVs -> CbSteps]
      /\ cb'[p] = "notify" /\ \A q \in PVs \ {p} : cb'[q] = cb[q]
  BY <1>1, <1>2 DEF HandInv, TypeOK, CbSteps
<1>7. TypeOK'
  BY <1>1, <1>5, <1>6 DEF HandInv, TypeOK, threadVars, workVars, itemVars
<1>8. CarryInv'
  BY <1>1, <1>6 DEF HandInv, CarryInv, Carrying, Count
<1>9. HoldInv'
  BY <1>1 DEF HandInv, HoldInv, threadVars, workVars
<1> QED
  BY <1>1, <1>4, <1>5, <1>6, <1>7, <1>8, <1>9 DEF workVars

\* The oldest task goes from the queue to the worker.
Took ==
  /\ thread = "running" /\ worker \in {"lock", "drain"} /\ worker' \in {"process", "drainprocess"}
  /\ queue # <<>> /\ task' = Head(queue) /\ queue' = Tail(queue)
  /\ UNCHANGED <<cbVars, threadVars, itemVars, down>>

\* The worker takes the head of the queue.
LEMMA TookHand ==
  ASSUME HandInv, Took
  PROVE  /\ (TypeOK /\ CarryInv /\ HoldInv)'
         /\ task = NoTask /\ task' # NoTask /\ task' = queue[1] /\ Len(queue) > 0
         /\ Len(queue') = Len(queue) - 1
         /\ \A i \in 1 .. Len(queue') : queue'[i] = queue[i + 1]
         /\ UNCHANGED <<sent, cbTask, itemVars>>
<1>1. queue \in Seq(Tasks \ {NoTask}) /\ queue # <<>>
  BY DEF HandInv, TypeOK, Took
<1>2. /\ queue' \in Seq(Tasks \ {NoTask}) /\ Len(queue') = Len(queue) - 1
      /\ \A i \in 1 .. Len(queue') : queue'[i] = queue[i + 1]
      /\ task' \in Tasks \ {NoTask}
  BY <1>1, HeadTailProperties DEF Took
<1>3. task' = queue[1] /\ Len(queue) > 0
  BY <1>1, EmptySeq DEF Took
<1>4. TypeOK'
  BY <1>2 DEF Took, HandInv, TypeOK, cbVars, threadVars, itemVars, WorkerSteps
<1>5. CarryInv' /\ HoldInv' /\ task = NoTask
  BY <1>2 DEF Took, HandInv, CarryInv, HoldInv, Count, cbVars, threadVars
<1> QED
  BY <1>2, <1>3, <1>4, <1>5 DEF Took, cbVars

\* The worker is done with its task.
LEMMA DoneHand ==
  ASSUME HandInv, ProcessTask \/ GiveUpTask
  PROVE  /\ (TypeOK /\ CarryInv /\ HoldInv)'
         /\ task # NoTask /\ task' = NoTask
         /\ UNCHANGED <<sent, cbTask, queue>>
<1>1. /\ worker \in {"process", "drainprocess"} /\ worker' \in {"loop", "drain"} /\ task' = NoTask
      /\ UNCHANGED <<cbVars, queue, threadVars, down>>
  BY DEF ProcessTask, GiveUpTask, AfterTask
<1>2. task # NoTask /\ task \in Tasks
  BY <1>1 DEF HandInv, TypeOK, HoldInv
<1>3. task.pv \in PVs /\ task.n \in 0 .. MaxUpdates /\ task.data \in BOOLEAN /\ buf(task) \in Buffers
  BY <1>2, RealTask
<1>4. /\ item' \in [PVs -> [value : 0 .. MaxUpdates, error : BOOLEAN]]
      /\ heap' \subseteq Buffers /\ dropped' \subseteq Buffers
  <2>1. CASE ProcessTask
    <3>1. /\ item' = [item EXCEPT ![task.pv] =
                        [value |-> IF task.data THEN task.n ELSE @.value, error |-> ~task.data]]
          /\ heap' \subseteq heap /\ dropped' = dropped
      BY <2>1 DEF ProcessTask
    <3>2. [value |-> IF task.data THEN task.n ELSE item[task.pv].value, error |-> ~task.data]
             \in [value : 0 .. MaxUpdates, error : BOOLEAN]
      BY <1>3 DEF HandInv, TypeOK
    <3> QED
      BY <3>1, <3>2 DEF HandInv, TypeOK
  <2>2. CASE GiveUpTask
    BY <2>2, <1>3 DEF GiveUpTask, HandInv, TypeOK
  <2> QED
    BY <2>1, <2>2
<1>5. NoTask \in Tasks
  BY DEF Tasks
<1>6. TypeOK'
  BY <1>1, <1>4, <1>5 DEF HandInv, TypeOK, cbVars, threadVars, WorkerSteps
<1>7. CarryInv' /\ HoldInv'
  BY <1>1 DEF HandInv, CarryInv, HoldInv, Count, cbVars, threadVars
<1> QED
  BY <1>1, <1>2, <1>6, <1>7 DEF cbVars

\* The other steps move no task.
dataVars == <<sent, cbTask, queue, task, itemVars>>

\* Notifications, waits and the stop of the worker leave the tasks where they are.
LEMMA ControlHand ==
  ASSUME HandInv,
         \/ \E p \in PVs : NotifyOne(p)
         \/ (WorkerStep \/ SpuriousWakeup) /\ UNCHANGED dataVars
         \/ SetStopped \/ StopStep \/ UNCHANGED vars
  PROVE  (TypeOK /\ CarryInv /\ HoldInv)' /\ UNCHANGED dataVars
<1>1. CASE \E p \in PVs : NotifyOne(p)
  <2>1. PICK p \in PVs : NotifyOne(p)
    BY <1>1
  <2>2. /\ cb[p] = "notify" /\ cb' = [cb EXCEPT ![p] = "idle"]
        /\ worker' \in {worker, "lock"} /\ (worker' # worker => worker = "wait")
        /\ UNCHANGED <<sent, cbTask, queue, threadVars, task, itemVars, down>>
    BY <2>1 DEF NotifyOne, Wake
  <2>3. TypeOK'
    BY <2>2 DEF HandInv, TypeOK, threadVars, itemVars, CbSteps, WorkerSteps
  <2>4. CarryInv' /\ HoldInv'
    BY <2>2 DEF HandInv, TypeOK, CarryInv, HoldInv, Carrying, Count, threadVars
  <2> QED
    BY <2>2, <2>3, <2>4 DEF dataVars
<1>2. CASE (WorkerStep \/ SpuriousWakeup) /\ UNCHANGED dataVars
  <2>1. CASE worker \in {"process", "drainprocess"}
    <3>1. ProcessTask \/ GiveUpTask
      BY <1>2, <2>1 DEF WorkerStep, LoopHead, TakeTask, Block, Drain, SpuriousWakeup
    <3> QED
      BY <3>1, <1>2, DoneHand DEF dataVars
  <2>2. CASE worker \notin {"process", "drainprocess"}
    <3>1. /\ UNCHANGED <<cbVars, threadVars, down>> /\ worker' \in WorkerSteps
          /\ thread = "running" \/ worker \in {"block", "wait"}
      BY <1>2, <2>2 DEF WorkerStep, LoopHead, TakeTask, Block, Drain, ProcessTask, GiveUpTask,
                        SpuriousWakeup, WorkerSteps, cbVars, threadVars
    <3>2. worker' \notin {"process", "drainprocess"}
      <4>1. task = NoTask /\ task' = NoTask
        BY <1>2, <2>2 DEF HandInv, HoldInv, dataVars
      <4>2. queue # <<>> => Head(queue) # NoTask
        BY HeadTailProperties DEF HandInv, TypeOK
      <4> QED
        BY <1>2, <2>2, <4>1, <4>2 DEF WorkerStep, LoopHead, TakeTask, Block, Drain, ProcessTask,
                                      GiveUpTask, SpuriousWakeup
    <3>3. TypeOK'
      BY <1>2, <3>1 DEF HandInv, TypeOK, dataVars, cbVars, threadVars, itemVars
    <3>4. CarryInv'
      BY <3>1 DEF HandInv, CarryInv, Count, cbVars
    <3>5. HoldInv'
      BY <1>2, <2>2, <3>1, <3>2 DEF HandInv, HoldInv, dataVars, threadVars
    <3> QED
      BY <1>2, <3>3, <3>4, <3>5
  <2> QED
    BY <2>1, <2>2
<1>3. CASE SetStopped \/ StopStep \/ UNCHANGED vars
  <2>1. /\ UNCHANGED <<cbVars, queue, startMtx, task, itemVars>>
        /\ stop' \in BOOLEAN /\ started' \in BOOLEAN /\ hook' \in BOOLEAN
        /\ down' \in DownSteps
        /\ worker' \in {worker, "lock"} /\ (worker' # worker => worker = "wait")
        /\ thread' = thread \/ (thread' = "none" /\ (worker = "end" \/ thread = "none") /\ worker' = worker)
    BY <1>3 DEF SetStopped, StopStep, RunHooks, SetStop, NotifyAll, Join, ClearStarted, Wake, vars,
                threadVars, workVars, HandInv, TypeOK, DownSteps
  <2>2. TypeOK'
    BY <2>1 DEF HandInv, TypeOK, cbVars, itemVars, WorkerSteps
  <2>3. CarryInv' /\ HoldInv'
    BY <2>1 DEF HandInv, CarryInv, HoldInv, Count, cbVars
  <2> QED
    BY <2>1, <2>2, <2>3 DEF dataVars, cbVars
<1> QED
  BY <1>1, <1>2, <1>3

\* What a step does to the tasks, the items and the buffers.
LEMMA Effects ==
  ASSUME HandInv, [Next]_vars
  PROVE  /\ HandInv'
         /\ \/ UNCHANGED dataVars
            \/ \E p \in PVs, ok \in BOOLEAN : ValueChanged(p, ok)
            \/ \E p \in PVs : Push(p)
            \/ Took \/ ProcessTask \/ GiveUpTask
<1>1. StartInv'
  BY StartStep DEF HandInv, TypeOK
<1>2. ASSUME NEW p \in PVs, NEW ok \in BOOLEAN, ValueChanged(p, ok) PROVE HandInv'
  BY <1>1, <1>2, CameHand DEF HandInv
<1>3. ASSUME NEW p \in PVs, Enqueue(p) PROVE HandInv' /\ (UNCHANGED dataVars \/ Push(p))
  <2>1. CASE Push(p)
    BY <1>1, <2>1, PushHand DEF HandInv
  <2>2. CASE NotifyOne(p)
    BY <1>1, <2>2, ControlHand DEF HandInv
  <2>3. CASE \/ EnsureStarted(p) \/ EnsureAgain(p) \/ ResetStop(p) \/ Spawn(p) \/ SetStarted(p)
             \/ RegisterHook(p)
    BY <1>1, <2>3, StartHand DEF HandInv, dataVars
  <2> QED
    BY <1>3, <2>1, <2>2, <2>3 DEF Enqueue
<1>4. CASE WorkerStep \/ SpuriousWakeup
  <2>1. CASE ProcessTask \/ GiveUpTask
    BY <1>1, <2>1, DoneHand DEF HandInv
  <2>2. CASE Took
    BY <1>1, <2>2, TookHand DEF HandInv
  <2>3. CASE UNCHANGED dataVars
    BY <1>1, <1>4, <2>3, ControlHand DEF HandInv
  <2>4. UNCHANGED dataVars \/ Took \/ ProcessTask \/ GiveUpTask
    BY <1>4 DEF WorkerStep, LoopHead, TakeTask, Block, Drain, SpuriousWakeup, Took, dataVars, cbVars
  <2> QED
    BY <2>1, <2>2, <2>3, <2>4
<1>5. CASE SetStopped \/ StopStep \/ UNCHANGED vars
  BY <1>1, <1>5, ControlHand DEF HandInv
<1>6. CASE Next
  BY <1>2, <1>3, <1>4, <1>5, <1>6 DEF Next
<1> QED
  BY <1>5, <1>6

\* At the start nobody holds a task, and no worker runs.
LEMMA InitHand == Init => HandInv
<1> SUFFICES ASSUME Init PROVE HandInv
  OBVIOUS
<1>1. NoTask \in Tasks /\ <<>> \in Seq(BOOLEAN) /\ Len(<<>>) = 0 /\ queue \in Seq(Tasks \ {NoTask})
  BY EmptySeq DEF Tasks, Init
<1>2. item \in [PVs -> [value : 0 .. MaxUpdates, error : BOOLEAN]]
  BY WorkerAssumption DEF Init
<1>3. TypeOK
  BY <1>1, <1>2 DEF Init, TypeOK, CbSteps, WorkerSteps, DownSteps
<1>4. StartInv /\ HoldInv
  BY DEF Init, StartInv, Starting, Stopping, HoldInv
<1>5. CarryInv
  <2>1. \A p \in PVs : Count(p) = 0 /\ cb[p] = "idle" /\ cbTask[p] = NoTask
    BY <1>1 DEF Init, Count
  <2>2. 0 <= MaxUpdates
    BY WorkerAssumption
  <2> QED
    BY <2>1, <2>2 DEF CarryInv, Carrying
<1> QED
  BY <1>3, <1>4, <1>5 DEF HandInv

\* Callbacks and worker hold what they should hold.
THEOREM HandsRight == Spec => []HandInv
BY InitHand, Effects, PTL DEF Spec

\* Double-checked locking starts one worker, for any number of callbacks: g_vcThread is
\* never overwritten while its thread runs, nor when the teardown stops it meanwhile.
THEOREM OneWorkerRuns == Spec => []OneWorker
<1>1. HandInv => OneWorker
  BY DEF HandInv, StartInv, OneWorker
<1> QED
  BY <1>1, HandsRight, PTL

-----------------------------------------------------------------------------
(* The order of the updates.                                               *)

\* A callback has the last update of its channel.
LEMMA CarriesLast ==
  ASSUME HandInv, NEW p \in PVs
  PROVE  /\ Count(p) \in 0 .. MaxUpdates
         /\ cbTask[p] # NoTask =>
              cbTask[p].pv = p /\ cbTask[p].n = Count(p) /\ Delivered(cbTask[p])
<1>1. Count(p) \in 0 .. MaxUpdates
  BY LenProperties, WorkerAssumption DEF HandInv, TypeOK, CarryInv, Count
<1> QED
  BY <1>1 DEF HandInv, CarryInv, Delivered

\* An update that has been delivered stays so while its channel goes on.
LEMMA StaysDelivered ==
  ASSUME NEW t, Delivered(t), HandInv, NEW p \in PVs, NEW ok \in BOOLEAN, ValueChanged(p, ok)
  PROVE  /\ t.pv \in PVs /\ t.n \in 1 .. Len(sent'[t.pv]) /\ t.data = sent'[t.pv][t.n]
         /\ t.n <= Len(sent[t.pv])
         /\ t.pv = p => t.n < Len(sent'[t.pv])
<1>1. /\ Len(sent'[p]) = Len(sent[p]) + 1
      /\ \A n \in 1 .. Len(sent[p]) : sent'[p][n] = sent[p][n]
      /\ \A q \in PVs \ {p} : sent'[q] = sent[q]
  BY CameHand DEF Count
<1>2. t.pv \in PVs /\ t.n \in 1 .. Len(sent[t.pv]) /\ t.data = sent[t.pv][t.n] /\ Len(sent[t.pv]) \in Nat
  BY CarriesLast DEF Delivered, Count
<1>3. CASE t.pv = p
  BY <1>1, <1>2, <1>3
<1>4. CASE t.pv # p
  BY <1>1, <1>2, <1>4
<1> QED
  BY <1>3, <1>4

\* A new update is the newest of its channel.
LEMMA CameOrder ==
  ASSUME HandInv, OrderInv, NEW p \in PVs, NEW ok \in BOOLEAN, ValueChanged(p, ok)
  PROVE  OrderInv'
<1>1. /\ cbTask[p] = NoTask /\ Count(p)' = Count(p) + 1
      /\ \A q \in PVs \ {p} : sent'[q] = sent[q] /\ cbTask'[q] = cbTask[q]
      /\ UNCHANGED <<queue, task>>
  BY CameHand DEF ValueChanged, workVars
<1>2. ASSUME NEW i \in 1 .. Len(queue)
      PROVE  /\ queue[i].pv \in PVs /\ queue[i].n \in 1 .. Len(sent'[queue[i].pv])
             /\ queue[i].data = sent'[queue[i].pv][queue[i].n]
             /\ cbTask'[queue[i].pv] # NoTask => queue[i].n < Len(sent'[queue[i].pv])
  <2>1. /\ queue[i].pv \in PVs /\ queue[i].n \in 1 .. Len(sent'[queue[i].pv])
        /\ queue[i].data = sent'[queue[i].pv][queue[i].n]
        /\ queue[i].pv = p => queue[i].n < Len(sent'[queue[i].pv])
    BY StaysDelivered DEF OrderInv
  <2>2. queue[i].pv # p /\ cbTask'[queue[i].pv] # NoTask => queue[i].n < Len(sent'[queue[i].pv])
    BY <1>1, <2>1 DEF OrderInv, Count
  <2> QED
    BY <2>1, <2>2
<1>3. ASSUME task # NoTask
      PROVE  /\ task.pv \in PVs /\ task.n \in 1 .. Len(sent'[task.pv])
             /\ task.data = sent'[task.pv][task.n]
             /\ cbTask'[task.pv] # NoTask => task.n < Len(sent'[task.pv])
  <2>1. /\ task.pv \in PVs /\ task.n \in 1 .. Len(sent'[task.pv])
        /\ task.data = sent'[task.pv][task.n]
        /\ task.pv = p => task.n < Len(sent'[task.pv])
    BY <1>3, StaysDelivered DEF OrderInv
  <2>2. task.pv # p /\ cbTask'[task.pv] # NoTask => task.n < Len(sent'[task.pv])
    BY <1>1, <1>3, <2>1 DEF OrderInv, Count
  <2> QED
    BY <2>1, <2>2
<1> QED
  BY <1>1, <1>2, <1>3 DEF OrderInv, Delivered, Count

\* At the tail of the queue an update is newer than all the others of its channel there.
LEMMA PushOrder ==
  ASSUME HandInv, OrderInv, NEW p \in PVs, Push(p)
  PROVE  OrderInv'
<1>1. /\ cbTask[p] # NoTask /\ cbTask'[p] = NoTask
      /\ \A q \in PVs \ {p} : cbTask'[q] = cbTask[q]
      /\ Len(queue') = Len(queue) + 1 /\ queue'[Len(queue) + 1] = cbTask[p]
      /\ \A i \in 1 .. Len(queue) : queue'[i] = queue[i]
      /\ UNCHANGED <<sent, task>>
  BY PushHand
<1>2. cbTask[p].pv = p /\ cbTask[p].n = Count(p) /\ Delivered(cbTask[p])
  BY <1>1, CarriesLast
<1>3. Len(queue) \in Nat
  BY LenProperties DEF HandInv, TypeOK
<1>4. \A i \in 1 .. Len(queue) : queue[i].pv = p => queue[i].n < cbTask[p].n
  BY <1>1, <1>2 DEF OrderInv
<1>5. task.pv = p => task.n < cbTask[p].n
  <2>1. task = NoTask => task.n = 0
    BY DEF NoTask
  <2>2. cbTask[p].n > 0
    BY <1>2, CarriesLast DEF Delivered
  <2> QED
    BY <1>1, <1>2, <2>1, <2>2 DEF OrderInv
<1>6. \A i \in 1 .. Len(queue') : i \in 1 .. Len(queue) \/ i = Len(queue) + 1
  BY <1>1, <1>3
<1>7. \A i \in 1 .. Len(queue') : Delivered(queue[i])'
  BY <1>1, <1>2, <1>6 DEF OrderInv, Delivered, Count
<1>8. ASSUME NEW i \in 1 .. Len(queue'), NEW j \in 1 .. Len(queue'), i < j, queue'[i].pv = queue'[j].pv
      PROVE  queue'[i].n < queue'[j].n
  <2>1. i \in 1 .. Len(queue)
    BY <1>1, <1>3, <1>8
  <2>2. CASE j \in 1 .. Len(queue)
    BY <1>1, <1>8, <2>1, <2>2 DEF OrderInv
  <2>3. CASE j = Len(queue) + 1
    BY <1>1, <1>2, <1>4, <1>8, <2>1, <2>3
  <2> QED
    BY <1>6, <2>2, <2>3
<1>9. \A i \in 1 .. Len(queue') : task.pv = queue'[i].pv => task.n < queue'[i].n
  BY <1>1, <1>2, <1>5, <1>6 DEF OrderInv
<1>10. ASSUME NEW i \in 1 .. Len(queue'), cbTask'[queue'[i].pv] # NoTask
       PROVE  queue'[i].n < Len(sent[queue'[i].pv])
  <2>1. i \in 1 .. Len(queue)
    BY <1>1, <1>2, <1>6, <1>10
  <2>2. queue[i].pv \in PVs /\ queue[i].pv # p
    BY <1>1, <1>10, <2>1 DEF OrderInv, Delivered
  <2> QED
    BY <1>1, <1>10, <2>1, <2>2 DEF OrderInv, Count
<1>11. task # NoTask /\ cbTask'[task.pv] # NoTask => task.n < Len(sent[task.pv])
  BY <1>1 DEF OrderInv, Delivered, Count
<1>12. task # NoTask => Delivered(task)'
  BY <1>1 DEF OrderInv, Delivered, Count
<1> QED
  BY <1>1, <1>7, <1>8, <1>9, <1>10, <1>11, <1>12 DEF OrderInv, Count

\* At the head of the queue an update is older than all the others of its channel there.
LEMMA TookOrder ==
  ASSUME HandInv, OrderInv, Took
  PROVE  OrderInv'
<1>1. /\ task' = queue[1] /\ Len(queue) > 0 /\ Len(queue') = Len(queue) - 1
      /\ \A i \in 1 .. Len(queue') : queue'[i] = queue[i + 1]
      /\ UNCHANGED <<sent, cbTask>>
  BY TookHand
<1>2. Len(queue) \in Nat
  BY LenProperties DEF HandInv, TypeOK
<1>3. 1 \in 1 .. Len(queue) /\ \A i \in 1 .. Len(queue') : i + 1 \in 1 .. Len(queue) /\ 1 < i + 1
  BY <1>1, <1>2
<1>4. /\ Delivered(task)'
      /\ \A i \in 1 .. Len(queue') : Delivered(queue[i])'
  BY <1>1, <1>3 DEF OrderInv, Delivered, Count
<1>5. ASSUME NEW i \in 1 .. Len(queue'), NEW j \in 1 .. Len(queue'), i < j, queue'[i].pv = queue'[j].pv
      PROVE  queue'[i].n < queue'[j].n
  <2>1. i + 1 \in 1 .. Len(queue) /\ j + 1 \in 1 .. Len(queue) /\ i + 1 < j + 1
    BY <1>3, <1>5
  <2> QED
    BY <1>1, <1>5, <2>1 DEF OrderInv
<1>6. \A i \in 1 .. Len(queue') : task'.pv = queue'[i].pv => task'.n < queue'[i].n
  BY <1>1, <1>3 DEF OrderInv
<1>7. \A i \in 1 .. Len(queue') : cbTask'[queue'[i].pv] # NoTask => queue'[i].n < Len(sent[queue'[i].pv])
  BY <1>1, <1>3 DEF OrderInv, Count
<1>8. cbTask'[task'.pv] # NoTask => task'.n < Len(sent[task'.pv])
  BY <1>1, <1>3 DEF OrderInv, Count
<1> QED
  BY <1>1, <1>4, <1>5, <1>6, <1>7, <1>8 DEF OrderInv, Count

\* A task that is done, or given up, is in no order any more.
LEMMA DoneOrder ==
  ASSUME HandInv, OrderInv, ProcessTask \/ GiveUpTask
  PROVE  OrderInv'
<1>1. task' = NoTask /\ UNCHANGED <<sent, cbTask, queue>>
  BY DoneHand
<1>2. \A i \in 1 .. Len(queue) : 0 < queue[i].n
  BY CarriesLast DEF OrderInv, Delivered
<1> QED
  BY <1>1, <1>2 DEF OrderInv, Delivered, Count, NoTask

\* Every step keeps the updates of a channel in order.
LEMMA OrderStep ==
  ASSUME HandInv, OrderInv, [Next]_vars
  PROVE  OrderInv'
<1>1. CASE UNCHANGED dataVars
  BY <1>1 DEF OrderInv, Delivered, Count, dataVars
<1> QED
  BY <1>1, Effects, CameOrder, PushOrder, TookOrder, DoneOrder

-----------------------------------------------------------------------------
(* Which updates are under way.                                            *)

\* With the callback of its channel, in the queue, or with the worker.
Place(p, n) ==
  \/ cbTask[p] # NoTask /\ n = Count(p)
  \/ task.pv = p /\ task.n = n
  \/ \E i \in 1 .. Len(queue) : queue[i].pv = p /\ queue[i].n = n

\* An update under way is with its callback, in the queue or with the worker.
LEMMA PlaceOf ==
  ASSUME NEW p \in PVs, NEW n \in 1 .. MaxUpdates
  PROVE  /\ HandInv => (UnderWay(p, n) <=> Place(p, n))
         /\ HandInv' => (UnderWay(p, n)' <=> Place(p, n)')
<1>1. NoTask.n # n
  BY DEF NoTask
<1>2. HandInv => (UnderWay(p, n) <=> Place(p, n))
  <2> SUFFICES ASSUME HandInv PROVE UnderWay(p, n) <=> Place(p, n)
    OBVIOUS
  <2>1. DOMAIN queue = 1 .. Len(queue)
    BY LenProperties DEF HandInv, TypeOK
  <2>2. cbTask[p] # NoTask => cbTask[p].pv = p /\ cbTask[p].n = Count(p)
    BY DEF HandInv, CarryInv
  <2> QED
    BY <1>1, <2>1, <2>2 DEF UnderWay, Place
<1>3. HandInv' => (UnderWay(p, n)' <=> Place(p, n)')
  <2> SUFFICES ASSUME HandInv' PROVE UnderWay(p, n)' <=> Place(p, n)'
    OBVIOUS
  <2>1. DOMAIN queue' = 1 .. Len(queue')
    BY LenProperties DEF HandInv, TypeOK
  <2>2. cbTask'[p] # NoTask => cbTask'[p].pv = p /\ cbTask'[p].n = Count(p)'
    BY DEF HandInv, CarryInv
  <2> QED
    BY <1>1, <2>1, <2>2 DEF UnderWay, Place
<1> QED
  BY <1>2, <1>3

\* A new update is under way, and all others that were.
LEMMA CameWay ==
  ASSUME HandInv, HandInv', OrderInv, NEW p \in PVs, NEW ok \in BOOLEAN, ValueChanged(p, ok),
         NEW q \in PVs, NEW n \in 1 .. MaxUpdates
  PROVE  UnderWay(q, n)' <=> UnderWay(q, n) \/ (q = p /\ n = Count(p) + 1)
<1>1. /\ cbTask[p] = NoTask /\ cbTask'[p] # NoTask /\ Count(p)' = Count(p) + 1
      /\ \A r \in PVs \ {p} : Count(r)' = Count(r) /\ cbTask'[r] = cbTask[r]
      /\ UNCHANGED <<queue, task>>
  <2>1. Count(p) + 1 # 0
    BY CarriesLast, WorkerAssumption
  <2>2. cbTask'[p] = [pv |-> p, n |-> Count(p) + 1, data |-> ok]
    BY CameHand
  <2>3. cbTask'[p] # NoTask
    BY <2>1, <2>2 DEF NoTask
  <2> QED
    BY <2>3, CameHand DEF ValueChanged, workVars
<1>2. CASE q = p
  BY <1>1, <1>2, PlaceOf DEF Place
<1>3. CASE q # p
  BY <1>1, <1>3, PlaceOf DEF Place
<1> QED
  BY <1>2, <1>3

\* From hand to hand an update stays under way.
LEMMA MoveWay ==
  ASSUME HandInv, HandInv', OrderInv, Took \/ \E p \in PVs : Push(p),
         NEW q \in PVs, NEW n \in 1 .. MaxUpdates
  PROVE  UnderWay(q, n)' <=> UnderWay(q, n)
<1>1. ASSUME NEW p \in PVs, Push(p) PROVE Place(q, n)' <=> Place(q, n)
  <2>1. /\ cbTask[p] # NoTask /\ cbTask'[p] = NoTask
        /\ \A r \in PVs \ {p} : cbTask'[r] = cbTask[r]
        /\ Len(queue') = Len(queue) + 1 /\ queue'[Len(queue) + 1] = cbTask[p]
        /\ \A i \in 1 .. Len(queue) : queue'[i] = queue[i]
        /\ UNCHANGED <<sent, task>>
    BY <1>1, PushHand
  <2>2. cbTask[p].pv = p /\ cbTask[p].n = Count(p)
    BY <2>1, CarriesLast
  <2>3. Len(queue) \in Nat
    BY LenProperties DEF HandInv, TypeOK
  <2>4. (\E i \in 1 .. Len(queue') : queue'[i].pv = q /\ queue'[i].n = n)
          <=> \/ \E i \in 1 .. Len(queue) : queue[i].pv = q /\ queue[i].n = n
              \/ q = p /\ n = Count(p)
    <3>1. \A i \in 1 .. Len(queue') : i \in 1 .. Len(queue) \/ i = Len(queue) + 1
      BY <2>1, <2>3
    <3>2. Len(queue) + 1 \in 1 .. Len(queue') /\ \A i \in 1 .. Len(queue) : i \in 1 .. Len(queue')
      BY <2>1, <2>3
    <3> QED
      BY <2>1, <2>2, <3>1, <3>2
  <2>5. Count(q)' = Count(q)
    BY <2>1 DEF Count
  <2>6. CASE q = p
    BY <2>1, <2>4, <2>5, <2>6 DEF Place
  <2>7. CASE q # p
    BY <2>1, <2>4, <2>5, <2>7 DEF Place
  <2> QED
    BY <2>6, <2>7
<1>2. CASE Took
  <2>1. /\ task = NoTask /\ task' = queue[1] /\ Len(queue) > 0 /\ Len(queue') = Len(queue) - 1
        /\ \A i \in 1 .. Len(queue') : queue'[i] = queue[i + 1]
        /\ UNCHANGED <<sent, cbTask>>
    BY <1>2, TookHand
  <2>2. Len(queue) \in Nat
    BY LenProperties DEF HandInv, TypeOK
  <2>3. task.n # n
    BY <2>1 DEF NoTask
  <2>4. (\E i \in 1 .. Len(queue) : queue[i].pv = q /\ queue[i].n = n)
          <=> \/ task'.pv = q /\ task'.n = n
              \/ \E i \in 1 .. Len(queue') : queue'[i].pv = q /\ queue'[i].n = n
    <3>1. ASSUME NEW i \in 1 .. Len(queue), i # 1 PROVE i - 1 \in 1 .. Len(queue') /\ queue'[i - 1] = queue[i]
      <4>1. i - 1 \in 1 .. Len(queue') /\ (i - 1) + 1 = i
        BY <2>1, <2>2, <3>1
      <4> QED
        BY <2>1, <4>1
    <3>2. 1 \in 1 .. Len(queue) /\ \A i \in 1 .. Len(queue') : i + 1 \in 1 .. Len(queue)
      BY <2>1, <2>2
    <3>3. ASSUME NEW i \in 1 .. Len(queue), queue[i].pv = q, queue[i].n = n
          PROVE  \/ task'.pv = q /\ task'.n = n
                 \/ \E k \in 1 .. Len(queue') : queue'[k].pv = q /\ queue'[k].n = n
      BY <2>1, <3>1, <3>3
    <3>4. task'.pv = q /\ task'.n = n => queue[1].pv = q /\ queue[1].n = n
      BY <2>1
    <3>5. ASSUME NEW i \in 1 .. Len(queue'), queue'[i].pv = q, queue'[i].n = n
          PROVE  queue[i + 1].pv = q /\ queue[i + 1].n = n
      BY <2>1, <3>5
    <3> QED
      BY <3>2, <3>3, <3>4, <3>5
  <2>5. cbTask'[q] # NoTask /\ n = Count(q)' <=> cbTask[q] # NoTask /\ n = Count(q)
    BY <2>1 DEF Count
  <2>6. Place(q, n)' <=> Place(q, n)
    BY <2>3, <2>4, <2>5 DEF Place
  <2> QED
    BY <2>6, PlaceOf
<1> QED
  BY <1>1, <1>2, PlaceOf

\* The worker is done with the oldest update that is under way for its channel.
LEMMA DoneWay ==
  ASSUME HandInv, HandInv', OrderInv, ProcessTask \/ GiveUpTask
  PROVE  /\ task.pv \in PVs /\ task.n \in 1 .. Count(task.pv) /\ task.n \in 1 .. MaxUpdates
         /\ task.data = sent[task.pv][task.n] /\ UnderWay(task.pv, task.n)
         /\ \A n \in 1 .. MaxUpdates : UnderWay(task.pv, n) => task.n <= n
         /\ \A q \in PVs, n \in 1 .. MaxUpdates :
              UnderWay(q, n)' <=> UnderWay(q, n) /\ ~(q = task.pv /\ n = task.n)
<1>1. task # NoTask /\ task' = NoTask /\ UNCHANGED <<sent, cbTask, queue>>
  BY DoneHand
<1>2. /\ task.pv \in PVs /\ task.n \in 1 .. Count(task.pv) /\ task.data = sent[task.pv][task.n]
  BY <1>1 DEF OrderInv, Delivered
<1>3. task.n \in 1 .. MaxUpdates
  BY <1>2, CarriesLast, WorkerAssumption
<1>4. Place(task.pv, task.n)
  BY DEF Place
<1>5. ASSUME NEW n \in 1 .. MaxUpdates, Place(task.pv, n) PROVE task.n <= n
  BY <1>1, <1>2, <1>3, <1>5 DEF Place, OrderInv
<1>6. ASSUME NEW q \in PVs, NEW n \in 1 .. MaxUpdates
      PROVE  Place(q, n)' <=> Place(q, n) /\ ~(q = task.pv /\ n = task.n)
  <2>1. NoTask.n # n /\ Count(q)' = Count(q)
    BY <1>1 DEF NoTask, Count
  <2>2. q = task.pv /\ n = task.n => ~(cbTask[q] # NoTask /\ n = Count(q))
    BY <1>1, <1>2, CarriesLast DEF OrderInv
  <2>3. q = task.pv /\ n = task.n => ~\E i \in 1 .. Len(queue) : queue[i].pv = q /\ queue[i].n = n
    BY DEF OrderInv
  <2> QED
    BY <1>1, <2>1, <2>2, <2>3 DEF Place
<1> QED
  BY <1>2, <1>3, <1>4, <1>5, <1>6, PlaceOf

-----------------------------------------------------------------------------
(* What becomes of the updates.                                            *)

WayInv == FlowInv /\ ArriveInv /\ HeapInv /\ LastInv

\* A step after which the same updates are under way, and the items show the same.
LEMMA StillWay ==
  ASSUME HandInv, WayInv, UNCHANGED <<sent, itemVars>>,
         \A q \in PVs, n \in 1 .. MaxUpdates : UnderWay(q, n)' <=> UnderWay(q, n)
  PROVE  WayInv'
<1>1. \A q \in PVs : /\ Count(q)' = Count(q) /\ Count(q) \in 0 .. MaxUpdates /\ Shown(q)' = Shown(q)
                     /\ \A n \in 1 .. Count(q) : n \in 1 .. MaxUpdates
  BY CarriesLast, WorkerAssumption DEF Count, Shown, itemVars
<1>2. FlowInv'
  BY <1>1 DEF WayInv, FlowInv
<1>3. ArriveInv'
  <2> SUFFICES ASSUME NEW q \in PVs
               PROVE  /\ \A n \in 1 .. Count(q) :
                           sent[q][n] => Shown(q) >= n \/ UnderWay(q, n)' \/ <<q, n>> \in dropped
                      /\ Count(q) > 0 => item[q].error = ~sent[q][Count(q)] \/ UnderWay(q, Count(q))'
                                           \/ <<q, Count(q)>> \in dropped
    BY <1>1 DEF ArriveInv, itemVars
  <2> QED
    BY <1>1 DEF WayInv, ArriveInv
<1>4. HeapInv'
  BY <1>1 DEF WayInv, HeapInv, itemVars
<1>5. LastInv'
  BY <1>1 DEF WayInv, LastInv, IsLastGiven
<1> QED
  BY <1>2, <1>3, <1>4, <1>5 DEF WayInv

\* A new update is under way, its buffer is allocated.
LEMMA CameArrives ==
  ASSUME HandInv, HandInv', OrderInv, WayInv, NEW p \in PVs, NEW ok \in BOOLEAN, ValueChanged(p, ok)
  PROVE  WayInv'
<1>0. PICK c \in 0 .. MaxUpdates : c = Count(p)
  BY CarriesLast
<1>1. /\ Count(p)' = c + 1 /\ sent'[p][c + 1] = ok
      /\ \A n \in 1 .. c : sent'[p][n] = sent[p][n]
      /\ \A q \in PVs \ {p} : sent'[q] = sent[q] /\ Count(q)' = Count(q)
  BY <1>0, CameHand
<1>2. /\ heap' = IF ok THEN heap \cup {<<p, c + 1>>} ELSE heap
      /\ dropped' = dropped
      /\ \A q \in PVs : Shown(q)' = Shown(q) /\ (q # p => item'[q].error = item[q].error)
  <2>1. /\ heap' = IF ok THEN heap \cup {<<p, Len(sent'[p])>>} ELSE heap
        /\ item' = IF ok THEN item ELSE [item EXCEPT ![p].error = TRUE]
        /\ dropped' = dropped
    BY DEF ValueChanged
  <2>2. item \in [PVs -> [value : 0 .. MaxUpdates, error : BOOLEAN]]
    BY DEF HandInv, TypeOK
  <2> QED
    BY <1>1, <2>1, <2>2 DEF Shown, Count
<1>3. /\ \A q \in PVs : Count(q) \in 0 .. MaxUpdates /\ Shown(q) \in 0 .. MaxUpdates
      /\ c + 1 \in 1 .. MaxUpdates /\ \A q \in PVs : \A n \in 1 .. Count(q) : n \in 1 .. MaxUpdates
  <2>1. \A q \in PVs : Count(q) \in 0 .. MaxUpdates
    BY CarriesLast
  <2>2. \A q \in PVs : Shown(q) \in 0 .. MaxUpdates
    BY DEF HandInv, TypeOK, Shown
  <2>3. c + 1 \in 1 .. MaxUpdates
    BY <1>0, CameHand
  <2>4. \A q \in PVs : \A n \in 1 .. Count(q) : n \in 1 .. MaxUpdates
    BY <2>1, WorkerAssumption
  <2> QED
    BY <2>1, <2>2, <2>3, <2>4
<1>4. \A q \in PVs, n \in 1 .. MaxUpdates : UnderWay(q, n)' <=> UnderWay(q, n) \/ (q = p /\ n = c + 1)
  BY <1>0, CameWay
<1>5. /\ \A n \in 1 .. MaxUpdates : UnderWay(p, n) => n <= c /\ Shown(p) < n
      /\ \A n, m \in 1 .. MaxUpdates : UnderWay(p, n) /\ n < m /\ m <= c => UnderWay(p, m)
      /\ Shown(p) > 0 => Shown(p) <= c /\ sent[p][Shown(p)]
      /\ c \in 0 .. MaxUpdates /\ Count(p) = c
  BY <1>0 DEF WayInv, FlowInv
<1>6. FlowInv'
  <2>1. ASSUME NEW n \in 1 .. MaxUpdates, UnderWay(p, n)' PROVE n <= c + 1 /\ Shown(p) < n
    BY <1>3, <1>4, <1>5, <2>1
  <2>2. ASSUME NEW n \in 1 .. MaxUpdates, NEW m \in 1 .. MaxUpdates, UnderWay(p, n)', n < m, m <= c + 1
        PROVE  UnderWay(p, m)'
    <3>1. CASE m = c + 1
      BY <1>4, <3>1
    <3>2. CASE m <= c
      BY <1>4, <1>5, <2>2, <3>2
    <3> QED
      BY <1>5, <2>2, <3>1, <3>2
  <2>3. Shown(p) > 0 => Shown(p) <= c + 1 /\ sent'[p][Shown(p)]
    BY <1>1, <1>3, <1>5
  <2>4. ASSUME NEW q \in PVs, q # p
        PROVE  /\ \A n \in 1 .. MaxUpdates : UnderWay(q, n)' => n <= Count(q) /\ Shown(q) < n
               /\ \A n, m \in 1 .. MaxUpdates : UnderWay(q, n)' /\ n < m /\ m <= Count(q) => UnderWay(q, m)'
               /\ Shown(q) > 0 => Shown(q) <= Count(q) /\ sent'[q][Shown(q)]
    BY <1>1, <1>4, <2>4 DEF WayInv, FlowInv
  <2> QED
    BY <1>1, <1>2, <2>1, <2>2, <2>3, <2>4 DEF FlowInv
<1>7. ArriveInv'
  <2>1. UnderWay(p, c + 1)'
    BY <1>3, <1>4
  <2>2. ASSUME NEW n \in 1 .. c + 1, sent'[p][n] PROVE Shown(p) >= n \/ UnderWay(p, n)' \/ <<p, n>> \in dropped
    <3>1. CASE n = c + 1
      BY <2>1, <3>1
    <3>2. CASE n \in 1 .. c
      <4>1. n \in 1 .. Count(p) /\ n \in 1 .. MaxUpdates /\ sent[p][n]
        BY <1>1, <1>3, <1>5, <2>2, <3>2
      <4> QED
        BY <1>4, <4>1 DEF WayInv, ArriveInv
    <3> QED
      BY <1>5, <2>2, <3>1, <3>2
  <2>3. ASSUME NEW q \in PVs, q # p
        PROVE  /\ \A n \in 1 .. Count(q) :
                    sent'[q][n] => Shown(q) >= n \/ UnderWay(q, n)' \/ <<q, n>> \in dropped
               /\ Count(q) > 0 => item'[q].error = ~sent'[q][Count(q)] \/ UnderWay(q, Count(q))'
                                    \/ <<q, Count(q)>> \in dropped
    <3>1. PICK d \in 0 .. MaxUpdates : d = Count(q)
      BY <1>3
    <3>2. sent'[q] = sent[q] /\ item'[q].error = item[q].error /\ Count(q)' = d
      BY <1>1, <1>2, <2>3, <3>1
    <3>3. \A n \in 1 .. d : n \in 1 .. MaxUpdates /\ (UnderWay(q, n)' <=> UnderWay(q, n))
      BY <1>3, <1>4, <2>3, <3>1
    <3>4. d > 0 => d \in 1 .. d
      OBVIOUS
    <3> QED
      BY <2>3, <3>1, <3>2, <3>3, <3>4 DEF WayInv, ArriveInv
  <2> QED
    BY <1>1, <1>2, <2>1, <2>2, <2>3 DEF ArriveInv
<1>8. HeapInv'
  <2>1. ASSUME NEW n \in 1 .. MaxUpdates
        PROVE  <<p, n>> \in heap' <=> n <= c + 1 /\ sent'[p][n] /\ (UnderWay(p, n)' \/ Shown(p) = n)
    <3>1. CASE n = c + 1
      <4>1. <<p, n>> \notin heap
        BY <1>5, <3>1 DEF WayInv, HeapInv
      <4> QED
        BY <1>1, <1>2, <1>4, <3>1, <4>1
    <3>2. CASE n # c + 1
      <4>1. (n <= c + 1 /\ sent'[p][n]) <=> (n <= c /\ sent[p][n])
        BY <1>1, <1>5, <3>2
      <4>2. <<p, n>> \in heap' <=> <<p, n>> \in heap
        BY <1>2, <3>2
      <4> QED
        BY <1>4, <1>5, <3>2, <4>1, <4>2 DEF WayInv, HeapInv
    <3> QED
      BY <3>1, <3>2
  <2>2. ASSUME NEW q \in PVs, q # p, NEW n \in 1 .. MaxUpdates
        PROVE  <<q, n>> \in heap' <=> n <= Count(q) /\ sent'[q][n] /\ (UnderWay(q, n)' \/ Shown(q) = n)
    <3>1. sent'[q] = sent[q] /\ (<<q, n>> \in heap' <=> <<q, n>> \in heap)
      BY <1>1, <1>2, <2>2
    <3> QED
      BY <1>4, <2>2, <3>1 DEF WayInv, HeapInv
  <2> QED
    <3> SUFFICES ASSUME NEW q \in PVs, NEW n \in 1 .. MaxUpdates
                 PROVE  <<q, n>> \in heap'
                          <=> n <= Count(q)' /\ sent'[q][n] /\ (UnderWay(q, n)' \/ Shown(q)' = n)
      BY DEF HeapInv
    <3>1. CASE q = p
      BY <1>1, <1>2, <2>1, <3>1
    <3>2. CASE q # p
      BY <1>1, <1>2, <2>2, <3>2
    <3> QED
      BY <3>1, <3>2
<1>9. LastInv'
  <2>1. PICK l \in 0 .. Count(p) : IsLastGiven(p, l)
    BY DEF WayInv, LastInv
  <2>2. \E l2 \in 0 .. c + 1 : IsLastGiven(p, l2)'
    <3>1. CASE ok
      <4>1. IsLastGiven(p, c + 1)'
        BY <1>1, <1>5, <3>1 DEF IsLastGiven
      <4> QED
        BY <1>5, <4>1
    <3>2. CASE ~ok
      <4>1. /\ l \in 0 .. c /\ (l = 0 \/ sent[p][l]) /\ \A k \in l + 1 .. c : ~sent[p][k]
        BY <1>5, <2>1 DEF IsLastGiven
      <4>2. l = 0 \/ sent'[p][l]
        BY <1>1, <1>5, <4>1
      <4>3. \A k \in l + 1 .. c + 1 : ~sent'[p][k]
        BY <1>1, <1>5, <3>2, <4>1
      <4>4. IsLastGiven(p, l)'
        BY <1>1, <1>5, <4>1, <4>2, <4>3 DEF IsLastGiven
      <4> QED
        BY <1>5, <4>1, <4>4
    <3> QED
      BY <3>1, <3>2
  <2>3. ASSUME NEW q \in PVs, q # p PROVE \E l2 \in 0 .. Count(q)' : IsLastGiven(q, l2)'
    BY <1>1, <2>3 DEF WayInv, LastInv, IsLastGiven
  <2> QED
    BY <1>1, <2>2, <2>3 DEF LastInv
<1> QED
  BY <1>6, <1>7, <1>8, <1>9 DEF WayInv

\* A step that takes the oldest update of p, k, off the way: what is left is newer.
LEMMA DoneFlow ==
  ASSUME HandInv, OrderInv, WayInv, NEW p \in PVs, NEW k \in 1 .. MaxUpdates,
         UnderWay(p, k), \A n \in 1 .. MaxUpdates : UnderWay(p, n) => k <= n,
         \A q \in PVs, n \in 1 .. MaxUpdates :
           UnderWay(q, n)' <=> UnderWay(q, n) /\ ~(q = p /\ n = k),
         UNCHANGED sent, \A q \in PVs \ {p} : item'[q] = item[q],
         Shown(p)' = Shown(p) \/ (Shown(p)' = k /\ sent[p][k])
  PROVE  FlowInv' /\ LastInv' /\ Shown(p) < k
<1>1. \A q \in PVs : /\ Count(q)' = Count(q) /\ Count(q) \in 0 .. MaxUpdates /\ Shown(q) \in 0 .. MaxUpdates
                     /\ q # p => Shown(q)' = Shown(q)
  BY CarriesLast DEF Count, Shown, HandInv, TypeOK
<1>2. /\ k <= Count(p) /\ Shown(p) < k
      /\ \A n \in 1 .. MaxUpdates : UnderWay(p, n) => n <= Count(p) /\ Shown(p) < n
      /\ \A n, m \in 1 .. MaxUpdates : UnderWay(p, n) /\ n < m /\ m <= Count(p) => UnderWay(p, m)
      /\ Shown(p) > 0 => Shown(p) <= Count(p) /\ sent[p][Shown(p)]
  BY DEF WayInv, FlowInv
<1>3. ASSUME NEW n \in 1 .. MaxUpdates, UnderWay(p, n)' PROVE n <= Count(p) /\ Shown(p)' < n
  <2>1. UnderWay(p, n) /\ n # k /\ k <= n
    BY <1>3
  <2> QED
    BY <1>1, <1>2, <2>1
<1>4. ASSUME NEW n \in 1 .. MaxUpdates, NEW m \in 1 .. MaxUpdates, UnderWay(p, n)', n < m, m <= Count(p)
      PROVE  UnderWay(p, m)'
  <2>1. UnderWay(p, n) /\ k <= n
    BY <1>4
  <2>2. UnderWay(p, m) /\ m # k
    BY <1>2, <1>4, <2>1
  <2> QED
    BY <2>2
<1>5. Shown(p)' > 0 => Shown(p)' <= Count(p) /\ sent[p][Shown(p)']
  BY <1>1, <1>2
<1>6. ASSUME NEW q \in PVs, q # p
      PROVE  /\ \A n \in 1 .. MaxUpdates : UnderWay(q, n)' => n <= Count(q) /\ Shown(q) < n
             /\ \A n, m \in 1 .. MaxUpdates : UnderWay(q, n)' /\ n < m /\ m <= Count(q) => UnderWay(q, m)'
             /\ Shown(q) > 0 => Shown(q) <= Count(q) /\ sent[q][Shown(q)]
  BY <1>6 DEF WayInv, FlowInv
<1>7. FlowInv'
  BY <1>1, <1>3, <1>4, <1>5, <1>6 DEF FlowInv
<1>8. LastInv'
  BY <1>1 DEF WayInv, LastInv, IsLastGiven
<1> QED
  BY <1>2, <1>7, <1>8

\* What the worker stores is shown; the buffer that was shown is freed.
LEMMA ProcessArrives ==
  ASSUME HandInv, HandInv', OrderInv, WayInv, ProcessTask
  PROVE  WayInv'
<1>1. PICK p \in PVs, k \in 1 .. MaxUpdates : p = task.pv /\ k = task.n
  BY DoneWay
<1>2. /\ UnderWay(p, k) /\ \A n \in 1 .. MaxUpdates : UnderWay(p, n) => k <= n
      /\ \A q \in PVs, n \in 1 .. MaxUpdates :
           UnderWay(q, n)' <=> UnderWay(q, n) /\ ~(q = p /\ n = k)
      /\ k <= Count(p) /\ task.data = sent[p][k] /\ UNCHANGED sent
  BY <1>1, DoneWay, DoneHand, CarriesLast
<1>3. /\ item' = [item EXCEPT ![p] = [value |-> IF sent[p][k] THEN k ELSE @.value, error |-> ~sent[p][k]]]
      /\ heap' = IF sent[p][k] THEN heap \ {<<p, Shown(p)>>} ELSE heap
      /\ dropped' = dropped
  BY <1>1, <1>2 DEF ProcessTask, Shown
<1>4. /\ \A q \in PVs \ {p} : item'[q] = item[q]
      /\ Shown(p)' = IF sent[p][k] THEN k ELSE Shown(p)
      /\ item'[p].error = ~sent[p][k]
  BY <1>3 DEF Shown, HandInv, TypeOK
<1>5. FlowInv' /\ LastInv' /\ Shown(p) < k
  BY <1>2, <1>4, DoneFlow
<1>6. \A q \in PVs : /\ Count(q)' = Count(q) /\ Count(q) \in 0 .. MaxUpdates /\ Shown(q) \in 0 .. MaxUpdates
                     /\ q # p => Shown(q)' = Shown(q)
                     /\ \A n \in 1 .. Count(q) : n \in 1 .. MaxUpdates
  BY <1>2, <1>4, CarriesLast, WorkerAssumption DEF Count, Shown, HandInv, TypeOK
<1>7. ArriveInv'
  <2>1. ASSUME NEW n \in 1 .. Count(p), sent[p][n]
        PROVE  Shown(p)' >= n \/ UnderWay(p, n)' \/ <<p, n>> \in dropped
    <3>1. n \in 1 .. MaxUpdates /\ (Shown(p) >= n \/ UnderWay(p, n) \/ <<p, n>> \in dropped)
      BY <1>6, <2>1 DEF WayInv, ArriveInv
    <3> QED
      BY <1>2, <1>4, <1>5, <1>6, <2>1, <3>1
  <2>2. PICK c \in 0 .. MaxUpdates : c = Count(p)
    BY <1>6
  <2>3. item'[p].error = ~sent[p][c] \/ UnderWay(p, c)'
    <3>1. CASE c = k
      BY <1>4, <3>1
    <3>2. CASE c # k
      <4>1. c \in 1 .. MaxUpdates /\ k < c
        BY <1>2, <2>2, <3>2
      <4>2. UnderWay(p, c)
        BY <1>2, <2>2, <4>1 DEF WayInv, FlowInv
      <4> QED
        BY <1>2, <3>2, <4>1, <4>2
    <3> QED
      BY <3>1, <3>2
  <2>4. ASSUME NEW q \in PVs, q # p
        PROVE  /\ \A n \in 1 .. Count(q) :
                    sent[q][n] => Shown(q) >= n \/ UnderWay(q, n)' \/ <<q, n>> \in dropped
               /\ Count(q) > 0 => item[q].error = ~sent[q][Count(q)] \/ UnderWay(q, Count(q))'
                                    \/ <<q, Count(q)>> \in dropped
    BY <1>2, <1>6, <2>4 DEF WayInv, ArriveInv
  <2> SUFFICES ASSUME NEW q \in PVs
               PROVE  /\ \A n \in 1 .. Count(q)' :
                           sent'[q][n] => Shown(q)' >= n \/ UnderWay(q, n)' \/ <<q, n>> \in dropped'
                      /\ Count(q)' > 0 => item'[q].error = ~sent'[q][Count(q)'] \/ UnderWay(q, Count(q))'
                                            \/ <<q, Count(q)'>> \in dropped'
    BY DEF ArriveInv
  <2>5. CASE q = p
    BY <1>2, <1>3, <1>6, <2>1, <2>2, <2>3, <2>5
  <2>6. CASE q # p
    BY <1>2, <1>3, <1>4, <1>6, <2>4, <2>6
  <2> QED
    BY <2>5, <2>6
<1>8. HeapInv'
  <2> SUFFICES ASSUME NEW q \in PVs, NEW n \in 1 .. MaxUpdates
               PROVE  <<q, n>> \in heap'
                        <=> n <= Count(q) /\ sent[q][n] /\ (UnderWay(q, n)' \/ Shown(q)' = n)
    BY <1>2, <1>6 DEF HeapInv
  <2>1. <<q, n>> \in heap <=> n <= Count(q) /\ sent[q][n] /\ (UnderWay(q, n) \/ Shown(q) = n)
    BY DEF WayInv, HeapInv
  <2>2. UnderWay(q, n) => Shown(q) < n
    BY DEF WayInv, FlowInv
  <2>3. CASE q = p /\ sent[p][k]
    <3>1. <<q, n>> \in heap' <=> <<q, n>> \in heap /\ n # Shown(p)
      BY <1>3, <2>3
    <3> QED
      BY <1>2, <1>4, <1>5, <1>6, <2>1, <2>2, <2>3, <3>1
  <2>4. CASE q = p /\ ~sent[p][k]
    BY <1>2, <1>3, <1>4, <2>1, <2>4
  <2>5. CASE q # p
    BY <1>2, <1>3, <1>6, <2>1, <2>5
  <2> QED
    BY <2>3, <2>4, <2>5
<1> QED
  BY <1>5, <1>7, <1>8 DEF WayInv

\* What the worker gives up is freed and counts as dropped.
LEMMA GiveUpArrives ==
  ASSUME HandInv, HandInv', OrderInv, WayInv, GiveUpTask
  PROVE  WayInv'
<1>1. PICK p \in PVs, k \in 1 .. MaxUpdates : p = task.pv /\ k = task.n
  BY DoneWay
<1>2. /\ UnderWay(p, k) /\ \A n \in 1 .. MaxUpdates : UnderWay(p, n) => k <= n
      /\ \A q \in PVs, n \in 1 .. MaxUpdates :
           UnderWay(q, n)' <=> UnderWay(q, n) /\ ~(q = p /\ n = k)
      /\ k <= Count(p) /\ UNCHANGED sent
  BY <1>1, DoneWay, DoneHand, CarriesLast
<1>3. /\ dropped' = dropped \cup {<<p, k>>} /\ heap' = heap \ {<<p, k>>} /\ item' = item
  BY <1>1 DEF GiveUpTask, buf
<1>4. \A q \in PVs : /\ Count(q)' = Count(q) /\ Count(q) \in 0 .. MaxUpdates /\ Shown(q)' = Shown(q)
                     /\ \A n \in 1 .. Count(q) : n \in 1 .. MaxUpdates
  BY <1>2, <1>3, CarriesLast, WorkerAssumption DEF Count, Shown
<1>5. FlowInv' /\ LastInv' /\ Shown(p) < k
  BY <1>2, <1>3, <1>4, DoneFlow
<1>6. ArriveInv'
  <2> SUFFICES ASSUME NEW q \in PVs
               PROVE  /\ \A n \in 1 .. Count(q) :
                           sent[q][n] => Shown(q) >= n \/ UnderWay(q, n)' \/ <<q, n>> \in dropped'
                      /\ Count(q) > 0 => item[q].error = ~sent[q][Count(q)] \/ UnderWay(q, Count(q))'
                                           \/ <<q, Count(q)>> \in dropped'
    BY <1>2, <1>3, <1>4 DEF ArriveInv
  <2>1. PICK c \in 0 .. MaxUpdates : c = Count(q) /\ c = Count(q)'
    BY <1>4
  <2>2. \A n \in 1 .. c : n \in 1 .. MaxUpdates /\ (UnderWay(q, n) => UnderWay(q, n)' \/ <<q, n>> \in dropped')
    BY <1>2, <1>3, <1>4, <2>1
  <2>3. dropped \subseteq dropped' /\ (c > 0 => c \in 1 .. c)
    BY <1>3
  <2> QED
    BY <2>1, <2>2, <2>3 DEF WayInv, ArriveInv
<1>7. HeapInv'
  <2> SUFFICES ASSUME NEW q \in PVs, NEW n \in 1 .. MaxUpdates
               PROVE  <<q, n>> \in heap'
                        <=> n <= Count(q) /\ sent[q][n] /\ (UnderWay(q, n)' \/ Shown(q) = n)
    BY <1>2, <1>4 DEF HeapInv
  <2>1. <<q, n>> \in heap <=> n <= Count(q) /\ sent[q][n] /\ (UnderWay(q, n) \/ Shown(q) = n)
    BY DEF WayInv, HeapInv
  <2>2. CASE q = p /\ n = k
    <3>1. <<q, n>> \notin heap' /\ ~UnderWay(q, n)' /\ Shown(q) # n
      BY <1>2, <1>3, <1>4, <1>5, <2>2
    <3> QED
      BY <3>1
  <2>3. CASE ~(q = p /\ n = k)
    <3>1. (<<q, n>> \in heap' <=> <<q, n>> \in heap) /\ (UnderWay(q, n)' <=> UnderWay(q, n))
      BY <1>2, <1>3, <2>3
    <3> QED
      BY <2>1, <3>1
  <2> QED
    BY <2>2, <2>3
<1> QED
  BY <1>5, <1>6, <1>7 DEF WayInv

PathInv == HandInv /\ OrderInv /\ WayInv

\* Every step keeps the path in order.
LEMMA PathStep ==
  ASSUME PathInv, [Next]_vars
  PROVE  PathInv'
<1>1. HandInv' /\ OrderInv' /\ HandInv /\ OrderInv /\ WayInv
  BY Effects, OrderStep DEF PathInv
<1>2. CASE UNCHANGED dataVars
  <2>1. \A q \in PVs, n \in 1 .. MaxUpdates : UnderWay(q, n)' <=> UnderWay(q, n)
    BY <1>2 DEF UnderWay, dataVars
  <2> QED
    BY <1>1, <1>2, <2>1, StillWay DEF PathInv, dataVars
<1>3. CASE Took \/ \E p \in PVs : Push(p)
  <2>1. UNCHANGED <<sent, itemVars>>
    BY <1>1, <1>3, TookHand, PushHand
  <2> QED
    BY <1>1, <1>3, <2>1, MoveWay, StillWay DEF PathInv
<1> QED
  BY <1>1, <1>2, <1>3, Effects, CameArrives, ProcessArrives, GiveUpArrives DEF PathInv

\* At the start nothing is under way and nothing is shown.
LEMMA InitPath == Init => PathInv
<1> SUFFICES ASSUME Init PROVE PathInv
  OBVIOUS
<1>1. HandInv
  BY InitHand
<1>2. /\ Len(queue) = 0 /\ task = NoTask /\ \A p \in PVs : sent[p] = <<>> /\ Count(p) = 0 /\ Shown(p) = 0 /\ cbTask[p] = NoTask
      /\ heap = {}
  BY EmptySeq DEF Init, Count, Shown
<1>3. OrderInv
  BY <1>2 DEF OrderInv
<1>4. ASSUME NEW p \in PVs, NEW n \in 1 .. MaxUpdates PROVE ~UnderWay(p, n)
  <2>1. task.n # n
    BY <1>2 DEF NoTask
  <2>2. ~Place(p, n)
    BY <1>2, <2>1 DEF Place
  <2> QED
    BY <1>1, <2>2, PlaceOf
<1>5. FlowInv /\ ArriveInv
  BY <1>2, <1>4 DEF FlowInv, ArriveInv
<1>6. HeapInv
  BY <1>2 DEF HeapInv
<1>7. LastInv
  <2>1. ASSUME NEW p \in PVs PROVE 0 \in 0 .. Count(p) /\ IsLastGiven(p, 0)
    <3>1. Count(p) = 0
      BY <1>2
    <3> QED
      BY <3>1 DEF IsLastGiven
  <2> QED
    BY <2>1 DEF LastInv
<1> QED
  BY <1>1, <1>3, <1>5, <1>6, <1>7 DEF PathInv, WayInv

\* On the way from the callbacks to the items all is in order.
THEOREM PathRight == Spec => []PathInv
BY InitPath, PathStep, PTL DEF Spec

\* When nothing of a PV is under way its item shows the last value delivered, and its error
\* flag is that of the last update, for any number of channels and updates.
THEOREM NewestSettles == Spec => []SettledIsNewest
<1>1. PathInv => SettledIsNewest
  <2> SUFFICES ASSUME PathInv, NEW p \in PVs, Settled(p), sent[p] # <<>>
               PROVE  /\ item[p].error = ~sent[p][Len(sent[p])]
                      /\ \A n \in DOMAIN sent[p] : sent[p][n] => item[p].value >= n
    BY DEF SettledIsNewest
  <2>1. /\ Count(p) \in 1 .. MaxUpdates /\ DOMAIN sent[p] = 1 .. Count(p)
        /\ \A n \in 1 .. Count(p) : n \in 1 .. MaxUpdates
    BY LenProperties, EmptySeq, WorkerAssumption DEF PathInv, HandInv, TypeOK, CarryInv, Count
  <2>2. \A n \in 1 .. MaxUpdates : ~UnderWay(p, n) /\ <<p, n>> \notin dropped
    <3>1. cbTask[p] = NoTask
      BY DEF Settled, PathInv, HandInv, CarryInv, Carrying
    <3>2. \A b \in dropped : b[1] # p
      BY DEF Settled
    <3>3. \A i \in 1 .. Len(queue) : queue[i].pv # p
      BY LenProperties DEF Settled, PathInv, HandInv, TypeOK
    <3>4. \A n \in 1 .. MaxUpdates : ~Place(p, n)
      BY <3>1, <3>3 DEF Settled, Place
    <3> QED
      BY <3>2, <3>4, PlaceOf DEF PathInv
  <2> QED
    <3>1. /\ \A n \in 1 .. Count(p) :
               sent[p][n] => Shown(p) >= n \/ UnderWay(p, n) \/ <<p, n>> \in dropped
          /\ item[p].error = ~sent[p][Count(p)] \/ UnderWay(p, Count(p)) \/ <<p, Count(p)>> \in dropped
      BY <2>1 DEF PathInv, WayInv, ArriveInv
    <3>2. /\ \A n \in 1 .. Count(p) : sent[p][n] => Shown(p) >= n
          /\ item[p].error = ~sent[p][Count(p)]
      BY <2>1, <2>2, <3>1
    <3> QED
      BY <2>1, <3>2 DEF Count, Shown
<1> QED
  BY <1>1, PathRight, PTL

-----------------------------------------------------------------------------
(* The owners of the buffers.                                              *)

\* The tasks own the buffers of the values that are under way.
LEMMA OwnedOnTheWay ==
  ASSUME PathInv, NEW p \in PVs, NEW n \in 1 .. MaxUpdates
  PROVE  <<p, n>> \in TaskBuffers <=> UnderWay(p, n) /\ n <= Count(p) /\ sent[p][n]
<1> DEFINE Held == {cbTask[r] : r \in PVs} \cup {queue[i] : i \in DOMAIN queue} \cup {task}
<1>1. DOMAIN queue = 1 .. Len(queue) /\ UnderWay(p, n) <=> Place(p, n)
  BY PlaceOf, LenProperties DEF PathInv, HandInv, TypeOK
<1>2. ASSUME NEW t \in Held, t.data, buf(t) = <<p, n>>
      PROVE  UnderWay(p, n) /\ n <= Count(p) /\ sent[p][n]
  <2>1. t.pv = p /\ t.n = n
    BY <1>2 DEF buf
  <2>2. t # NoTask
    BY <1>2 DEF NoTask
  <2>3. Delivered(t) /\ Place(p, n)
    <3>1. CASE t \in {cbTask[r] : r \in PVs}
      BY <2>1, <2>2, <3>1, CarriesLast DEF PathInv, Place
    <3>2. CASE t \in {queue[i] : i \in DOMAIN queue}
      BY <1>1, <2>1, <3>2 DEF PathInv, OrderInv, Place
    <3>3. CASE t = task
      BY <2>1, <2>2, <3>3 DEF PathInv, OrderInv, Place
    <3> QED
      BY <3>1, <3>2, <3>3
  <2> QED
    BY <1>1, <1>2, <2>1, <2>3, CarriesLast DEF Delivered, PathInv
<1>3. ASSUME Place(p, n), sent[p][n], n <= Count(p)
      PROVE  \E t \in Held : t.data /\ buf(t) = <<p, n>>
  <2>1. ASSUME NEW t \in Held, Delivered(t), t.pv = p, t.n = n PROVE t.data /\ buf(t) = <<p, n>>
    BY <1>3, <2>1 DEF Delivered, buf
  <2>2. CASE cbTask[p] # NoTask /\ n = Count(p)
    BY <2>1, <2>2, CarriesLast DEF PathInv
  <2>3. CASE task.pv = p /\ task.n = n
    <3>1. task # NoTask
      BY <2>3 DEF NoTask
    <3> QED
      BY <2>1, <2>3, <3>1 DEF PathInv, OrderInv
  <2>4. CASE \E i \in 1 .. Len(queue) : queue[i].pv = p /\ queue[i].n = n
    BY <1>1, <2>1, <2>4 DEF PathInv, OrderInv
  <2> QED
    BY <1>3, <2>2, <2>3, <2>4 DEF Place
<1>4. TaskBuffers = {buf(t) : t \in {u \in Held : u.data}}
  BY DEF TaskBuffers
<1> QED
  BY <1>1, <1>2, <1>3, <1>4

\* The buffer of an item is that of the update it shows.
LEMMA OwnedByItem ==
  ASSUME PathInv, NEW p \in PVs, NEW n \in 1 .. MaxUpdates
  PROVE  <<p, n>> \in ItemBuffers <=> Shown(p) = n
BY WorkerAssumption DEF ItemBuffers, Shown, PathInv, HandInv, TypeOK

\* Each allocated value buffer has exactly one owner, none leaks and none is used after it
\* has been freed, for any number of channels and updates and at every interleaving.
THEOREM OneOwner == Spec => []BufferOwnedOnce
<1>1. PathInv => BufferOwnedOnce
  <2> SUFFICES ASSUME PathInv PROVE BufferOwnedOnce
    OBVIOUS
  <2>1. heap \subseteq Buffers
    BY DEF PathInv, HandInv, TypeOK
  <2>2. TaskBuffers \subseteq Buffers
    <3> SUFFICES ASSUME NEW t, t.data, t \in {cbTask[r] : r \in PVs} \cup {queue[i] : i \in DOMAIN queue} \cup {task}
                 PROVE  buf(t) \in Buffers
      BY DEF TaskBuffers
    <3>1. t \in Tasks /\ t # NoTask
      BY ElementOfSeq, LenProperties DEF PathInv, HandInv, TypeOK, NoTask
    <3> QED
      BY <3>1, RealTask
  <2>3. ItemBuffers \subseteq Buffers
    BY WorkerAssumption DEF ItemBuffers, Buffers, PathInv, HandInv, TypeOK
  <2>4. ASSUME NEW p \in PVs, NEW n \in 1 .. MaxUpdates
        PROVE  /\ <<p, n>> \in heap <=> <<p, n>> \in TaskBuffers \/ <<p, n>> \in ItemBuffers
               /\ ~(<<p, n>> \in TaskBuffers /\ <<p, n>> \in ItemBuffers)
    <3>1. <<p, n>> \in heap <=> n <= Count(p) /\ sent[p][n] /\ (UnderWay(p, n) \/ Shown(p) = n)
      BY DEF PathInv, WayInv, HeapInv
    <3>2. /\ UnderWay(p, n) => Shown(p) < n
          /\ Shown(p) = n => n <= Count(p) /\ sent[p][n]
      BY DEF PathInv, WayInv, FlowInv
    <3> QED
      BY <3>1, <3>2, OwnedOnTheWay, OwnedByItem
  <2>5. \A b \in Buffers : (b \in heap <=> b \in TaskBuffers \/ b \in ItemBuffers)
                            /\ ~(b \in TaskBuffers /\ b \in ItemBuffers)
    BY <2>4 DEF Buffers
  <2> QED
    BY <2>1, <2>2, <2>3, <2>5 DEF BufferOwnedOnce
<1> QED
  BY <1>1, PathRight, PTL

-----------------------------------------------------------------------------
(* The path implements LastValue.                                          *)

LastOf(s) ==
  CHOOSE n \in 0 .. Len(s) :
    /\ n = 0 \/ s[n]
    /\ \A k \in n + 1 .. Len(s) : ~s[k]

\* The number of the last value is well defined.
LEMMA LastOfIs ==
  ASSUME NEW s \in Seq(BOOLEAN), NEW n \in 0 .. Len(s),
         n = 0 \/ s[n], \A k \in n + 1 .. Len(s) : ~s[k]
  PROVE  LastOf(s) = n
<1> DEFINE P(m) == (m = 0 \/ s[m]) /\ \A k \in m + 1 .. Len(s) : ~s[k]
<1>1. Len(s) \in Nat
  BY LenProperties
<1>2. ASSUME NEW m \in 0 .. Len(s), P(m) PROVE m = n
  BY <1>1, <1>2
<1>3. LastOf(s) = CHOOSE m \in 0 .. Len(s) : P(m)
  BY DEF LastOf
<1> HIDE DEF P
<1>4. P(n)
  BY DEF P
<1> QED
  BY <1>2, <1>3, <1>4

\* LastGiven is the number of the last update with a value, now and after a step.
LEMMA LastGivenIs ==
  ASSUME NEW p \in PVs, NEW n \in Nat
  PROVE  /\ HandInv /\ IsLastGiven(p, n) => LastGiven(p) = n
         /\ HandInv' /\ IsLastGiven(p, n)' => LastGiven(p)' = n
<1>1. LastGiven(p) = LastOf(sent[p]) /\ LastGiven(p)' = LastOf(sent'[p])
  BY DEF LastGiven, LastOf
<1>2. HandInv /\ IsLastGiven(p, n) => LastOf(sent[p]) = n
  BY LastOfIs DEF HandInv, TypeOK, IsLastGiven, Count
<1>3. HandInv' /\ IsLastGiven(p, n)' => LastOf(sent'[p]) = n
  BY LastOfIs DEF HandInv, TypeOK, IsLastGiven, Count
<1> QED
  BY <1>1, <1>2, <1>3

\* A delivered value is not newer than the last one.
LEMMA LastIsNewest ==
  ASSUME HandInv, NEW p \in PVs, NEW l \in Nat, IsLastGiven(p, l),
         NEW n \in 1 .. Count(p), sent[p][n]
  PROVE  n <= l
BY CarriesLast DEF IsLastGiven

\* The initial states map to those of LastValue.
LEMMA ShownInit == Init => LV!Init
<1> SUFFICES ASSUME Init PROVE LV!Init
  OBVIOUS
<1>1. ASSUME NEW p \in PVs PROVE LastGiven(p) = 0
  <2>1. HandInv /\ Count(p) = 0
    BY InitHand, EmptySeq DEF Init, Count
  <2>2. IsLastGiven(p, 0)
    BY <2>1 DEF IsLastGiven
  <2> QED
    BY <2>1, <2>2, LastGivenIs
<1>2. \A p \in PVs : item[p].value = 0
  BY DEF Init
<1> QED
  BY <1>1, <1>2 DEF LV!Init

\* The mapping to LastValue, and its steps.
delivered == [p \in PVs |-> LastGiven(p)]
shown == [p \in PVs |-> item[p].value]
LVNext == \E p \in PVs : LV!Deliver(p) \/ LV!Show(p)

\* What has been delivered stays the same unless the channel delivers.
LEMMA SameDelivered ==
  ASSUME PathInv, HandInv', NEW p \in PVs, sent'[p] = sent[p]
  PROVE  LastGiven(p)' = LastGiven(p)
BY DEF LastGiven

\* An update that carries a value is a delivery; one with an error status is none.
LEMMA CameMapped ==
  ASSUME PathInv, HandInv', NEW p \in PVs, NEW ok \in BOOLEAN, ValueChanged(p, ok)
  PROVE  shown' = shown /\ (delivered' = delivered \/ LV!Deliver(p))
<1> USE DEF PathInv
<1>1. PICK c \in 0 .. MaxUpdates : c = Count(p)
  BY CarriesLast
<1>2. /\ Count(p)' = c + 1 /\ c + 1 \in 1 .. MaxUpdates /\ sent'[p][c + 1] = ok
      /\ \A n \in 1 .. c : sent'[p][n] = sent[p][n]
      /\ \A q \in PVs \ {p} : sent'[q] = sent[q]
  BY <1>1, CameHand
<1>3. shown' = shown
  BY DEF ValueChanged, HandInv, TypeOK, shown
<1>4. \A q \in PVs \ {p} : LastGiven(q)' = LastGiven(q)
  BY <1>2, SameDelivered
<1>5. PICK l \in 0 .. c : IsLastGiven(p, l) /\ LastGiven(p) = l
  BY <1>1, LastGivenIs DEF WayInv, LastInv
<1>6. CASE ok
  <2>1. IsLastGiven(p, c + 1)'
    BY <1>1, <1>2, <1>6 DEF IsLastGiven
  <2>2. LastGiven(p)' = c + 1
    BY <1>1, <2>1, LastGivenIs
  <2>3. delivered' = [delivered EXCEPT ![p] = c + 1]
    BY <1>4, <2>2 DEF delivered
  <2>4. c + 1 \in delivered[p] + 1 .. MaxUpdates
    BY <1>1, <1>2, <1>5, WorkerAssumption DEF delivered
  <2> QED
    BY <1>3, <2>3, <2>4 DEF LV!Deliver, delivered, shown
<1>7. CASE ~ok
  <2>1. /\ l \in 0 .. c + 1 /\ (l = 0 \/ sent'[p][l]) /\ \A k \in l + 1 .. c + 1 : ~sent'[p][k]
    BY <1>1, <1>2, <1>5, <1>7 DEF IsLastGiven
  <2>2. IsLastGiven(p, l)'
    BY <1>2, <2>1 DEF IsLastGiven
  <2>3. LastGiven(p)' = l
    BY <1>1, <2>2, LastGivenIs
  <2>4. delivered' = delivered
    BY <1>4, <1>5, <2>3 DEF delivered
  <2> QED
    BY <1>3, <2>4
<1> QED
  BY <1>6, <1>7

\* What the worker stores is newer than what is shown, and not newer than the last delivery.
LEMMA ProcessMapped ==
  ASSUME PathInv, HandInv', ProcessTask
  PROVE  delivered' = delivered /\ (shown' = shown \/ \E p \in PVs : LV!Show(p))
<1> USE DEF PathInv
<1>1. PICK p \in PVs, k \in 1 .. MaxUpdates : p = task.pv /\ k = task.n
  BY DoneWay
<1>2. UnderWay(p, k) /\ k \in 1 .. Count(p) /\ task.data = sent[p][k] /\ UNCHANGED sent
  BY <1>1, DoneWay, DoneHand
<1>3. delivered' = delivered
  BY <1>2, SameDelivered DEF delivered
<1>4. item' = [item EXCEPT ![p] = [value |-> IF sent[p][k] THEN k ELSE @.value, error |-> ~sent[p][k]]]
  BY <1>1, <1>2 DEF ProcessTask
<1>5. CASE sent[p][k]
  <2>1. shown' = [shown EXCEPT ![p] = k]
    BY <1>4, <1>5 DEF shown, HandInv, TypeOK
  <2>2. Shown(p) < k /\ Shown(p) \in Nat
    BY <1>2 DEF WayInv, FlowInv, HandInv, TypeOK, Shown
  <2>3. PICK l \in 0 .. Count(p) : IsLastGiven(p, l)
    BY DEF WayInv, LastInv
  <2>4. l \in Nat /\ k <= l /\ LastGiven(p) = l
    BY <1>2, <1>5, <2>3, LastIsNewest, LastGivenIs, CarriesLast
  <2>5. k \in shown[p] + 1 .. delivered[p]
    BY <2>2, <2>4 DEF shown, delivered, Shown
  <2>6. LV!Show(p)
    BY <1>3, <2>1, <2>5 DEF LV!Show, shown, delivered
  <2> QED
    BY <1>3, <2>6
<1>6. CASE ~sent[p][k]
  <2>1. shown' = shown
    BY <1>4, <1>6 DEF shown, HandInv, TypeOK
  <2> QED
    BY <1>3, <2>1
<1> QED
  BY <1>5, <1>6

\* Every step maps to a delivery, to the showing of a newer value, or to a stutter.
LEMMA StepMapped ==
  ASSUME PathInv, HandInv', [Next]_vars
  PROVE  [LVNext]_<<delivered, shown>>
<1>1. CASE UNCHANGED dataVars \/ Took \/ GiveUpTask \/ \E p \in PVs : Push(p)
  <2>1. UNCHANGED <<sent, item>>
    BY <1>1, TookHand, PushHand, DoneHand DEF PathInv, dataVars, itemVars, GiveUpTask
  <2>2. delivered' = delivered
    BY <2>1, SameDelivered DEF delivered
  <2>3. shown' = shown
    BY <2>1 DEF shown
  <2> QED
    BY <2>2, <2>3
<1>2. CASE \E p \in PVs, ok \in BOOLEAN : ValueChanged(p, ok)
  BY <1>2, CameMapped DEF LVNext
<1>3. CASE ProcessTask
  BY <1>3, ProcessMapped DEF LVNext
<1> QED
  BY <1>1, <1>2, <1>3, Effects DEF PathInv

\* The path of the updates implements LastValue: an item shows nothing that has not been
\* delivered and never goes back to an older update, whatever the worker gives up.
THEOREM NeverGoesBack == Spec => ShowsInOrder
<1>1. PathInv /\ PathInv' /\ [Next]_vars => [LVNext]_<<delivered, shown>>
  BY StepMapped DEF PathInv
<1>2. Spec => LV!Init /\ [][LVNext]_<<delivered, shown>>
  BY <1>1, ShownInit, PathRight, PTL DEF Spec
<1> QED
  BY <1>2, PTL DEF ShowsInOrder, LV!Spec, LVNext, delivered, shown

-----------------------------------------------------------------------------
(* From the PVItem to the user events.                                     *)

Pcs == {"idle", "register", "try", "snapshot", "next", "fill", "post"}

EventType ==
  /\ exists \in BOOLEAN /\ hasValue \in BOOLEAN /\ deferred \in BOOLEAN
  /\ val \in Nat /\ due \in Nat
  /\ registry \subseteq Refs
  /\ pc \in [Threads -> Pcs]
  /\ todo \in [Threads -> SUBSET Refs]
  /\ target \in [Threads -> Refs \cup {None}]
  /\ \A t \in Threads : pc[t] \in {"fill", "post"} => target[t] \in Refs
  /\ flag \in [Refs -> BOOLEAN]
  /\ state \in [Refs -> {"new", "registered", "destroyed", "freed"}]
  /\ content \in [Refs -> Nat] /\ last \in [Refs -> Nat]
  /\ excused \in [Refs -> BOOLEAN]

\* A target is filled after it was posted last, and never from the future.
Ordered == \A r \in Refs : last[r] <= content[r] /\ content[r] <= val

\* A PV without an entry in pvRegistry has not changed; the last change with a post is
\* not one to come.
ValueExists == (val # 0 => exists) /\ due <= val

\* A reference is registered once, and nobody posts to it before.
NewUnknown ==
  /\ \A r \in Refs : pc[r] = "register" => state[r] = "new"
  /\ \A r \in Refs : state[r] = "new" =>
       /\ r \notin registry
       /\ \A t \in Threads : r \notin todo[t] /\ (pc[t] \in {"fill", "post"} => target[t] # r)

\* An event to r will be filled from here on.
Coming(r) ==
  \/ deferred
  \/ \E t \in Threads : pc[t] \in {"try", "snapshot"} \/ r \in todo[t] \/ (pc[t] = "fill" /\ target[t] = r)

\* A target that waits to be posted shows the last change with a post, or will be filled
\* again.
PostsCurrent ==
  \A t \in Threads : pc[t] = "post" /\ target[t] \in registry =>
    content[target[t]] >= due \/ Coming(target[t])

EventInv == EventType /\ Ordered /\ ValueExists /\ NewUnknown
LossInv == PostsCurrent /\ NoLostEvent

-----------------------------------------------------------------------------
\* No event, no value and no subscriber at the start.
LEMMA EventStart == EventsInit => EventInv
<1> SUFFICES ASSUME EventsInit PROVE EventInv
  OBVIOUS
<1>1. \A t \in Threads : pc[t] = "idle" /\ todo[t] = {} /\ target[t] = None
  BY DEF EventsInit
<1>2. \A r \in Refs : content[r] = 0 /\ last[r] = 0 /\ pc[r] = "idle"
  BY DEF EventsInit, Threads
<1>3. EventType
  BY <1>1 DEF EventsInit, EventType, Pcs
<1> QED
  BY <1>1, <1>2, <1>3 DEF EventsInit, EventInv, Ordered, ValueExists, NewUnknown

\* The types, the order of the events, and what new references are.
THEOREM EventsTyped == EventsSpec => []EventInv
<1>1. EventsInit => EventInv
  BY EventStart
<1>2. EventInv /\ [EventsNext]_eventVars => EventInv'
  <2> SUFFICES ASSUME EventInv, [EventsNext]_eventVars PROVE EventInv'
    OBVIOUS
  <2> USE UserEventsAssumption
      DEF EventInv, EventType, Ordered, ValueExists, NewUnknown, Pcs, Threads, Goto, reg, pv, refs
  <2>1. CASE CreatePv \/ TakeRegistry \/ LeaveRegistry \/ UNCHANGED eventVars
    <3>1. /\ exists' \in BOOLEAN /\ (exists => exists')
          /\ UNCHANGED <<val, hasValue, due, registry, deferred, pc, todo, target, flag, refs>>
      BY <2>1 DEF CreatePv, TakeRegistry, LeaveRegistry, eventVars
    <3> QED
      BY <3>1
  <2>2. CASE DrainDeferred
    BY <2>2 DEF DrainDeferred
  <2>3. ASSUME NEW t \in Changers, Change(t) PROVE EventInv'
    BY <2>3 DEF Change
  <2>4. ASSUME NEW t \in Threads, Try(t) PROVE EventInv'
    BY <2>4 DEF Try
  <2>5. ASSUME NEW t \in Threads, Snapshot(t) PROVE EventInv'
    BY <2>5 DEF Snapshot
  <2>6. ASSUME NEW t \in Threads, NEW r \in Refs, FillBegin(t, r) PROVE EventInv'
    BY <2>6 DEF FillBegin
  <2>7. ASSUME NEW t \in Threads, FillEnd(t) PROVE EventInv'
    BY <2>7 DEF FillEnd
  <2>8. ASSUME NEW t \in Threads, Post(t) PROVE EventInv'
    <3>1. /\ pc[t] = "post" /\ pc' = [pc EXCEPT ![t] = "next"]
          /\ target' = [target EXCEPT ![t] = None]
          /\ registry' \subseteq registry /\ UNCHANGED <<pv, deferred, todo, flag, state, content>>
      BY <2>8 DEF Post
    <3>2. PICK r \in Refs : r = target[t]
      BY <3>1
    <3>3. last' = last \/ last' = [last EXCEPT ![r] = content[r]]
      BY <2>8, <3>2 DEF Post
    <3>4. excused' = excused \/ excused' = [excused EXCEPT ![r] = FALSE]
      BY <2>8, <3>2 DEF Post
    <3>5. EventType'
      <4>1. pc' \in [Threads -> Pcs] /\ target' \in [Threads -> Refs \cup {None}]
        BY <3>1
      <4>2. \A u \in Threads : pc'[u] \in {"fill", "post"} => target'[u] \in Refs
        BY <3>1
      <4>3. last' \in [Refs -> Nat]
        BY <3>2, <3>3
      <4>4. excused' \in [Refs -> BOOLEAN]
        BY <3>2, <3>4
      <4> QED
        BY <3>1, <4>1, <4>2, <4>3, <4>4
    <3>6. Ordered' /\ ValueExists'
      BY <3>1, <3>2, <3>3
    <3>7. NewUnknown'
      <4>1. \A u \in Threads : /\ pc'[u] = "register" => pc[u] = "register"
                               /\ pc'[u] \in {"fill", "post"} => pc[u] \in {"fill", "post"} /\ target'[u] = target[u]
        BY <3>1
      <4> QED
        BY <3>1, <4>1
    <3> QED
      BY <3>5, <3>6, <3>7
  <2>9. ASSUME NEW t \in Threads, Return(t) PROVE EventInv'
    BY <2>9 DEF Return
  <2>10. ASSUME NEW r \in Refs, AddCheck(r) PROVE EventInv'
    BY <2>10 DEF AddCheck
  <2>11. ASSUME NEW r \in Refs, AddTimeout(r) PROVE EventInv'
    BY <2>11 DEF AddTimeout
  <2>12. ASSUME NEW r \in Refs, Register(r) PROVE EventInv'
    BY <2>12 DEF Register
  <2>13. ASSUME NEW r \in Refs, Destroy(r) \/ Free(r) PROVE EventInv'
    BY <2>13 DEF Destroy, Free
  <2>14. CASE ChangeUnposted
    BY <2>14 DEF ChangeUnposted
  <2> QED
    BY <2>1, <2>2, <2>3, <2>4, <2>5, <2>6, <2>7, <2>8, <2>9, <2>10, <2>11, <2>12, <2>13, <2>14
    DEF EventsNext, PostStep, AddStep
<1> QED
  BY <1>1, <1>2, PTL DEF EventsSpec

\* However many threads post, the events of a reference never go back to an older state
\* of the PV: posting is not locked, filling is.
THEOREM EventsOrdered == EventsSpec => EventsInOrder
<1>1. EventInv /\ [EventsNext]_eventVars => [\A r \in Refs : last'[r] >= last[r]]_eventVars
  <2> SUFFICES ASSUME EventInv, EventsNext PROVE \A r \in Refs : last'[r] >= last[r]
    OBVIOUS
  <2> USE DEF EventInv, EventType, Ordered, refs
  <2>1. ASSUME NEW t \in Threads, Post(t) PROVE \A r \in Refs : last'[r] >= last[r]
    BY <2>1 DEF Post
  <2>2. CASE UNCHANGED last
    BY <2>2
  <2> QED
    BY <2>1, <2>2
    DEF EventsNext, PostStep, AddStep, CreatePv, TakeRegistry, LeaveRegistry, DrainDeferred, Change, ChangeUnposted, Try, Snapshot,
        FillBegin, FillEnd, Return, AddCheck, AddTimeout, Register, Destroy, Free
<1> QED
  BY <1>1, EventsTyped, PTL DEF EventsSpec, EventsInOrder

-----------------------------------------------------------------------------
(* No change is lost.                                                      *)

\* As long as no change was posted there is nothing to lose.
LEMMA NoValueYet ==
  ASSUME EventType', due' = 0
  PROVE  LossInv'
<1>1. \A r \in Refs : last'[r] >= due' /\ content'[r] >= due'
  BY DEF EventType
<1>2. registry' \subseteq Refs
  BY DEF EventType
<1>3. PostsCurrent'
  BY <1>1, <1>2 DEF PostsCurrent
<1>4. NoLostEvent'
  BY <1>1, <1>2 DEF NoLostEvent
<1> QED
  BY <1>3, <1>4 DEF LossInv

\* A step that fills and posts nothing, and drops no event to a subscriber that is coming.
LEMMA EventsKept ==
  ASSUME EventType, LossInv, UNCHANGED <<due, content, last, excused>>,
         registry' \subseteq registry,
         \A r \in registry' : Coming(r) => Coming(r)',
         \A t \in Threads : pc'[t] = "post" <=> pc[t] = "post",
         \A t \in Threads : pc[t] = "post" => target'[t] = target[t]
  PROVE  LossInv'
<1>1. PostsCurrent'
  BY DEF LossInv, PostsCurrent
<1>2. ASSUME NEW r \in registry', OnItsWay(r) PROVE OnItsWay(r)'
  <2>1. CASE Coming(r)
    <3>1. Coming(r)'
      BY <1>2, <2>1
    <3> QED
      BY <3>1 DEF Coming, OnItsWay
  <2>2. CASE \E t \in Threads : pc[t] = "post" /\ target[t] = r /\ content[r] >= due
    BY <2>2 DEF OnItsWay
  <2> QED
    BY <1>2, <2>1, <2>2 DEF OnItsWay, Coming
<1> QED
  BY <1>1, <1>2 DEF LossInv, NoLostEvent

\* Once a thread is about to take a snapshot everybody will be sent an event.
LEMMA AllComing ==
  ASSUME (deferred \/ \E t \in Threads : pc[t] \in {"try", "snapshot"})'
  PROVE  LossInv'
BY DEF LossInv, PostsCurrent, NoLostEvent, OnItsWay, Coming

\* A reference enters the registry without a post to it under way.
LEMMA RegisterKeeps ==
  ASSUME EventInv, LossInv, NEW r \in Refs, Register(r)
  PROVE  LossInv'
<1> USE DEF EventInv, EventType, Threads, Goto
<1>1. CASE flag[r]
  <2>1. pc'[r] = "try" /\ r \in Threads
    BY <1>1 DEF Register
  <2> QED
    BY <2>1, AllComing
<1>2. CASE ~flag[r]
  <2>1. /\ pc[r] = "register" /\ pc' = [pc EXCEPT ![r] = "idle"] /\ registry' = registry \cup {r}
        /\ excused' = [excused EXCEPT ![r] = due # 0]
        /\ UNCHANGED <<pv, deferred, todo, target, content, last>>
    BY <1>2 DEF Register
  <2>2. \A q \in Refs : Coming(q) => Coming(q)'
    BY <2>1 DEF Coming
  <2>3. \A t \in Threads : (pc'[t] = "post" <=> pc[t] = "post") /\ (pc[t] = "post" => target[t] # r)
    BY <2>1 DEF NewUnknown
  <2>4. PostsCurrent'
    BY <2>1, <2>2, <2>3 DEF LossInv, PostsCurrent, pv
  <2>5. last'[r] >= due' \/ excused'[r]
    <3>1. excused'[r] = (due # 0) /\ due' = due /\ last' = last
      BY <2>1 DEF pv
    <3>2. due = 0 => last[r] >= due
      OBVIOUS
    <3> QED
      BY <3>1, <3>2
  <2>6. ASSUME NEW q \in registry, q # r PROVE last'[q] >= due' \/ excused'[q] \/ OnItsWay(q)'
    <3>1. OnItsWay(q) => OnItsWay(q)'
      BY <2>1, <2>3 DEF OnItsWay, pv
    <3> QED
      BY <2>1, <2>6, <3>1 DEF LossInv, NoLostEvent, pv
  <2> QED
    BY <2>1, <2>4, <2>5, <2>6 DEF LossInv, NoLostEvent
<1> QED
  BY <1>1, <1>2

\* A target is filled with what the PV holds then.
LEMMA FillKeeps ==
  ASSUME EventInv, LossInv, NEW t \in Threads, FillEnd(t)
  PROVE  LossInv'
<1> USE DEF EventInv, EventType, Threads, Goto
<1>1. /\ pc[t] = "fill" /\ pc' = [pc EXCEPT ![t] = "post"]
      /\ content' = [content EXCEPT ![target[t]] = val]
      /\ UNCHANGED <<pv, registry, deferred, todo, target, last, excused>>
  BY DEF FillEnd
<1>2. PICK r \in Refs : r = target[t]
  BY <1>1
<1>3. content'[r] >= due' /\ pc'[t] = "post" /\ target'[t] = r
  BY <1>1, <1>2 DEF pv, ValueExists
<1>4. ASSUME NEW q \in Refs, q # r, Coming(q) PROVE Coming(q)'
  BY <1>1, <1>2, <1>4 DEF Coming
<1>5. PostsCurrent'
  <2> SUFFICES ASSUME NEW u \in Threads, pc'[u] = "post", target[u] \in registry, target[u] # r
               PROVE  content'[target[u]] >= due' \/ Coming(target[u])'
    BY <1>1, <1>3 DEF PostsCurrent
  <2>1. u # t /\ pc[u] = "post" /\ target[u] \in Refs
    BY <1>1, <1>2
  <2>2. content[target[u]] >= due \/ Coming(target[u])
    BY <2>1 DEF LossInv, PostsCurrent
  <2> QED
    BY <1>1, <1>2, <1>4, <2>1, <2>2 DEF pv
<1>6. OnItsWay(r)'
  BY <1>3 DEF OnItsWay
<1>7. ASSUME NEW q \in registry, q # r PROVE last'[q] >= due' \/ excused'[q] \/ OnItsWay(q)'
  <2>1. OnItsWay(q) => OnItsWay(q)'
    BY <1>1, <1>2, <1>7 DEF OnItsWay, pv
  <2> QED
    BY <1>1, <1>7, <2>1 DEF LossInv, NoLostEvent, pv
<1> QED
  BY <1>1, <1>5, <1>6, <1>7 DEF LossInv, NoLostEvent

\* What is posted is the state of the PV, or another event is coming.
LEMMA PostKeeps ==
  ASSUME EventInv, LossInv, NEW t \in Threads, Post(t)
  PROVE  LossInv'
<1> USE DEF EventInv, EventType, Threads, Goto
<1>1. /\ pc[t] = "post" /\ pc' = [pc EXCEPT ![t] = "next"]
      /\ target' = [target EXCEPT ![t] = None]
      /\ registry' \subseteq registry /\ UNCHANGED <<pv, deferred, todo, content>>
  BY DEF Post
<1>2. PICK r \in Refs : r = target[t]
  BY <1>1
<1>3. \/ last' = [last EXCEPT ![r] = content[r]] /\ excused' = [excused EXCEPT ![r] = FALSE]
      \/ UNCHANGED <<last, excused>> /\ r \notin registry'
  BY <1>2 DEF Post
<1>4. \A u \in Threads \ {t} : pc'[u] = pc[u] /\ target'[u] = target[u]
  BY <1>1
<1>5. \A q \in Refs : Coming(q) => Coming(q)'
  BY <1>1, <1>4 DEF Coming
<1>6. PostsCurrent'
  BY <1>1, <1>4, <1>5 DEF LossInv, PostsCurrent, pv
<1>7. r \in registry' => last'[r] >= due' \/ OnItsWay(r)'
  <2> SUFFICES ASSUME r \in registry' PROVE last'[r] >= due' \/ OnItsWay(r)'
    OBVIOUS
  <2>1. content[r] >= due \/ Coming(r)
    BY <1>1, <1>2 DEF LossInv, PostsCurrent
  <2>2. last'[r] = content[r]
    BY <1>3
  <2>3. Coming(r)' => OnItsWay(r)'
    BY DEF Coming, OnItsWay
  <2> QED
    BY <1>1, <1>5, <2>1, <2>2, <2>3 DEF pv
<1>8. ASSUME NEW q \in registry', q # r PROVE last'[q] >= due' \/ excused'[q] \/ OnItsWay(q)'
  <2>1. q \in registry /\ last'[q] = last[q] /\ excused'[q] = excused[q]
    BY <1>1, <1>3, <1>8
  <2>2. OnItsWay(q) => OnItsWay(q)'
    BY <1>1, <1>2, <1>4, <1>8 DEF OnItsWay, pv
  <2> QED
    BY <1>1, <2>1, <2>2 DEF LossInv, NoLostEvent, pv
<1> QED
  BY <1>6, <1>7, <1>8 DEF LossInv, NoLostEvent

\* Every step keeps what is on its way to the subscribers.
LEMMA LossNext ==
  ASSUME EventInv, EventInv', LossInv, [EventsNext]_eventVars
  PROVE  LossInv'
<1> USE DEF EventInv, EventType, Goto, refs, pv
<1>1. CASE CreatePv \/ TakeRegistry \/ LeaveRegistry \/ UNCHANGED eventVars
  <2>1. UNCHANGED <<due, registry, deferred, pc, todo, target, content, last, excused>>
    BY <1>1 DEF CreatePv, TakeRegistry, LeaveRegistry, eventVars
  <2> QED
    BY <2>1, EventsKept DEF Coming
<1>2. CASE DrainDeferred
  <2>1. pc'[Poll] = "try" /\ Poll \in Threads
    BY <1>2 DEF DrainDeferred, Threads
  <2> QED
    BY <2>1, AllComing
<1>3. ASSUME NEW t \in Changers, Change(t) PROVE LossInv'
  <2>1. pc'[t] = "try" /\ t \in Threads
    BY <1>3 DEF Change, Threads
  <2> QED
    BY <2>1, AllComing
<1>4. ASSUME NEW t \in Threads, Try(t) PROVE LossInv'
  <2>1. CASE ~exists
    <3>1. due' = 0
      BY <1>4, <2>1 DEF Try, ValueExists
    <3> QED
      BY <3>1, NoValueYet
  <2>2. CASE exists
    <3>1. deferred' \/ pc'[t] = "snapshot"
      BY <1>4, <2>2 DEF Try
    <3> QED
      BY <3>1, AllComing
  <2> QED
    BY <2>1, <2>2
<1>5. ASSUME NEW t \in Threads, Snapshot(t) PROVE LossInv'
  <2>1. /\ pc[t] = "snapshot" /\ pc' = [pc EXCEPT ![t] = "next"]
        /\ todo' = [todo EXCEPT ![t] = registry]
        /\ UNCHANGED <<due, registry, deferred, target, content, last, excused>>
    BY <1>5 DEF Snapshot
  <2>2. \A r \in registry : Coming(r)'
    BY <2>1 DEF Coming
  <2> QED
    BY <2>1, <2>2, EventsKept
<1>6. ASSUME NEW t \in Threads, NEW r \in Refs, FillBegin(t, r) PROVE LossInv'
  <2>1. /\ pc[t] = "next" /\ pc' = [pc EXCEPT ![t] = "fill"]
        /\ target' = [target EXCEPT ![t] = r] /\ todo' = [todo EXCEPT ![t] = @ \ {r}]
        /\ UNCHANGED <<due, registry, deferred, content, last, excused>>
    BY <1>6 DEF FillBegin
  <2>2. \A q \in Refs : Coming(q) => Coming(q)'
    BY <2>1 DEF Coming
  <2> QED
    BY <2>1, <2>2, EventsKept
<1>7. ASSUME NEW t \in Threads, Return(t) PROVE LossInv'
  <2>1. /\ pc[t] = "next" /\ pc' = [pc EXCEPT ![t] = "idle"]
        /\ UNCHANGED <<due, registry, deferred, todo, target, content, last, excused>>
    BY <1>7 DEF Return
  <2>2. \A q \in Refs : Coming(q) => Coming(q)'
    BY <2>1 DEF Coming
  <2> QED
    BY <2>1, <2>2, EventsKept
<1>8. ASSUME NEW r \in Refs, AddCheck(r) \/ AddTimeout(r) PROVE LossInv'
  <2>1. /\ pc[r] = "idle" /\ pc' = [pc EXCEPT ![r] = "register"]
        /\ UNCHANGED <<due, registry, deferred, todo, target, content, last, excused>>
    BY <1>8 DEF AddCheck, AddTimeout
  <2>2. \A q \in Refs : Coming(q) => Coming(q)'
    BY <2>1 DEF Coming
  <2> QED
    BY <2>1, <2>2, EventsKept
<1>9. ASSUME NEW r \in Refs, Destroy(r) \/ Free(r) PROVE LossInv'
  <2>1. /\ registry' \subseteq registry
        /\ UNCHANGED <<due, deferred, pc, todo, target, content, last, excused>>
    BY <1>9 DEF Destroy, Free
  <2> QED
    BY <2>1, EventsKept DEF Coming
<1>10. CASE ChangeUnposted
  <2>1. UNCHANGED <<due, registry, deferred, pc, todo, target, content, last, excused>>
    BY <1>10 DEF ChangeUnposted
  <2> QED
    BY <2>1, EventsKept DEF Coming
<1> QED
  BY <1>1, <1>2, <1>3, <1>4, <1>5, <1>6, <1>7, <1>8, <1>9, <1>10, RegisterKeeps, FillKeeps, PostKeeps
  DEF EventsNext, PostStep, AddStep

\* No change of the PV that is followed by a post is lost to a registered subscriber, whatever
\* else changes the PV: its last event shows it or a later state, or an event that will is on
\* its way, for any number of subscribers and of threads that post.
THEOREM NothingLost == EventsSpec => []NoLostEvent
<1>1. EventsInit => LossInv
  <2> SUFFICES ASSUME EventsInit PROVE LossInv
    OBVIOUS
  <2>1. registry = {} /\ \A t \in Threads : pc[t] = "idle"
    BY DEF EventsInit
  <2> QED
    BY <2>1 DEF LossInv, PostsCurrent, NoLostEvent
<1>2. LossInv => NoLostEvent
  BY DEF LossInv
<1> QED
  BY <1>1, <1>2, LossNext, EventsTyped, PTL DEF EventsSpec
=============================================================================
