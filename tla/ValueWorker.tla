---------------------------- MODULE ValueWorker ----------------------------
(***************************************************************************)
(* The path of a monitor update (calab.cpp).  A Channel Access callback    *)
(* (valueChanged) copies the value and puts a task into a queue            *)
(* (enqueueTask); one worker thread (workerLoop), started by the first     *)
(* update (ensureWorkerStarted), writes the task into its PVItem           *)
(* (processValueChangeTask); the destructor of Globals stops the worker    *)
(* (stopBackgroundWorkers, stopWorker) while callbacks may still run.      *)
(*                                                                         *)
(* Update n of a PV carries the buffer <<pv, n>>, or only an error status  *)
(* if the server reports one.  Timeouts says whether a lock that the       *)
(* worker waits for may stay taken for the 200 ms it is ready to wait.     *)
(***************************************************************************)
EXTENDS Naturals, Sequences

CONSTANTS PVs,         \* channels with a subscription, one callback thread each
          MaxUpdates,  \* bound on the updates of one channel
          Timeouts,    \* may the worker fail to get a lock?
          Teardown,    \* may the process end?
          Spurious     \* may a condition variable wake up for no reason?

ASSUME WorkerAssumption ==
  MaxUpdates \in Nat /\ Timeouts \in BOOLEAN /\ Teardown \in BOOLEAN /\ Spurious \in BOOLEAN

VARIABLES sent,      \* the statuses of the updates each channel has delivered
          cb,        \* what each channel's callback is about to do
          cbTask,    \* the task it works on
          queue,     \* g_vcQueue
          stop,      \* g_vcStop
          started,   \* g_vcStarted
          startMtx,  \* the callback that holds g_vcStartMtx
          hook,      \* is stopWorker registered with Globals?
          thread,    \* what g_vcThread holds
          worker,    \* next step of the worker
          task,      \* the task the worker works on
          item,      \* value buffer and error state of each PVItem
          heap,      \* allocated value buffers
          dropped,   \* updates the worker gave up on
          down       \* progress of ~Globals

cbVars     == <<sent, cb, cbTask>>
threadVars == <<stop, started, startMtx, hook, thread>>
workVars   == <<worker, task>>
itemVars   == <<item, heap, dropped>>
vars == <<cbVars, queue, threadVars, workVars, itemVars, down>>

NoTask  == [pv |-> "none", n |-> 0, data |-> FALSE]
Tasks   == [pv : PVs, n : 1 .. MaxUpdates, data : BOOLEAN] \cup {NoTask}
Buffers == PVs \X (1 .. MaxUpdates)
buf(t)  == <<t.pv, t.n>>

Init ==
  /\ sent = [p \in PVs |-> <<>>]
  /\ cb = [p \in PVs |-> "idle"]
  /\ cbTask = [p \in PVs |-> NoTask]
  /\ queue = <<>>
  /\ stop = FALSE /\ started = FALSE /\ startMtx = {} /\ hook = FALSE
  /\ thread = "none"
  /\ worker = "loop" /\ task = NoTask
  /\ item = [p \in PVs |-> [value |-> 0, error |-> FALSE]]
  /\ heap = {} /\ dropped = {}
  /\ down = "up"

stopped == down # "up"
\* g_vcMutex is held by the worker between its predicate and its wait only.
mutexFree == worker # "block"

-----------------------------------------------------------------------------
(* valueChanged and enqueueTask, in the callback of one channel.           *)

\* The update is copied; an error status goes to the PV at once.
ValueChanged(p, ok) ==
  /\ cb[p] = "idle" /\ ~stopped
  /\ Len(sent[p]) < MaxUpdates
  /\ sent' = [sent EXCEPT ![p] = Append(@, ok)]
  /\ cbTask' = [cbTask EXCEPT ![p] = [pv |-> p, n |-> Len(sent'[p]), data |-> ok]]
  /\ heap' = IF ok THEN heap \cup {<<p, Len(sent'[p])>>} ELSE heap
  /\ item' = IF ok THEN item ELSE [item EXCEPT ![p].error = TRUE]
  /\ cb' = [cb EXCEPT ![p] = "ensure"]
  /\ UNCHANGED <<queue, threadVars, workVars, dropped, down>>

\* ensureWorkerStarted: the first, unlocked look at g_vcStarted.
EnsureStarted(p) ==
  /\ cb[p] = "ensure"
  /\ cb' = [cb EXCEPT ![p] = IF started THEN "push" ELSE "lock"]
  /\ UNCHANGED <<sent, cbTask, queue, threadVars, workVars, itemVars, down>>

\* Mutant: g_vcStarted is not read again under the mutex.
EnsureOnce(p) ==
  /\ cb[p] = "lock" /\ startMtx = {}
  /\ cb' = [cb EXCEPT ![p] = "resetstop"]
  /\ startMtx' = {p}
  /\ UNCHANGED <<sent, cbTask, queue, stop, started, hook, thread, workVars, itemVars, down>>

\* ... and the second one, under g_vcStartMtx.
EnsureAgain(p) ==
  /\ cb[p] = "lock" /\ startMtx = {}
  /\ IF started
     THEN cb' = [cb EXCEPT ![p] = "push"] /\ UNCHANGED startMtx
     ELSE cb' = [cb EXCEPT ![p] = "resetstop"] /\ startMtx' = {p}
  /\ UNCHANGED <<sent, cbTask, queue, stop, started, hook, thread, workVars, itemVars, down>>

ResetStop(p) ==
  /\ cb[p] = "resetstop"
  /\ stop' = FALSE
  /\ cb' = [cb EXCEPT ![p] = "spawn"]
  /\ UNCHANGED <<sent, cbTask, queue, started, startMtx, hook, thread, workVars, itemVars, down>>

\* Assigning to a std::thread that still runs would call std::terminate.
Spawn(p) ==
  /\ cb[p] = "spawn"
  /\ thread' = IF thread = "none" THEN "running" ELSE "terminate"
  /\ worker' = "loop"
  /\ cb' = [cb EXCEPT ![p] = "setstarted"]
  /\ UNCHANGED <<sent, cbTask, queue, stop, started, startMtx, hook, task, itemVars, down>>

SetStarted(p) ==
  /\ cb[p] = "setstarted"
  /\ started' = TRUE
  /\ cb' = [cb EXCEPT ![p] = "hook"]
  /\ UNCHANGED <<sent, cbTask, queue, stop, startMtx, hook, thread, workVars, itemVars, down>>

\* registerBackgroundWorker, then the end of the guard.
RegisterHook(p) ==
  /\ cb[p] = "hook"
  /\ hook' = TRUE /\ startMtx' = {}
  /\ cb' = [cb EXCEPT ![p] = "push"]
  /\ UNCHANGED <<sent, cbTask, queue, stop, started, thread, workVars, itemVars, down>>

\* Mutant: the newest task goes to the front.
PushFront(p) ==
  /\ cb[p] = "push" /\ mutexFree
  /\ queue' = <<cbTask[p]>> \o queue
  /\ cbTask' = [cbTask EXCEPT ![p] = NoTask]
  /\ cb' = [cb EXCEPT ![p] = "notify"]
  /\ UNCHANGED <<sent, threadVars, workVars, itemVars, down>>

Push(p) ==
  /\ cb[p] = "push" /\ mutexFree
  /\ queue' = Append(queue, cbTask[p])
  /\ cbTask' = [cbTask EXCEPT ![p] = NoTask]
  /\ cb' = [cb EXCEPT ![p] = "notify"]
  /\ UNCHANGED <<sent, threadVars, workVars, itemVars, down>>

\* notify_one and notify_all: only a worker that waits already notices.
Wake == worker' = IF worker = "wait" THEN "lock" ELSE worker

\* Mutant: the worker is not notified.
NotifyNone(p) ==
  /\ cb[p] = "notify"
  /\ cb' = [cb EXCEPT ![p] = "idle"]
  /\ UNCHANGED <<sent, cbTask, queue, threadVars, workVars, itemVars, down>>

NotifyOne(p) ==
  /\ cb[p] = "notify"
  /\ Wake
  /\ cb' = [cb EXCEPT ![p] = "idle"]
  /\ UNCHANGED <<sent, cbTask, queue, threadVars, task, itemVars, down>>

Enqueue(p) ==
  \/ EnsureStarted(p) \/ EnsureAgain(p) \/ ResetStop(p) \/ Spawn(p)
  \/ SetStarted(p) \/ RegisterHook(p) \/ Push(p) \/ NotifyOne(p)

-----------------------------------------------------------------------------
(* workerLoop.                                                             *)

\* The head of the loop reads g_vcStop.
LoopHead ==
  /\ thread = "running" /\ worker = "loop"
  /\ worker' = IF stop THEN "drain" ELSE "lock"
  /\ UNCHANGED <<cbVars, queue, threadVars, task, itemVars, down>>

\* Under g_vcMutex: stop, or take a task, or begin to wait.
TakeTask ==
  /\ thread = "running" /\ worker = "lock"
  /\ \/ stop /\ worker' = "drain" /\ UNCHANGED <<queue, task>>
     \/ /\ ~stop /\ queue # <<>>
        /\ task' = Head(queue) /\ queue' = Tail(queue)
        /\ worker' = "process"
     \/ ~stop /\ queue = <<>> /\ worker' = "block" /\ UNCHANGED <<queue, task>>
  /\ UNCHANGED <<cbVars, threadVars, itemVars, down>>

\* wait gives g_vcMutex up and blocks in one step.
Block ==
  /\ worker = "block"
  /\ worker' = "wait"
  /\ UNCHANGED <<cbVars, queue, threadVars, task, itemVars, down>>

SpuriousWakeup ==
  /\ Spurious
  /\ worker = "wait"
  /\ worker' = "lock"
  /\ UNCHANGED <<cbVars, queue, threadVars, task, itemVars, down>>

\* After the stop the rest of the queue is processed.
Drain ==
  /\ thread = "running" /\ worker = "drain"
  /\ IF queue = <<>>
     THEN worker' = "end" /\ UNCHANGED <<queue, task>>
     ELSE /\ task' = Head(queue) /\ queue' = Tail(queue)
          /\ worker' = "drainprocess"
  /\ UNCHANGED <<cbVars, threadVars, itemVars, down>>

AfterTask == IF worker = "process" THEN "loop" ELSE "drain"

\* Mutant: clearDbr is not called before setDbr.
ProcessLeaks ==
  /\ worker \in {"process", "drainprocess"}
  /\ item' = [item EXCEPT ![task.pv] =
                [value |-> IF task.data THEN task.n ELSE @.value, error |-> ~task.data]]
  /\ worker' = AfterTask
  /\ task' = NoTask
  /\ UNCHANGED <<cbVars, queue, threadVars, heap, dropped, down>>

\* Mutant: setErrorCode is left to the callback.
ProcessKeepsError ==
  /\ worker \in {"process", "drainprocess"}
  /\ item' = [item EXCEPT ![task.pv].value = IF task.data THEN task.n ELSE @]
  /\ heap' = IF task.data THEN heap \ {<<task.pv, item[task.pv].value>>} ELSE heap
  /\ worker' = AfterTask
  /\ task' = NoTask
  /\ UNCHANGED <<cbVars, queue, threadVars, dropped, down>>

\* processValueChangeTask: the new buffer replaces the old one, under ioMutex.
ProcessTask ==
  /\ worker \in {"process", "drainprocess"}
  /\ item' = [item EXCEPT ![task.pv] =
                [value |-> IF task.data THEN task.n ELSE @.value, error |-> ~task.data]]
  /\ heap' = IF task.data THEN heap \ {<<task.pv, item[task.pv].value>>} ELSE heap
  /\ worker' = AfterTask
  /\ task' = NoTask
  /\ UNCHANGED <<cbVars, queue, threadVars, dropped, down>>

\* The registry or the item is locked for longer than 200 ms.
GiveUpTask ==
  /\ Timeouts
  /\ worker \in {"process", "drainprocess"}
  /\ dropped' = dropped \cup {buf(task)}
  /\ heap' = heap \ {buf(task)}
  /\ worker' = AfterTask
  /\ task' = NoTask
  /\ UNCHANGED <<cbVars, queue, threadVars, item, down>>

WorkerStep == LoopHead \/ TakeTask \/ Block \/ Drain \/ ProcessTask \/ GiveUpTask

-----------------------------------------------------------------------------
(* ~Globals: stopBackgroundWorkers and stopWorker.                         *)

SetStopped ==
  /\ Teardown
  /\ down = "up" /\ down' = "hooks"
  /\ UNCHANGED <<cbVars, queue, threadVars, workVars, itemVars>>

\* The registered stop functions are taken out and called.
RunHooks ==
  /\ down = "hooks"
  /\ hook' = FALSE
  /\ down' = IF hook /\ started THEN "setstop" ELSE "past"
  /\ UNCHANGED <<cbVars, queue, stop, started, startMtx, thread, workVars, itemVars>>

\* Mutant: g_vcStop is left as it is.
SetStopNot ==
  /\ down = "setstop"
  /\ down' = "notify"
  /\ UNCHANGED <<cbVars, queue, threadVars, workVars, itemVars>>

SetStop ==
  /\ down = "setstop"
  /\ stop' = TRUE
  /\ down' = "notify"
  /\ UNCHANGED <<cbVars, queue, started, startMtx, hook, thread, workVars, itemVars>>

NotifyAll ==
  /\ down = "notify"
  /\ Wake
  /\ down' = "join"
  /\ UNCHANGED <<cbVars, queue, threadVars, task, itemVars>>

Join ==
  /\ down = "join"
  /\ worker = "end" \/ thread = "none"
  /\ thread' = "none"
  /\ down' = "clearstarted"
  /\ UNCHANGED <<cbVars, queue, stop, started, startMtx, hook, workVars, itemVars>>

ClearStarted ==
  /\ down = "clearstarted"
  /\ started' = FALSE
  /\ down' = "past"
  /\ UNCHANGED <<cbVars, queue, stop, startMtx, hook, thread, workVars, itemVars>>

StopStep == RunHooks \/ SetStop \/ NotifyAll \/ Join \/ ClearStarted

-----------------------------------------------------------------------------
Next ==
  \/ \E p \in PVs : Enqueue(p) \/ \E ok \in BOOLEAN : ValueChanged(p, ok)
  \/ WorkerStep \/ SpuriousWakeup
  \/ SetStopped \/ StopStep

Spec == Init /\ [][Next]_vars

\* Threads keep running, and a callback gets a mutex that is free again and again;
\* no update, no end of the process and no spurious wakeup has to come.  A lock
\* that times out does so by choice of the worker.
Fairness ==
  /\ \A p \in PVs : SF_vars(Enqueue(p))
  /\ WF_vars(WorkerStep)
  /\ WF_vars(StopStep)

FairSpec == Spec /\ Fairness

-----------------------------------------------------------------------------
(* Properties.                                                             *)

CbSteps == {"idle", "ensure", "lock", "resetstop", "spawn", "setstarted", "hook", "push", "notify"}
WorkerSteps == {"loop", "lock", "block", "wait", "process", "drain", "drainprocess", "end"}
DownSteps == {"up", "hooks", "setstop", "notify", "join", "clearstarted", "past"}

\* The types of the state.
TypeOK ==
  /\ sent \in [PVs -> Seq(BOOLEAN)]
  /\ cb \in [PVs -> CbSteps]
  /\ cbTask \in [PVs -> Tasks]
  /\ queue \in Seq(Tasks \ {NoTask})
  /\ stop \in BOOLEAN /\ started \in BOOLEAN /\ hook \in BOOLEAN
  /\ startMtx \subseteq PVs
  /\ thread \in {"none", "running", "terminate"}
  /\ worker \in WorkerSteps /\ task \in Tasks
  /\ item \in [PVs -> [value : 0 .. MaxUpdates, error : BOOLEAN]]
  /\ heap \subseteq Buffers /\ dropped \subseteq Buffers
  /\ down \in DownSteps

\* The buffers the tasks own, wherever the tasks are, and those of the items.
TaskBuffers ==
  {buf(t) : t \in {u \in {cbTask[p] : p \in PVs} \cup {queue[i] : i \in DOMAIN queue} \cup {task} : u.data}}
ItemBuffers == {<<p, item[p].value>> : p \in {q \in PVs : item[q].value > 0}}

\* "Ownership is transferred to PVItem; freed here on failure": each allocated
\* buffer has exactly one owner, no owner holds a freed buffer, none leaks.
BufferOwnedOnce ==
  /\ heap = TaskBuffers \cup ItemBuffers
  /\ TaskBuffers \cap ItemBuffers = {}

\* Double-checked locking starts one worker: g_vcThread is never overwritten
\* while its thread runs, whatever callbacks and the teardown do.
OneWorker == thread # "terminate"

\* No callback or task works on an update of p.
Settled(p) ==
  /\ cb[p] = "idle" /\ task.pv # p
  /\ \A i \in DOMAIN queue : queue[i].pv # p
  /\ \A b \in dropped : b[1] # p

\* When nothing is under way the item shows the last value delivered and its error
\* flag is that of the last update, although callbacks set it out of turn.
SettledIsNewest ==
  \A p \in PVs : Settled(p) /\ sent[p] # <<>> =>
    /\ item[p].error = ~sent[p][Len(sent[p])]
    /\ \A n \in DOMAIN sent[p] : sent[p][n] => item[p].value >= n

\* The number of the last update of p that carried a value.
LastGiven(p) ==
  CHOOSE n \in 0 .. Len(sent[p]) :
    /\ n = 0 \/ sent[p][n]
    /\ \A k \in n + 1 .. Len(sent[p]) : ~sent[p][k]

LV == INSTANCE LastValue WITH
        delivered <- [p \in PVs |-> LastGiven(p)],
        shown <- [p \in PVs |-> item[p].value]

\* Callbacks, queue and worker implement LastValue: an item shows nothing that has not
\* been delivered and never goes back to an older update, whatever is dropped.
ShowsInOrder == LV!Spec

\* Update n of p is under way in a callback, in the queue or in the worker.
UnderWay(p, n) ==
  \E t \in {cbTask[p], task} \cup {queue[i] : i \in DOMAIN queue} : t.pv = p /\ t.n = n

\* As long as the process runs no update is stuck, neither in a callback that starts
\* the worker nor in the queue while the worker sleeps: when no more updates come,
\* all have been worked on.
UpdateArrives == <>[](stopped \/ \A p \in PVs, n \in 1 .. MaxUpdates : ~UnderWay(p, n))

\* stopWorker waits for nothing but the worker, and that comes to its end whenever
\* it does not sleep when stopWorker begins to wait, however many tasks are left.
StopReturnsUnlessAsleep ==
  (down = "join" /\ worker \notin {"block", "wait"}) ~> down = "past"

-----------------------------------------------------------------------------
(* Expectations that the code does not meet: see the README, Deviations.   *)

\* calab.cpp:390 "Stops the background worker thread": stopWorker, once it waits
\* for the worker, gets to the end.
StopReturns == down = "join" ~> down = "past"

\* calab.cpp:390 "... and drains any remaining tasks": when stopWorker returns no
\* task is left behind.
DrainedAtStop == down = "past" /\ cb = [p \in PVs |-> "idle"] => queue = <<>>

\* calab.cpp:619 "Register a stop hook with Globals to ensure clean teardown": after
\* the teardown no worker runs.
CleanTeardown == down = "past" /\ cb = [p \in PVs |-> "idle"] => thread = "none"
=============================================================================
