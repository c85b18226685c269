--------------------------- MODULE PutCompletion ---------------------------
(***************************************************************************)
(* One call of putValue (calab.cpp): the loop over the PVs that sends the  *)
(* writes (Stage C, doPut), the put callbacks of Channel Access, the wait  *)
(* for them up to Timeout, and the status the call returns.  With          *)
(* wait4readback the caller and the callbacks share a PutCtx on the heap   *)
(* that counts its users in refs; the last one deletes it, so a callback   *)
(* that comes after the timeout still finds it.                            *)
(*                                                                         *)
(* Channel Access (external): an accepted put with callback is answered    *)
(* once, with the outcome of the write, or with a failure when the         *)
(* connection goes down; clearing the channel drops the answer.            *)
(***************************************************************************)
EXTENDS Naturals, FiniteSets

CONSTANTS N,         \* nameCount
          MayClear   \* may another VI clear channels meanwhile?

ASSUME PutAssumption == N \in Nat \ {0} /\ MayClear \in BOOLEAN

VARIABLES wait,         \* doWaitRequested
          up,           \* the channels that are connected
          pc, i,        \* the caller's next step, its loop counter
          caStatus,     \* per PV: ECA_NORMAL or not
          refs,         \* PutCtx::refs
          completed,    \* PutCtx::completed
          totalWrites,
          ctx,          \* the memory of the PutCtx
          cb,           \* per PV: its put callback
          outcome,      \* per PV: what became of the write at the server
          timedOut,     \* putCallbacksTimedOut
          status        \* CommunicationStatus

vars == <<wait, up, pc, i, caStatus, refs, completed, totalWrites, ctx, cb, outcome, timedOut, status>>

PVs == 1 .. N

Init ==
  /\ wait \in BOOLEAN
  /\ up \in SUBSET PVs
  /\ pc = "write" /\ i = 1
  /\ caStatus = [p \in PVs |-> "normal"]
  /\ refs = (IF wait THEN 1 ELSE 0) /\ completed = 0 /\ totalWrites = 0
  /\ ctx = (IF wait THEN "alive" ELSE "none")
  /\ cb = [p \in PVs |-> "none"]
  /\ outcome = [p \in PVs |-> "unsent"]
  /\ timedOut = FALSE
  /\ status \in BOOLEAN

-----------------------------------------------------------------------------
(* The loop over the PVs.                                                  *)

NextPv ==
  /\ i' = i + 1
  /\ pc' = IF i < N THEN "write" ELSE IF wait THEN "wait" ELSE "final"

\* Not connected: the error is recorded, CommunicationStatus is left as it is.
SkipPv ==
  /\ pc = "write" /\ i \notin up
  /\ caStatus' = [caStatus EXCEPT ![i] = "failed"]
  /\ NextPv
  /\ UNCHANGED <<wait, up, refs, completed, totalWrites, ctx, cb, outcome, timedOut, status>>

\* A value array that is missing or a string that is no number: no write.
RejectValue(sets) ==
  /\ pc = "write" /\ i \in up
  /\ caStatus' = [caStatus EXCEPT ![i] = "failed"]
  /\ status' = (sets \/ status)
  /\ NextPv
  /\ UNCHANGED <<wait, up, refs, completed, totalWrites, ctx, cb, outcome, timedOut>>

\* Mutant: the callback gets no reference of its own.
StartPutNoRef ==
  /\ pc = "write" /\ i \in up
  /\ pc' = "put"
  /\ UNCHANGED <<wait, up, i, caStatus, refs, completed, totalWrites, ctx, cb, outcome, timedOut, status>>

\* doPut up to the call of Channel Access: the callback's reference comes first.
StartPut ==
  /\ pc = "write" /\ i \in up
  /\ pc' = "put"
  /\ refs' = IF wait THEN refs + 1 ELSE refs
  /\ UNCHANGED <<wait, up, i, caStatus, completed, totalWrites, ctx, cb, outcome, timedOut, status>>

\* ca_state finds the channel disconnected although the item says connected.
PutDisconnected ==
  /\ pc = "write" /\ i \notin up
  /\ caStatus' = [caStatus EXCEPT ![i] = "failed"]
  /\ status' = TRUE
  /\ NextPv
  /\ UNCHANGED <<wait, up, refs, completed, totalWrites, ctx, cb, outcome, timedOut>>

\* The request is accepted; the status is that of this PV alone.
PutAccepted ==
  /\ pc = "put" /\ i \in up
  /\ cb' = IF wait THEN [cb EXCEPT ![i] = "pending"] ELSE cb
  /\ outcome' = [outcome EXCEPT ![i] = "sent"]
  /\ totalWrites' = IF wait THEN totalWrites + 1 ELSE totalWrites
  /\ status' = FALSE
  /\ NextPv
  /\ UNCHANGED <<wait, up, caStatus, refs, completed, ctx, timedOut>>

\* Mutant: the reference of a refused request is kept.
PutRefusedKeepsRef ==
  /\ pc = "put"
  /\ caStatus' = [caStatus EXCEPT ![i] = "failed"]
  /\ status' = TRUE
  /\ NextPv
  /\ UNCHANGED <<wait, up, refs, completed, totalWrites, ctx, cb, outcome, timedOut>>

\* The request is refused; the reference is taken back.
PutRefused ==
  /\ pc = "put"
  /\ refs' = IF wait THEN refs - 1 ELSE refs
  /\ caStatus' = [caStatus EXCEPT ![i] = "failed"]
  /\ status' = TRUE
  /\ NextPv
  /\ UNCHANGED <<wait, up, completed, totalWrites, ctx, cb, outcome, timedOut>>

-----------------------------------------------------------------------------
(* Channel Access and the put callback.                                    *)

\* The server answers.  The callback does not look at args.status.
Answer(p, ok) ==
  /\ cb[p] = "pending" /\ (ok => p \in up)
  /\ outcome' = [outcome EXCEPT ![p] = IF ok THEN "ok" ELSE "failed"]
  /\ completed' = completed + 1
  /\ cb' = [cb EXCEPT ![p] = "counted"]
  /\ UNCHANGED <<wait, up, pc, i, caStatus, refs, totalWrites, ctx, timedOut, status>>

\* fetch_sub of the callback; the last user deletes.
CallbackRelease(p) ==
  /\ cb[p] = "counted"
  /\ refs' = refs - 1
  /\ ctx' = IF refs = 1 THEN "freed" ELSE ctx
  /\ cb' = [cb EXCEPT ![p] = "done"]
  /\ UNCHANGED <<wait, up, pc, i, caStatus, completed, totalWrites, outcome, timedOut, status>>

Disconnect(p) ==
  /\ p \in up
  /\ up' = up \ {p}
  /\ UNCHANGED <<wait, pc, i, caStatus, refs, completed, totalWrites, ctx, cb, outcome, timedOut, status>>

Reconnect(p) ==
  /\ p \notin up
  /\ up' = up \cup {p}
  /\ UNCHANGED <<wait, pc, i, caStatus, refs, completed, totalWrites, ctx, cb, outcome, timedOut, status>>

\* Another VI's disconnectPVs or unreserved clears the channel.
ClearChannel(p) ==
  /\ MayClear
  /\ cb[p] = "pending"
  /\ cb' = [cb EXCEPT ![p] = "dropped"]
  /\ UNCHANGED <<wait, up, pc, i, caStatus, refs, completed, totalWrites, ctx, outcome, timedOut, status>>

-----------------------------------------------------------------------------
(* The wait and the end of the call.                                       *)

AllCompleted ==
  /\ pc = "wait" /\ completed >= totalWrites
  /\ pc' = "release"
  /\ UNCHANGED <<wait, up, i, caStatus, refs, completed, totalWrites, ctx, cb, outcome, timedOut, status>>

\* Mutant: the end of the wait is taken for success.
DeadlineIgnored ==
  /\ pc = "wait" /\ totalWrites > 0
  /\ pc' = "release"
  /\ UNCHANGED <<wait, up, i, caStatus, refs, completed, totalWrites, ctx, cb, outcome, timedOut, status>>

\* The deadline; the count is read once more after the loop.
Deadline ==
  /\ pc = "wait" /\ totalWrites > 0
  /\ timedOut' = (completed < totalWrites)
  /\ pc' = "release"
  /\ UNCHANGED <<wait, up, i, caStatus, refs, completed, totalWrites, ctx, cb, outcome, status>>

\* Mutant: only callbacks delete the context.
CallerReleaseOnly ==
  /\ pc = "release"
  /\ refs' = refs - 1
  /\ pc' = "final"
  /\ UNCHANGED <<wait, up, i, caStatus, completed, totalWrites, ctx, cb, outcome, timedOut, status>>

CallerRelease ==
  /\ pc = "release"
  /\ refs' = refs - 1
  /\ ctx' = IF refs = 1 THEN "freed" ELSE ctx
  /\ pc' = "final"
  /\ UNCHANGED <<wait, up, i, caStatus, completed, totalWrites, cb, outcome, timedOut, status>>

Failures == {p \in PVs : caStatus[p] # "normal"}

\* Mutant: the status stays that of the last PV that was written.
FinalizeLast ==
  /\ pc = "final"
  /\ status' = (status \/ timedOut)
  /\ pc' = "end"
  /\ UNCHANGED <<wait, up, i, caStatus, refs, completed, totalWrites, ctx, cb, outcome, timedOut>>

Finalize ==
  /\ pc = "final"
  /\ status' = (status \/ Failures # {} \/ timedOut)
  /\ pc' = "end"
  /\ UNCHANGED <<wait, up, i, caStatus, refs, completed, totalWrites, ctx, cb, outcome, timedOut>>

-----------------------------------------------------------------------------
CallerStep ==
  \/ SkipPv \/ StartPut \/ PutDisconnected \/ PutAccepted \/ PutRefused
  \/ \E sets \in BOOLEAN : RejectValue(sets)
  \/ AllCompleted \/ Deadline \/ CallerRelease \/ Finalize

CallbackStep(p) == CallbackRelease(p) \/ \E ok \in BOOLEAN : Answer(p, ok)

Next ==
  \/ CallerStep
  \/ \E p \in PVs : CallbackStep(p) \/ Disconnect(p) \/ Reconnect(p) \/ ClearChannel(p)

Spec == Init /\ [][Next]_vars

\* The caller's loop ends by its deadline; Channel Access answers in the end.
FairSpec == Spec /\ WF_vars(CallerStep) /\ \A p \in PVs : WF_vars(CallbackStep(p))

-----------------------------------------------------------------------------
(* Properties.                                                             *)

\* The types of the state.
TypeOK ==
  /\ wait \in BOOLEAN /\ up \subseteq PVs
  /\ pc \in {"write", "put", "wait", "release", "final", "end"} /\ i \in 1 .. N + 1
  /\ caStatus \in [PVs -> {"normal", "failed"}]
  /\ refs \in Nat /\ completed \in Nat /\ totalWrites \in Nat
  /\ ctx \in {"none", "alive", "freed"}
  /\ cb \in [PVs -> {"none", "pending", "counted", "done", "dropped"}]
  /\ outcome \in [PVs -> {"unsent", "sent", "ok", "failed"}]
  /\ timedOut \in BOOLEAN /\ status \in BOOLEAN

CallerHolds == wait /\ pc \in {"write", "put", "wait", "release"}
\* The callbacks that hold a reference, a dropped one for ever.
Holding == {p \in PVs : cb[p] \in {"pending", "counted", "dropped"}}

\* Whoever may still touch the PutCtx finds it alive: the caller until it releases
\* it, and each callback until it has released its own reference, however late.
CtxAliveWhileUsed ==
  CallerHolds \/ Holding # {} => ctx = "alive"

\* refs is the number of users, and the context is freed with the last of them.
RefsAreUsers ==
  /\ refs = Cardinality(Holding) + (IF CallerHolds THEN 1 ELSE 0)
            + (IF wait /\ pc = "put" THEN 1 ELSE 0)
  /\ ctx = "alive" <=> refs > 0

\* A call that waited and reports no failure has sent every write, and every
\* callback has come: a timeout is never taken for a completion.
SuccessIsConfirmed ==
  pc = "end" /\ wait /\ ~status => \A p \in PVs : cb[p] \in {"counted", "done"}

\* CommunicationStatus is overwritten for every PV, yet in the end it is not lost
\* that an earlier PV failed.
FailureIsReported ==
  pc = "end" /\ ~status => Failures = {} /\ \A p \in PVs : outcome[p] # "unsent"

\* The context is freed in the end when channels are not cleared.
CtxReclaimed == wait ~> (ctx = "freed" \/ \E p \in PVs : cb[p] = "dropped")

-----------------------------------------------------------------------------
(* Expectations that the code does not meet: see the README, Deviations.   *)

\* calab.h: wait4readback confirms completion, Status is "Aggregate success (false
\* when any PV fails)": a call that reports success has no write that failed.
SuccessMeansWritten ==
  pc = "end" /\ wait /\ ~status => \A p \in PVs : outcome[p] = "ok"
=============================================================================
