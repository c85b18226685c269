--------------------------- MODULE PutValueProofs ---------------------------
(***************************************************************************)
(* Theorems about putValue, for every number of PVs: its completion and    *)
(* status (PutCompletion), and what it writes to each PV (PutData), for    *)
(* arrays and integer types of every size.                                 *)
(***************************************************************************)
EXTENDS PutCompletion, PutData, FiniteSetTheorems, TLAPS

-----------------------------------------------------------------------------
(* Completion and status.                                                  *)

\* The callbacks that have come, and those that were asked for.
Came  == {p \in PVs : cb[p] \in {"counted", "done"}}
Asked == {p \in PVs : cb[p] # "none"}

Passed(p) == pc \notin {"write", "put"} \/ p < i

Shape ==
  /\ pc \in {"write", "put"} => i \in PVs
  /\ \A p \in PVs : ~Passed(p) => cb[p] = "none"
  /\ \A p \in PVs : Passed(p) /\ wait => cb[p] # "none" \/ caStatus[p] = "failed"
  /\ ~wait => refs = 0 /\ ctx = "none" /\ pc \notin {"wait", "release"}
              /\ \A p \in PVs : cb[p] = "none"
  /\ wait => ctx # "none"

Counts ==
  /\ completed = Cardinality(Came)
  /\ totalWrites = Cardinality(Asked)
  /\ RefsAreUsers

Verdict ==
  /\ pc \in {"release", "final", "end"} /\ wait /\ ~timedOut => completed >= totalWrites
  /\ pc = "end" /\ ~status => Failures = {} /\ ~timedOut

PutInv == TypeOK /\ Shape /\ Counts /\ Verdict

\* The sets of callbacks can be counted.
LEMMA SetsFinite ==
  /\ IsFiniteSet(Came) /\ IsFiniteSet(Asked) /\ IsFiniteSet(Holding)
  /\ Cardinality(Came) \in Nat /\ Cardinality(Asked) \in Nat /\ Cardinality(Holding) \in Nat
<1>1. IsFiniteSet(PVs)
  BY PutAssumption, FS_Interval DEF PVs
<1>2. Came \subseteq PVs /\ Asked \subseteq PVs /\ Holding \subseteq PVs
  BY DEF Came, Asked, Holding
<1> QED
  BY <1>1, <1>2, FS_Subset, FS_CardinalityType

\* putValue starts with one reference, its own, and no write.
LEMMA PutInit == Init => PutInv
<1> SUFFICES ASSUME Init PROVE PutInv
  OBVIOUS
<1> USE PutAssumption DEF Init, PVs
<1>1. Came = {} /\ Asked = {} /\ Holding = {}
  BY DEF Came, Asked, Holding
<1>2. TypeOK
  <2>1. refs \in Nat /\ ctx \in {"none", "alive", "freed"}
    <3>1. CASE wait
      BY <3>1
    <3>2. CASE ~wait
      BY <3>2
    <3> QED
      BY <3>1, <3>2
  <2>2. i \in 1 .. N + 1 /\ completed \in Nat /\ totalWrites \in Nat
    OBVIOUS
  <2>3. /\ caStatus \in [PVs -> {"normal", "failed"}]
        /\ cb \in [PVs -> {"none", "pending", "counted", "done", "dropped"}]
        /\ outcome \in [PVs -> {"unsent", "sent", "ok", "failed"}]
    OBVIOUS
  <2>4. wait \in BOOLEAN /\ up \subseteq PVs /\ timedOut \in BOOLEAN /\ status \in BOOLEAN
    BY Zenon
  <2> QED
    BY <2>1, <2>2, <2>3, <2>4 DEF TypeOK
<1>3. Shape
  BY DEF Shape, Passed
<1>4. Counts
  BY <1>1, FS_EmptySet DEF Counts, RefsAreUsers, CallerHolds
<1>5. Verdict
  BY DEF Verdict
<1> QED
  BY <1>2, <1>3, <1>4, <1>5 DEF PutInv

\* Steps that leave the callbacks alone.
LEMMA SameSets ==
  ASSUME cb' = cb
  PROVE  Came' = Came /\ Asked' = Asked /\ Holding' = Holding
BY DEF Came, Asked, Holding

\* Every step of the call and of its callbacks keeps the counts of the context.
LEMMA PutNext == PutInv /\ [Next]_vars => PutInv'
<1> SUFFICES ASSUME PutInv, [Next]_vars PROVE PutInv'
  OBVIOUS
<1> USE PutAssumption DEF PVs
<1>1. ASSUME SkipPv \/ PutDisconnected \/ \E sets \in BOOLEAN : RejectValue(sets) PROVE PutInv'
  <2>0. /\ pc = "write" /\ NextPv /\ cb' = cb
        /\ caStatus' = [caStatus EXCEPT ![i] = "failed"]
        /\ UNCHANGED <<wait, up, refs, completed, totalWrites, ctx, outcome, timedOut>>
        /\ status' \in BOOLEAN
    BY <1>1 DEF SkipPv, PutDisconnected, RejectValue, PutInv, TypeOK
  <2>1. Came' = Came /\ Asked' = Asked /\ Holding' = Holding
    BY <2>0, SameSets
  <2>2. TypeOK'
    BY <2>0 DEF NextPv, PutInv, TypeOK, Shape
  <2>3. Shape'
    BY <2>0 DEF NextPv, PutInv, TypeOK, Shape, Passed
  <2>4. Counts'
    BY <2>0, <2>1 DEF NextPv, PutInv, Shape, Counts, RefsAreUsers, CallerHolds
  <2>5. Verdict'
    BY <2>0 DEF NextPv, Verdict, PutInv, Shape
  <2> QED
    BY <2>2, <2>3, <2>4, <2>5 DEF PutInv
<1>2. ASSUME StartPut PROVE PutInv'
  <2>1. Came' = Came /\ Asked' = Asked /\ Holding' = Holding
    BY <1>2, SameSets DEF StartPut
  <2>2. TypeOK'
    BY <1>2 DEF StartPut, PutInv, TypeOK
  <2>3. Shape'
    BY <1>2 DEF StartPut, PutInv, TypeOK, Shape, Passed
  <2>4. Counts'
    BY <1>2, <2>1, SetsFinite
    DEF StartPut, PutInv, TypeOK, Shape, Counts, RefsAreUsers, CallerHolds
  <2>5. Verdict'
    BY <1>2 DEF StartPut, Verdict
  <2> QED
    BY <2>2, <2>3, <2>4, <2>5 DEF PutInv
<1>3. ASSUME PutAccepted PROVE PutInv'
  <2> USE DEF PutAccepted, NextPv
  <2>1. TypeOK'
    <3>1. i' \in 1 .. N + 1 /\ totalWrites' \in Nat
      BY <1>3 DEF PutInv, TypeOK, Shape
    <3>2. pc' \in {"write", "wait", "final"}
      BY <1>3
    <3>3. cb' \in [PVs -> {"none", "pending", "counted", "done", "dropped"}]
      BY <1>3 DEF PutInv, TypeOK
    <3>4. outcome' \in [PVs -> {"unsent", "sent", "ok", "failed"}]
      BY <1>3 DEF PutInv, TypeOK
    <3>5. status' \in BOOLEAN /\ timedOut' \in BOOLEAN /\ wait' \in BOOLEAN
      BY <1>3 DEF PutInv, TypeOK
    <3>6. UNCHANGED <<up, caStatus, refs, completed, ctx>>
      BY <1>3
    <3> QED
      BY <3>1, <3>2, <3>3, <3>4, <3>5, <3>6 DEF PutInv, TypeOK
  <2>2. Shape'
    BY <1>3 DEF PutInv, TypeOK, Shape, Passed
  <2>3. ASSUME wait PROVE Counts'
    <3>1. /\ Came' = Came /\ i \in PVs
          /\ i \notin Asked /\ Asked' = Asked \cup {i}
          /\ i \notin Holding /\ Holding' = Holding \cup {i}
      BY <1>3, <2>3 DEF PutInv, TypeOK, Shape, Passed, Came, Asked, Holding
    <3>2. Cardinality(Asked') = Cardinality(Asked) + 1
      BY <3>1, SetsFinite, FS_AddElement
    <3>3. Cardinality(Holding') = Cardinality(Holding) + 1
      BY <3>1, SetsFinite, FS_AddElement
    <3>4. completed' = Cardinality(Came') /\ totalWrites' = Cardinality(Asked')
      BY <1>3, <2>3, <3>1, <3>2 DEF PutInv, Counts
    <3>5. RefsAreUsers'
      <4>1. refs = Cardinality(Holding) + 2 /\ (ctx = "alive" <=> refs > 0)
        BY <1>3, <2>3, SetsFinite DEF PutInv, Counts, RefsAreUsers, CallerHolds
      <4>2. pc' \in {"write", "wait"} /\ wait' /\ refs' = refs /\ ctx' = ctx
        BY <1>3, <2>3
      <4> QED
        BY <3>3, <4>1, <4>2, SetsFinite DEF RefsAreUsers, CallerHolds
    <3> QED
      BY <3>4, <3>5 DEF Counts
  <2>4. ASSUME ~wait PROVE Counts'
    <3>1. Came' = Came /\ Asked' = Asked /\ Holding' = Holding
      BY <1>3, <2>4, SameSets
    <3>2. wait' = wait /\ refs' = refs /\ ctx' = ctx
      BY <1>3
    <3> QED
      BY <1>3, <2>4, <3>1, <3>2 DEF PutInv, Shape, Counts, RefsAreUsers, CallerHolds
  <2>5. Verdict'
    BY <1>3 DEF Verdict
  <2> QED
    BY <2>1, <2>2, <2>3, <2>4, <2>5 DEF PutInv
<1>4. ASSUME PutRefused PROVE PutInv'
  <2> USE DEF PutRefused, NextPv
  <2>1. Came' = Came /\ Asked' = Asked /\ Holding' = Holding
    BY <1>4, SameSets
  <2>2. Counts'
    <3>1. completed = Cardinality(Came) /\ totalWrites = Cardinality(Asked) /\ refs \in Nat
      BY DEF PutInv, TypeOK, Counts
    <3> QED
      BY <1>4, <2>1, <3>1, SetsFinite DEF PutInv, Shape, Counts, RefsAreUsers, CallerHolds
  <2>3. TypeOK'
    BY <1>4, SetsFinite, SMTT(20) DEF PutInv, TypeOK, Shape, Counts, RefsAreUsers, CallerHolds
  <2>4. Shape'
    BY <1>4 DEF PutInv, TypeOK, Shape, Passed
  <2>5. Verdict'
    BY <1>4 DEF Verdict
  <2> QED
    BY <2>2, <2>3, <2>4, <2>5 DEF PutInv
<1>5. ASSUME NEW p \in PVs, NEW ok \in BOOLEAN, Answer(p, ok) PROVE PutInv'
  <2> USE DEF Answer
  <2>1. /\ p \notin Came /\ Came' = Came \cup {p}
        /\ Asked' = Asked /\ Holding' = Holding
    BY <1>5 DEF PutInv, TypeOK, Came, Asked, Holding
  <2>2. Cardinality(Came') = Cardinality(Came) + 1
    BY <2>1, SetsFinite, FS_AddElement
  <2>3. TypeOK'
    BY <1>5 DEF PutInv, TypeOK
  <2>4. Shape'
    BY <1>5 DEF PutInv, TypeOK, Shape, Passed
  <2>5. Counts'
    BY <1>5, <2>1, <2>2 DEF PutInv, Counts, RefsAreUsers, CallerHolds
  <2>6. Verdict'
    BY <1>5 DEF PutInv, TypeOK, Verdict, Failures
  <2> QED
    BY <2>3, <2>4, <2>5, <2>6 DEF PutInv
<1>6. ASSUME NEW p \in PVs, CallbackRelease(p) PROVE PutInv'
  <2> USE DEF CallbackRelease
  <2>1. /\ p \in Holding /\ Holding' = Holding \ {p}
        /\ Came' = Came /\ Asked' = Asked
    BY <1>6 DEF PutInv, TypeOK, Came, Asked, Holding
  <2>2. Cardinality(Holding') = Cardinality(Holding) - 1 /\ Cardinality(Holding) # 0
    BY <2>1, SetsFinite, FS_RemoveElement, FS_EmptySet
  <2>3. refs >= 1 /\ wait
    BY <1>6, <2>2, SetsFinite DEF PutInv, Counts, RefsAreUsers, Shape
  <2>4. TypeOK'
    BY <1>6, <2>3 DEF PutInv, TypeOK
  <2>5. Shape'
    BY <1>6, <2>3 DEF PutInv, TypeOK, Shape, Passed
  <2>6. Counts'
    BY <1>6, <2>1, <2>2, <2>3, SetsFinite DEF PutInv, TypeOK, Counts, RefsAreUsers, CallerHolds
  <2>7. Verdict'
    BY <1>6 DEF PutInv, Verdict, Failures
  <2> QED
    BY <2>4, <2>5, <2>6, <2>7 DEF PutInv
<1>7. ASSUME NEW p \in PVs, Disconnect(p) \/ Reconnect(p) PROVE PutInv'
  <2>0. up' \subseteq PVs /\ cb' = cb
        /\ UNCHANGED <<wait, pc, i, caStatus, refs, completed, totalWrites, ctx, outcome, timedOut, status>>
    BY <1>7 DEF Disconnect, Reconnect, PutInv, TypeOK
  <2>1. Came' = Came /\ Asked' = Asked /\ Holding' = Holding
    BY <2>0, SameSets
  <2> QED
    BY <2>0, <2>1 DEF PutInv, TypeOK, Shape, Passed, Counts, RefsAreUsers, CallerHolds, Verdict, Failures
<1>8. ASSUME NEW p \in PVs, ClearChannel(p) PROVE PutInv'
  <2> USE DEF ClearChannel
  <2>1. Came' = Came /\ Asked' = Asked /\ Holding' = Holding
    BY <1>8 DEF PutInv, TypeOK, Came, Asked, Holding
  <2>2. TypeOK' /\ Shape'
    BY <1>8 DEF PutInv, TypeOK, Shape, Passed
  <2> QED
    BY <1>8, <2>1, <2>2 DEF PutInv, Counts, RefsAreUsers, CallerHolds, Verdict, Failures
<1>9. ASSUME AllCompleted \/ Deadline PROVE PutInv'
  <2>0. /\ pc = "wait" /\ pc' = "release" /\ cb' = cb
        /\ timedOut' \in BOOLEAN /\ (~timedOut' => completed >= totalWrites)
        /\ UNCHANGED <<wait, up, i, caStatus, refs, completed, totalWrites, ctx, outcome, status>>
    <3>1. CASE AllCompleted
      BY <3>1 DEF AllCompleted, PutInv, TypeOK
    <3>2. CASE Deadline
      <4>1. completed \in Nat /\ totalWrites \in Nat
        BY DEF PutInv, TypeOK
      <4>0. timedOut' = (completed < totalWrites)
        BY <3>2 DEF Deadline
      <4>2. timedOut' \in BOOLEAN
        <5>1. (completed < totalWrites) \in BOOLEAN
          BY <4>1, SMT
        <5> QED
          BY <4>0, <5>1, Zenon
      <4>3. (completed >= totalWrites) <=> ~(completed < totalWrites)
        BY <4>1
      <4>4. ~timedOut' => completed >= totalWrites
        BY <3>2, <4>3, Zenon DEF Deadline
      <4> QED
        BY <3>2, <4>2, <4>4 DEF Deadline
    <3> QED
      BY <1>9, <3>1, <3>2
  <2>1. Came' = Came /\ Asked' = Asked /\ Holding' = Holding
    BY <2>0, SameSets
  <2>2. TypeOK' /\ Shape'
    BY <2>0 DEF PutInv, TypeOK, Shape, Passed
  <2>3. Counts'
    BY <2>0, <2>1 DEF PutInv, Counts, RefsAreUsers, CallerHolds
  <2>4. Verdict'
    BY <2>0 DEF Verdict
  <2> QED
    BY <2>2, <2>3, <2>4 DEF PutInv
<1>10. ASSUME CallerRelease PROVE PutInv'
  <2> USE DEF CallerRelease
  <2>1. Came' = Came /\ Asked' = Asked /\ Holding' = Holding
    BY <1>10, SameSets
  <2>2. wait /\ refs >= 1
    BY <1>10, SetsFinite DEF PutInv, Shape, Counts, RefsAreUsers, CallerHolds
  <2>3. TypeOK' /\ Shape'
    BY <1>10, <2>2 DEF PutInv, TypeOK, Shape, Passed
  <2>4. Counts'
    BY <1>10, <2>1, <2>2, SetsFinite DEF PutInv, TypeOK, Counts, RefsAreUsers, CallerHolds
  <2>5. Verdict'
    BY <1>10 DEF PutInv, Verdict
  <2> QED
    BY <2>3, <2>4, <2>5 DEF PutInv
<1>11. ASSUME Finalize PROVE PutInv'
  <2> USE DEF Finalize
  <2>1. Came' = Came /\ Asked' = Asked /\ Holding' = Holding
    BY <1>11, SameSets
  <2>2. TypeOK' /\ Shape'
    BY <1>11 DEF PutInv, TypeOK, Shape, Passed
  <2>3. Verdict'
    BY <1>11 DEF PutInv, Verdict, Failures
  <2> QED
    BY <1>11, <2>1, <2>2, <2>3 DEF PutInv, Counts, RefsAreUsers, CallerHolds
<1>12. CASE UNCHANGED vars
  <2>1. Came' = Came /\ Asked' = Asked /\ Holding' = Holding
    BY <1>12, SameSets DEF vars
  <2> QED
    BY <1>12, <2>1
    DEF vars, PutInv, TypeOK, Shape, Passed, Counts, RefsAreUsers, CallerHolds, Verdict, Failures
<1> QED
  BY <1>1, <1>2, <1>3, <1>4, <1>5, <1>6, <1>7, <1>8, <1>9, <1>10, <1>11, <1>12
  DEF Next, CallerStep, CallbackStep

\* For every number of PVs the reference count of the context is the number of its
\* users: no callback, however late, finds it freed, and the last user frees it.
THEOREM ContextCounted == Spec => []RefsAreUsers
<1>1. PutInv => RefsAreUsers
  BY DEF PutInv, Counts
<1> QED
  BY <1>1, PutInit, PutNext, PTL DEF Spec

\* Caller and callbacks touch the context only while it is alive.
THEOREM ContextAlive == Spec => []CtxAliveWhileUsed
<1>1. PutInv => CtxAliveWhileUsed
  <2> SUFFICES ASSUME PutInv, CallerHolds \/ Holding # {} PROVE ctx = "alive"
    BY DEF CtxAliveWhileUsed
  <2>1. Holding # {} => Cardinality(Holding) # 0
    BY SetsFinite, FS_EmptySet
  <2>2. refs > 0
    BY <2>1, SetsFinite DEF PutInv, Counts, RefsAreUsers
  <2> QED
    BY <2>2 DEF PutInv, Counts, RefsAreUsers
<1> QED
  BY <1>1, PutInit, PutNext, PTL DEF Spec

\* A call with wait4readback that reports no failure has had every callback.
THEOREM SuccessConfirmed == Spec => []SuccessIsConfirmed
<1>1. PutInv => SuccessIsConfirmed
  <2> SUFFICES ASSUME PutInv, pc = "end", wait, ~status, NEW p \in PVs
               PROVE  cb[p] \in {"counted", "done"}
    BY DEF SuccessIsConfirmed
  <2>1. Failures = {} /\ completed >= totalWrites
    BY DEF PutInv, Verdict
  <2>2. p \in Asked
    BY <2>1 DEF PutInv, Shape, Passed, Failures, Asked
  <2>3. Came \subseteq Asked
    BY DEF Came, Asked
  <2>4. Cardinality(Came) <= Cardinality(Asked) /\ (Cardinality(Came) = Cardinality(Asked) => Came = Asked)
    BY <2>3, SetsFinite, FS_Subset
  <2>5. Came = Asked
    BY <2>1, <2>4, SetsFinite DEF PutInv, Counts
  <2> QED
    BY <2>2, <2>5 DEF Came
<1> QED
  BY <1>1, PutInit, PutNext, PTL DEF Spec

-----------------------------------------------------------------------------
\* A PV the loop has passed was written, or its failure is recorded.
SentOrFailed == \A p \in PVs : Passed(p) => outcome[p] # "unsent" \/ caStatus[p] = "failed"

\* The step of the loop from one PV to the next, whatever became of the PV.
LEMMA SentAtNextPv ==
  ASSUME PutInv, SentOrFailed, pc \in {"write", "put"}, NextPv,
         \/ /\ caStatus' = [caStatus EXCEPT ![i] = "failed"] /\ outcome' = outcome
         \/ /\ outcome' = [outcome EXCEPT ![i] = "sent"] /\ caStatus' = caStatus
  PROVE  SentOrFailed'
<1> SUFFICES ASSUME NEW p \in PVs, Passed(p)'
             PROVE  outcome'[p] # "unsent" \/ caStatus'[p] = "failed"
  BY DEF SentOrFailed, PVs
<1>1. i \in PVs /\ (p = i \/ Passed(p))
  BY PutAssumption DEF PVs, PutInv, TypeOK, Shape, Passed, NextPv
<1>2. outcome[p] \in {"unsent", "sent", "ok", "failed"} /\ p \in DOMAIN outcome /\ p \in DOMAIN caStatus
  BY DEF PutInv, TypeOK
<1> QED
  BY <1>1, <1>2 DEF SentOrFailed

\* Neither an answer nor the end of the call undoes a write or a failure.
LEMMA SentNext == PutInv /\ SentOrFailed /\ [Next]_vars => SentOrFailed'
<1> SUFFICES ASSUME PutInv, SentOrFailed, [Next]_vars PROVE SentOrFailed'
  OBVIOUS
<1>1. CASE SkipPv \/ PutDisconnected \/ PutRefused \/ \E sets \in BOOLEAN : RejectValue(sets)
  BY <1>1, SentAtNextPv DEF SkipPv, PutDisconnected, PutRefused, RejectValue
<1>2. CASE PutAccepted
  BY <1>2, SentAtNextPv DEF PutAccepted
<1>3. CASE StartPut
  BY <1>3 DEF StartPut, SentOrFailed, Passed, PVs
<1>4. ASSUME NEW p \in PVs, NEW ok \in BOOLEAN, Answer(p, ok) PROVE SentOrFailed'
  BY <1>4 DEF Answer, SentOrFailed, Passed, PVs, PutInv, TypeOK
<1>5. ASSUME NEW p \in PVs, CallbackRelease(p) \/ Disconnect(p) \/ Reconnect(p) \/ ClearChannel(p)
      PROVE  SentOrFailed'
  BY <1>5 DEF CallbackRelease, Disconnect, Reconnect, ClearChannel, SentOrFailed, Passed, PVs
<1>6. CASE AllCompleted \/ Deadline \/ CallerRelease \/ Finalize
  BY <1>6 DEF AllCompleted, Deadline, CallerRelease, Finalize, SentOrFailed, Passed, PVs
<1>7. CASE UNCHANGED vars
  BY <1>7 DEF vars, SentOrFailed, Passed, PVs
<1> QED
  BY <1>1, <1>2, <1>3, <1>4, <1>5, <1>6, <1>7 DEF Next, CallerStep, CallbackStep

\* CommunicationStatus is overwritten for every PV, yet no failure is lost: a call
\* that reports none has sent the write of every PV.
THEOREM FailureReported == Spec => []FailureIsReported
<1>1. Init => SentOrFailed
  BY PutAssumption DEF Init, SentOrFailed, Passed, PVs
<1>2. PutInv /\ SentOrFailed => FailureIsReported
  BY DEF PutInv, Verdict, SentOrFailed, Passed, Failures, FailureIsReported
<1> QED
  BY <1>1, <1>2, PutInit, PutNext, SentNext, PTL DEF Spec

-----------------------------------------------------------------------------
(* The data.                                                               *)

Layout == rows = 0 \/ rows = names \/ rows = 1

InputInv ==
  /\ names \in Nat \ {0} /\ rows \in Nat /\ cols \in Nat
  /\ (step = "check" => pvIndex = 0)
  /\ pvIndex \in Nat /\ (step \in {"write", "sent"} => pvIndex < names /\ Layout)

\* What the write of PV pvIndex was made of.
WriteInv ==
  Put =>
    /\ step = "sent" /\ put.pv = pvIndex
    /\ put.start = startIndex(pvIndex)
    /\ put.native # "bytes" =>
         /\ put.capacity \in Nat
         /\ put.count = nToWrite(pvIndex, put.capacity)
         /\ put.native \in Natives /\ put.raw \in Int
         /\ put.value \in Written(put.native, put.raw)
    /\ put.native = "bytes" => put.count = 1

\* Before the first PV nothing is written.
LEMMA WriteInit == DataInit => InputInv /\ WriteInv
<1> SUFFICES ASSUME DataInit PROVE InputInv /\ WriteInv
  OBVIOUS
<1>1. names \in Nat \ {0} /\ rows \in Nat /\ cols \in Nat
  BY BoundsAssumption DEF DataInit
<1>2. pvIndex = 0 /\ step = "check" /\ ~Put
  BY DEF DataInit, Put
<1> QED
  BY <1>1, <1>2 DEF InputInv, WriteInv

\* Each write keeps to the array, the capacity and the values of the types.
LEMMA WriteNext == InputInv /\ WriteInv /\ [DataNext]_dataVars => (InputInv /\ WriteInv)'
<1> SUFFICES ASSUME InputInv, WriteInv, [DataNext]_dataVars PROVE (InputInv /\ WriteInv)'
  OBVIOUS
<1>1. CASE CheckRows
  <2>1. ~Put /\ put' = put
    BY <1>1 DEF CheckRows, WriteInv
  <2>2. WriteInv'
    BY <2>1 DEF WriteInv, Put
  <2>3. InputInv'
    <3>1. UNCHANGED <<names, rows, cols, pvIndex>> /\ step' \notin {"sent", "check"}
      BY <1>1 DEF CheckRows
    <3>2. step' = "write" => Layout
      BY <1>1 DEF CheckRows, Layout
    <3>3. pvIndex < names
      BY <1>1 DEF CheckRows, InputInv
    <3> QED
      BY <3>1, <3>2, <3>3 DEF InputInv, Layout
  <2> QED
    BY <2>2, <2>3
<1>2. CASE NextValue
  BY <1>2 DEF NextValue, InputInv, WriteInv, Put, Layout
<1>3. ASSUME NEW capacity \in Capacities, NEW native \in Natives, NEW raw \in Values,
             WritePv(native, capacity, raw)
      PROVE  (InputInv /\ WriteInv)'
  <2>1. capacity \in Nat /\ raw \in Int /\ native # "bytes"
    BY BoundsAssumption DEF Natives
  <2>2. InputInv'
    BY <1>3 DEF WritePv, InputInv, Layout
  <2>3. UNCHANGED <<names, rows, cols, source, pvIndex>> /\ step' = "sent"
    BY <1>3 DEF WritePv
  <2>4. PICK value \in Written(native, raw) :
          put' = [pv |-> pvIndex, start |-> startIndex(pvIndex), count |-> nToWrite(pvIndex, capacity),
                  capacity |-> capacity, native |-> native, raw |-> raw, value |-> value]
    BY <1>3 DEF WritePv
  <2>5. /\ startIndex(pvIndex)' = startIndex(pvIndex) /\ nToWrite(pvIndex, capacity)' = nToWrite(pvIndex, capacity)
        /\ Written(native, raw)' = Written(native, raw)
    BY <2>3 DEF startIndex, nToWrite, availableCount, width, Written, Convert, Element, isInteger, decodeSigned
  <2>6. /\ put'.pv = pvIndex /\ put'.start = startIndex(pvIndex) /\ put'.capacity = capacity
        /\ put'.count = nToWrite(pvIndex, capacity) /\ put'.native = native /\ put'.raw = raw
        /\ put'.value \in Written(native, raw)
    BY <2>4
  <2>7. WriteInv'
    BY <2>1, <2>3, <2>5, <2>6 DEF WriteInv
  <2> QED
    BY <2>2, <2>7
<1>4. ASSUME NEW capacity \in Capacities, NEW length \in 0 .. MaxCols, WriteBytes(length, capacity)
      PROVE  (InputInv /\ WriteInv)'
  <2>1. InputInv'
    BY <1>4 DEF WriteBytes, InputInv, Layout
  <2>2. UNCHANGED <<names, rows, cols, source, pvIndex>> /\ step' = "sent"
    BY <1>4 DEF WriteBytes
  <2>3. put'.pv = pvIndex /\ put'.start = startIndex(pvIndex) /\ put'.native = "bytes" /\ put'.count = 1
    BY <1>4 DEF WriteBytes
  <2>4. startIndex(pvIndex)' = startIndex(pvIndex)
    BY <2>2 DEF startIndex, width
  <2>5. WriteInv'
    BY <2>2, <2>3, <2>4 DEF WriteInv
  <2> QED
    BY <2>1, <2>5
<1>5. CASE UNCHANGED dataVars
  <2>1. UNCHANGED <<names, rows, cols, source, step, pvIndex, put>>
    BY <1>5 DEF dataVars
  <2>2. \A native, raw : Written(native, raw)' = Written(native, raw)
    BY <2>1 DEF Written, Convert, Element, isInteger, decodeSigned
  <2>3. /\ startIndex(pvIndex)' = startIndex(pvIndex)
        /\ \A capacity : nToWrite(pvIndex, capacity)' = nToWrite(pvIndex, capacity)
    BY <2>1 DEF startIndex, nToWrite, availableCount, width
  <2>4. InputInv'
    BY <2>1 DEF InputInv, Layout
  <2>5. WriteInv'
    BY <2>1, <2>2, <2>3 DEF WriteInv, Put
  <2> QED
    BY <2>4, <2>5
<1> QED
  BY <1>1, <1>2, <1>3, <1>4, <1>5 DEF DataNext

\* The arithmetic of the layouts: a part of the array lies inside it.
LEMMA PartInside ==
  ASSUME InputInv, Layout, NotEmpty, pvIndex < names
  PROVE  /\ startIndex(pvIndex) \in Nat /\ availableCount(pvIndex) \in Nat \ {0}
         /\ startIndex(pvIndex) + availableCount(pvIndex) <= rows * cols
<1> USE DEF InputInv, NotEmpty
<1>1. width = cols /\ cols \in Nat \ {0} /\ rows \in Nat \ {0}
  BY DEF width
<1>2. CASE rows = names
  <2>1. startIndex(pvIndex) = pvIndex * cols /\ availableCount(pvIndex) = cols
    BY <1>1, <1>2 DEF startIndex, availableCount
  <2>2. pvIndex * cols + cols = (pvIndex + 1) * cols
    BY <1>1
  <2>3. (pvIndex + 1) * cols <= rows * cols
    <3>1. PICK k \in Nat : rows = (pvIndex + 1) + k
      <4>1. rows - (pvIndex + 1) \in Nat /\ rows = (pvIndex + 1) + (rows - (pvIndex + 1))
        BY <1>2
      <4> QED
        BY <4>1
    <3>2. rows * cols = (pvIndex + 1) * cols + k * cols
      BY <1>1, <3>1
    <3>3. k * cols \in Nat
      BY <1>1, <3>1
    <3> QED
      BY <1>1, <3>2, <3>3
  <2>4. pvIndex * cols \in Nat
    BY <1>1
  <2> QED
    BY <1>1, <2>1, <2>2, <2>3, <2>4
<1>3. CASE rows # names
  <2>1. rows = 1 /\ rows * cols = cols
    BY <1>1, <1>3 DEF Layout
  <2>2. startIndex(pvIndex) \in {0, pvIndex} /\ availableCount(pvIndex) \in {1, cols}
    BY <1>1, <1>3 DEF startIndex, availableCount
  <2>3. startIndex(pvIndex) = pvIndex /\ pvIndex # 0 => availableCount(pvIndex) = 1 /\ cols = names
    BY <1>1, <1>3 DEF startIndex, availableCount
  <2> QED
    BY <1>1, <2>1, <2>2, <2>3
<1> QED
  BY <1>2, <1>3

\* Every write of a non-empty array stays inside it.
THEOREM WritesInBounds == DataSpec => []InBounds
<1>1. InputInv /\ WriteInv => InBounds
  <2> SUFFICES ASSUME InputInv, WriteInv, Put, NotEmpty
               PROVE  put.start + put.count <= rows * cols
    BY DEF InBounds
  <2>1. /\ startIndex(pvIndex) \in Nat /\ availableCount(pvIndex) \in Nat \ {0}
        /\ startIndex(pvIndex) + availableCount(pvIndex) <= rows * cols
    BY PartInside DEF InputInv, WriteInv
  <2>2. rows * cols \in Nat
    BY DEF InputInv
  <2>3. put.count \in Nat /\ put.count <= availableCount(pvIndex)
    BY <2>1 DEF WriteInv, nToWrite
  <2> QED
    BY <2>1, <2>2, <2>3 DEF WriteInv
<1> QED
  BY <1>1, WriteInit, WriteNext, PTL DEF DataSpec

\* A product with One keeps the order of integers.
LEMMA UnitsOrdered ==
  ASSUME NEW a \in Int, NEW b \in Int
  PROVE  /\ a * One \in Int
         /\ a < b => a * One + One <= b * One
         /\ a * One < b * One => a < b
<1> USE NumberAssumption
<1>1. ASSUME NEW m \in Int, NEW n \in Int, m < n PROVE m * One + One <= n * One
  <2>1. PICK k \in Nat : n = m + 1 + k
    <3>1. n - m - 1 \in Nat /\ n = m + 1 + (n - m - 1)
      BY <1>1
    <3> QED
      BY <3>1
  <2>2. n * One = m * One + One + k * One
    BY <2>1
  <2>3. k * One \in Nat /\ m * One \in Int
    OBVIOUS
  <2> QED
    BY <2>2, <2>3
<1>2. a * One \in Int /\ b * One \in Int
  OBVIOUS
<1>3. a < b => a * One + One <= b * One
  BY <1>1
<1>4. a > b => b * One + One <= a * One
  BY <1>1
<1> QED
  BY <1>2, <1>3, <1>4

\* The integer part is the next integer towards zero.
LEMMA WholeNear ==
  ASSUME NEW x \in Int
  PROVE  /\ Whole(x) \in Int
         /\ x >= 0 => Whole(x) * One <= x /\ x < Whole(x) * One + One
         /\ x < 0 => x <= Whole(x) * One /\ Whole(x) * One < x + One
<1> USE NumberAssumption
<1>1. ASSUME NEW n \in Nat
      PROVE  n \div One \in Int /\ (n \div One) * One <= n /\ n < (n \div One) * One + One
  <2>1. n \div One \in Int /\ n % One \in 0 .. One - 1 /\ n = One * (n \div One) + (n % One)
    OBVIOUS
  <2>2. One * (n \div One) = (n \div One) * One
    BY <2>1
  <2> QED
    BY <2>1, <2>2
<1>2. CASE x >= 0
  BY <1>1, <1>2 DEF Whole
<1>3. CASE x < 0
  <2>1. -x \in Nat
    BY <1>3
  <2>2. PICK n \in Int : n = (-x) \div One
    BY <1>1, <2>1
  <2>3. n * One <= -x /\ -x < n * One + One
    BY <1>1, <2>1, <2>2
  <2>4. Whole(x) = -n /\ (-n) * One = -(n * One) /\ n * One \in Int
    BY <1>3, <2>2 DEF Whole
  <2> QED
    BY <1>3, <2>3, <2>4
<1> QED
  BY <1>2, <1>3

\* Two conversions, the first to more numbers than the second, pass over none together
\* if neither does.
LEMMA SkipsCompose ==
  ASSUME NEW H, NEW D, H \subseteq D, D \subseteq Int,
         NEW x \in Int, NEW d \in Int, NEW v \in Int,
         \A y \in D : ~Skips(x, y, d),
         \A y \in H : ~Skips(d, y, v)
  PROVE  \A y \in H : ~Skips(x, y, v)
BY DEF Skips

\* Rounding passes over no number of the type.
LEMMA RoundNear ==
  ASSUME NEW S, S \subseteq Int, \A y \in S : -Infinity < y /\ y < Infinity,
         NEW x \in Int, NEW v \in RoundTo(S, x)
  PROVE  /\ v \in S \cup {Infinity, -Infinity}
         /\ \A y \in S : ~Skips(x, y, v)
<1> USE NumberAssumption
<1>1. CASE Abs(x) = Infinity
  <2>1. v = x /\ x \in {Infinity, -Infinity}
    BY <1>1 DEF RoundTo, Abs
  <2> QED
    BY <2>1 DEF Skips
<1>2. CASE v \in S /\ ~\E z \in S : Abs(x - z) < Abs(x - v)
  <2>1. ASSUME NEW y \in S, Skips(x, y, v) PROVE FALSE
    <3>1. Abs(x - y) < Abs(x - v)
      BY <1>2, <2>1 DEF Skips, Abs
    <3> QED
      BY <1>2, <3>1
  <2> QED
    BY <1>2, <2>1
<1>3. CASE v = Infinity /\ \A y \in S : y < x
  BY <1>3 DEF Skips
<1>4. CASE v = -Infinity /\ \A y \in S : x < y
  BY <1>4 DEF Skips
<1> QED
  BY <1>1, <1>2, <1>3, <1>4 DEF RoundTo

\* Cutting to an integer and clamping it gives an integer of the type, and passes over
\* none if the number lies within 64 bits.
LEMMA ClampNear ==
  ASSUME NEW lo \in Int, NEW hi \in Int, lo <= hi, NEW x \in Int, NEW v \in Clamped(lo, hi, x)
  PROVE  /\ v \in {n * One : n \in lo .. hi}
         /\ Whole(x) \in -S64 - 1 .. S64 => \A y \in {n * One : n \in lo .. hi} : ~Skips(x, y, v)
<1> USE NumberAssumption, WidthAssumption
<1>1. PICK c \in CastLong(x) : v = Saturate(lo, hi, c) * One
  BY DEF Clamped
<1>2. c \in Int /\ (Whole(x) \in -S64 - 1 .. S64 => c = Whole(x))
  BY <1>1, WholeNear DEF CastLong
<1>3. PICK s \in lo .. hi : s = Saturate(lo, hi, c)
  BY <1>2 DEF Saturate
<1>4. ASSUME c = Whole(x), NEW n \in lo .. hi, Skips(x, n * One, s * One) PROVE FALSE
  <2>1. n * One \in Int /\ s * One \in Int /\ c * One \in Int
    BY <1>2, UnitsOrdered
  <2>2. CASE x <= n * One /\ n * One < s * One
    <3>1. n < s
      BY <2>2, UnitsOrdered
    <3>2. s = lo \/ s <= c
      BY <1>2, <1>3 DEF Saturate
    <3>3. n < c
      BY <1>2, <3>1, <3>2
    <3>4. n * One + One <= c * One
      BY <1>2, <3>3, UnitsOrdered
    <3> QED
      BY <1>4, <2>1, <2>2, <3>4, WholeNear
  <2>3. CASE s * One < n * One /\ n * One <= x
    <3>1. s < n
      BY <2>3, UnitsOrdered
    <3>2. s = hi \/ c <= s
      BY <1>2, <1>3 DEF Saturate
    <3>3. c < n
      BY <1>2, <3>1, <3>2
    <3>4. c * One + One <= n * One
      BY <1>2, <3>3, UnitsOrdered
    <3> QED
      BY <1>4, <2>1, <2>3, <3>4, WholeNear
  <2> QED
    BY <1>4, <2>2, <2>3 DEF Skips
<1> QED
  BY <1>1, <1>2, <1>3, <1>4

\* The numbers of the native types but the text are doubles.
LEMMA HeldDoubles ==
  ASSUME NEW native \in Natives, native # "DBF_STRING"
  PROVE  Held(native) \subseteq Doubles
<1>1. \A n \in -S32 - 1 .. S32 : n * One \in Doubles
  BY NumberAssumption
<1>2. ASSUME NEW lo \in Int, NEW hi \in Int, -S32 - 1 <= lo, hi <= S32
      PROVE  {n * One : n \in lo .. hi} \subseteq Doubles
  <2>1. lo .. hi \subseteq -S32 - 1 .. S32
    BY <1>2, WidthAssumption
  <2> QED
    BY <1>1, <2>1
<1>3. {n * One : n \in -S16 - 1 .. S16} \subseteq Doubles
  BY <1>2, WidthAssumption
<1>4. {n * One : n \in 0 .. U16} \subseteq Doubles
  BY <1>2, WidthAssumption
<1>5. {n * One : n \in 0 .. U8} \subseteq Doubles
  BY <1>2, WidthAssumption
<1>6. {n * One : n \in -S32 - 1 .. S32} \subseteq Doubles
  BY <1>2, WidthAssumption
<1>7. Floats \subseteq Doubles
  BY NumberAssumption
<1> QED
  BY <1>3, <1>4, <1>5, <1>6, <1>7 DEF Held, Natives

\* The low byte of an integer is a character, and the integer itself if that is one.
LEMMA ByteKept ==
  ASSUME NEW x \in Int
  PROVE  /\ (Whole(x) % (U8 + 1)) * One \in {n * One : n \in 0 .. U8}
         /\ \A n \in 0 .. U8 : x = n * One => (Whole(x) % (U8 + 1)) * One = x
<1>1. PICK t \in Int : t = Whole(x)
  BY WholeNear
<1>2. t % (U8 + 1) \in 0 .. U8 /\ (t \in 0 .. U8 => t % (U8 + 1) = t)
  BY WidthAssumption
<1>3. ASSUME NEW n \in 0 .. U8, x = n * One PROVE t = n
  <2>1. n \in Int /\ x >= 0
    BY <1>3, NumberAssumption
  <2>2. t * One <= n * One /\ n * One < t * One + One
    BY <1>1, <1>3, <2>1, WholeNear
  <2>3. n * One \in Int /\ t * One \in Int /\ One \in Int
    BY <2>1, UnitsOrdered, NumberAssumption
  <2>4. ~(n < t)
    <3>1. n < t => n * One + One <= t * One
      BY <2>1, UnitsOrdered
    <3> QED
      BY <2>2, <2>3, <3>1, NumberAssumption
  <2>5. ~(t < n)
    <3>1. t < n => t * One + One <= n * One
      BY <2>1, UnitsOrdered
    <3> QED
      BY <2>2, <2>3, <3>1
  <2> QED
    BY <2>1, <2>4, <2>5
<1> QED
  BY <1>1, <1>2, <1>3

\* One step of conversion, from a number that the code holds.
LEMMA ConvertNear ==
  ASSUME NEW native \in Natives, NEW x \in Int, NEW v \in Convert(native, x)
  PROVE  /\ native # "DBF_STRING" => v \in Held(native) \cup Infinite(native)
         /\ /\ native \in {"DBF_SHORT", "DBF_ENUM", "DBF_LONG", "DBF_CHAR"} => Whole(x) \in -S64 - 1 .. S64
            /\ native = "DBF_CHAR" /\ isInteger => \E n \in 0 .. U8 : x = n * One
            => \A y \in Held(native) : ~Skips(x, y, v)
<1>1. CASE native = "DBF_SHORT"
  <2>1. v \in Clamped(-S16 - 1, S16, x) /\ Held(native) = {n * One : n \in -S16 - 1 .. S16}
    BY <1>1 DEF Convert, Held
  <2>2. -S16 - 1 \in Int /\ S16 \in Int /\ -S16 - 1 <= S16
    BY WidthAssumption
  <2> QED
    BY <1>1, <2>1, <2>2, ClampNear
<1>2. CASE native = "DBF_ENUM"
  <2>1. v \in Clamped(0, U16, x) /\ Held(native) = {n * One : n \in 0 .. U16}
    BY <1>2 DEF Convert, Held
  <2>2. U16 \in Int /\ 0 <= U16
    BY WidthAssumption
  <2> QED
    BY <1>2, <2>1, <2>2, ClampNear
<1>3. CASE native = "DBF_LONG"
  <2>1. v \in Clamped(-S32 - 1, S32, x) /\ Held(native) = {n * One : n \in -S32 - 1 .. S32}
    BY <1>3 DEF Convert, Held
  <2>2. -S32 - 1 \in Int /\ S32 \in Int /\ -S32 - 1 <= S32
    BY WidthAssumption
  <2> QED
    BY <1>3, <2>1, <2>2, ClampNear
<1>4. CASE native = "DBF_CHAR" /\ ~isInteger
  <2>1. v \in Clamped(0, U8, x) /\ Held(native) = {n * One : n \in 0 .. U8}
    BY <1>4 DEF Convert, Held
  <2>2. U8 \in Int /\ 0 <= U8
    BY WidthAssumption
  <2>3. v \in Held(native)
    BY <2>1, <2>2, ClampNear
  <2>4. Whole(x) \in -S64 - 1 .. S64 => \A y \in Held(native) : ~Skips(x, y, v)
    BY <2>1, <2>2, ClampNear
  <2> QED
    BY <1>4, <2>3, <2>4
<1>5. CASE native = "DBF_CHAR" /\ isInteger
  <2>1. v = (Whole(x) % (U8 + 1)) * One /\ Held(native) = {n * One : n \in 0 .. U8}
    BY <1>5 DEF Convert, Held
  <2>2. v \in Held(native)
    BY <2>1, ByteKept
  <2>3. (\E n \in 0 .. U8 : x = n * One) => v = x
    BY <2>1, ByteKept
  <2>4. Held(native) \subseteq Int
    BY <1>5, HeldDoubles, NumberAssumption
  <2>5. v = x => \A y \in Held(native) : ~Skips(x, y, v)
    BY <2>4 DEF Skips
  <2> QED
    BY <1>5, <2>2, <2>3, <2>5
<1>6. CASE native = "DBF_FLOAT"
  <2>1. v \in RoundTo(Floats, x) /\ Held(native) = Floats /\ Infinite(native) = {Infinity, -Infinity}
    BY <1>6 DEF Convert, Held, Infinite
  <2>2. Floats \subseteq Int /\ \A y \in Floats : -Infinity < y /\ y < Infinity
    BY NumberAssumption
  <2> QED
    BY <1>6, <2>1, <2>2, RoundNear
<1>7. CASE native = "DBF_DOUBLE"
  <2>1. v \in RoundTo(Doubles, x) /\ Held(native) = Doubles /\ Infinite(native) = {Infinity, -Infinity}
    BY <1>7 DEF Convert, Held, Infinite
  <2>2. Doubles \subseteq Int /\ \A y \in Doubles : -Infinity < y /\ y < Infinity
    BY NumberAssumption
  <2> QED
    BY <1>7, <2>1, <2>2, RoundNear
<1>8. CASE native = "DBF_STRING"
  <2>1. Held(native) = Decimals /\ Decimals \subseteq Int /\ \A y \in Decimals : -Infinity < y /\ y < Infinity
    BY <1>8, NumberAssumption DEF Held
  <2>2. CASE v \in RoundTo(Decimals, x)
    BY <1>8, <2>1, <2>2, RoundNear
  <2>3. CASE v = x
    <3>1. \A y \in Decimals : ~Skips(x, y, x)
      BY <2>1 DEF Skips
    <3> QED
      BY <1>8, <2>1, <2>3, <3>1
  <2>4. v \in RoundTo(Decimals, x) \/ v = x
    BY <1>8 DEF Convert
  <2> QED
    BY <2>2, <2>3, <2>4
<1> QED
  BY <1>1, <1>2, <1>3, <1>4, <1>5, <1>6, <1>7, <1>8 DEF Natives

\* What the code first holds of an element is an integer number of units, and no double
\* is passed over by then.
LEMMA ElementNear ==
  ASSUME NEW native \in Natives, NEW raw \in Int, NEW x \in Element(native, raw)
  PROVE  /\ x \in Int
         /\ isInteger => x = decodeSigned(raw) * One
         /\ ~isInteger /\ native # "DBF_STRING" => \A y \in Doubles : ~Skips(raw, y, x)
         /\ ~isInteger /\ native = "DBF_STRING" => x = raw
<1>1. Doubles \subseteq Int /\ Infinity \in Int /\ \A y \in Doubles : -Infinity < y /\ y < Infinity
  BY NumberAssumption
<1>2. CASE isInteger
  <2>1. x = decodeSigned(raw) * One
    BY <1>2 DEF Element, isInteger
  <2>2. /\ raw % (U8 + 1) \in Int /\ raw % (U16 + 1) \in Int
        /\ raw % (2 * (S32 + 1)) \in Int /\ raw % (2 * (S64 + 1)) \in Int
    BY WidthAssumption
  <2>3. decodeSigned(raw) \in Int
    BY <1>2, <2>2, WidthAssumption DEF decodeSigned, SignedBits, isInteger
  <2>4. decodeSigned(raw) * One \in Int
    BY <2>3, UnitsOrdered
  <2> QED
    BY <1>2, <2>1, <2>4
<1>3. CASE ~isInteger /\ source = "string" /\ native # "DBF_STRING"
  <2>1. x \in RoundTo(Doubles, raw)
    BY <1>3 DEF Element
  <2>2. x \in Doubles \cup {Infinity, -Infinity} /\ \A y \in Doubles : ~Skips(raw, y, x)
    BY <1>1, <2>1, RoundNear
  <2>3. x \in Int
    BY <1>1, <2>2
  <2> QED
    BY <1>3, <2>2, <2>3
<1>4. CASE ~isInteger /\ ~(source = "string" /\ native # "DBF_STRING")
  <2>1. x = raw
    BY <1>4 DEF Element
  <2> QED
    BY <1>1, <1>4, <2>1 DEF Skips
<1> QED
  BY <1>2, <1>3, <1>4

\* Numbers arrive: what is written is a number of the native type, and no number of that
\* type is passed over on the way, for all widths and precisions of the types.
THEOREM NumbersSurvive == DataSpec => []NumberSurvives
<1>1. InputInv /\ WriteInv => NumberSurvives
  <2> SUFFICES ASSUME InputInv, WriteInv, Numeric PROVE NumberSurvives
    BY DEF NumberSurvives
  <2> DEFINE native == put.native
             raw == put.raw
             v == put.value
  <2>1. native \in Natives /\ raw \in Int /\ v \in Written(native, raw)
    BY DEF WriteInv, Numeric
  <2>2. PICK x \in Element(native, raw) : v \in Convert(native, x)
    BY <2>1 DEF Written
  <2>3. /\ x \in Int
        /\ isInteger => x = decodeSigned(raw) * One
        /\ ~isInteger /\ native # "DBF_STRING" => \A y \in Doubles : ~Skips(raw, y, x)
        /\ ~isInteger /\ native = "DBF_STRING" => x = raw
    BY <2>1, <2>2, ElementNear
  <2>4. native # "DBF_STRING" => v \in Held(native) \cup Infinite(native)
    BY <2>1, <2>2, <2>3, ConvertNear
  <2>5. Convertible(native, raw) => \A y \in Held(native) : ~Skips(x, y, v)
    <3> SUFFICES ASSUME Convertible(native, raw) PROVE \A y \in Held(native) : ~Skips(x, y, v)
      OBVIOUS
    <3>1. native \in {"DBF_SHORT", "DBF_ENUM", "DBF_LONG", "DBF_CHAR"} => Whole(x) \in -S64 - 1 .. S64
      BY <2>2 DEF Convertible
    <3>2. native = "DBF_CHAR" /\ isInteger => \E n \in 0 .. U8 : x = n * One
      BY <2>3 DEF Convertible
    <3> QED
      BY <2>1, <2>2, <2>3, <3>1, <3>2, ConvertNear
  <2>6. Convertible(native, raw) => \A y \in Held(native) : ~Skips(Number(raw), y, v)
    <3> SUFFICES ASSUME Convertible(native, raw) PROVE \A y \in Held(native) : ~Skips(Number(raw), y, v)
      OBVIOUS
    <3>1. CASE isInteger
      <4>1. x = Number(raw)
        BY <2>3, <3>1 DEF Convertible, Number
      <4> QED
        BY <2>5, <4>1
    <3>2. CASE ~isInteger /\ native = "DBF_STRING"
      <4>1. x = Number(raw)
        BY <2>3, <3>2 DEF Number
      <4> QED
        BY <2>5, <4>1
    <3>3. CASE ~isInteger /\ native # "DBF_STRING"
      <4>1. Number(raw) = raw
        BY <3>3 DEF Number
      <4>2. Held(native) \subseteq Doubles /\ Doubles \subseteq Int
        BY <2>1, <3>3, HeldDoubles, NumberAssumption
      <4>3. v \in Int
        <5>1. v \in Held(native) \cup {Infinity, -Infinity}
          BY <2>4, <3>3 DEF Infinite
        <5>2. Infinity \in Int /\ -Infinity \in Int
          BY NumberAssumption
        <5> QED
          BY <4>2, <5>1, <5>2
      <4>4. \A y \in Held(native) : ~Skips(raw, y, v)
        BY <2>1, <2>3, <2>5, <3>3, <4>2, <4>3, SkipsCompose
      <4> QED
        BY <4>1, <4>4
    <3> QED
      BY <3>1, <3>2, <3>3
  <2> QED
    BY <2>4, <2>6 DEF NumberSurvives
<1> QED
  BY <1>1, WriteInit, WriteNext, PTL DEF DataSpec

\* An array of one value per PV, as a column or as a row, gives PV pvIndex its element pvIndex.
LEMMA OneElementEach ==
  ASSUME InputInv, Layout, NotEmpty, rows * cols = names
  PROVE  startIndex(pvIndex) = pvIndex /\ availableCount(pvIndex) = 1
<1> USE DEF InputInv, NotEmpty
<1>1. width = cols /\ cols \in Nat \ {0} /\ rows \in Nat \ {0}
  BY DEF width
<1>2. CASE rows = names
  <2>1. cols = 1
    <3>1. CASE cols >= 2
      <4>1. PICK k \in Nat : cols = 2 + k
        <5>1. cols - 2 \in Nat /\ cols = 2 + (cols - 2)
          BY <1>1, <3>1
        <5> QED
          BY <5>1
      <4>2. names * cols = 2 * names + names * k /\ names * k \in Nat
        BY <4>1
      <4> QED
        BY <1>2, <4>2
    <3> QED
      BY <1>1, <3>1
  <2> QED
    BY <1>1, <1>2, <2>1 DEF startIndex, availableCount
<1>3. CASE rows # names
  <2>1. rows = 1 /\ cols = names /\ names # 1
    BY <1>1, <1>3 DEF Layout
  <2> QED
    BY <1>3, <2>1 DEF startIndex, availableCount
<1> QED
  BY <1>2, <1>3

\* Whoever gives one value per PV, as a column or as a row, sets each PV to its own
\* value, for every number of PVs.
THEOREM OwnValueEach == DataSpec => []OneValuePerPv
<1>1. InputInv /\ WriteInv => OneValuePerPv
  <2> SUFFICES ASSUME InputInv, WriteInv, Numeric, NotEmpty, rows * cols = names
               PROVE  put.start = put.pv /\ put.count = 1
    BY DEF OneValuePerPv
  <2>1. /\ put.pv = pvIndex /\ put.start = startIndex(pvIndex) /\ put.capacity \in Nat
        /\ put.count = nToWrite(pvIndex, put.capacity)
    BY DEF WriteInv, Numeric
  <2>2. startIndex(pvIndex) = pvIndex /\ availableCount(pvIndex) = 1
    BY OneElementEach DEF InputInv, WriteInv, Numeric
  <2> QED
    BY <2>1, <2>2 DEF nToWrite
<1> QED
  BY <1>1, WriteInit, WriteNext, PTL DEF DataSpec
=============================================================================
