--------------------------- MODULE ErrorCountProofs ---------------------------
(***************************************************************************)
(* Theorems about ErrorCount: until the writer without ioMutex overlaps    *)
(* another one, the counter of the PVs in error is exact, and the status   *)
(* that getValue derives from it hides no error; it never makes one up.    *)
(***************************************************************************)
EXTENDS ErrorCount, FiniteSetTheorems, TLAPS

WriterPcs == {"idle", "compare", "store", "test", "count", "adjust", "return"}
At(p, steps) == \E w \in Writers : pc[w] \in steps /\ pv[w] = p

\* The PVs that pvErrorCount has in it: a mark that was just changed is not.
InCount == {p \in PVs : IF At(p, {"adjust"}) THEN ~isErrorCounted[p] ELSE isErrorCounted[p]}

WriterType ==
  /\ errorCode \in [PVs -> Codes] /\ isErrorCounted \in [PVs -> BOOLEAN]
  /\ ioMutex \in [PVs -> Writers \cup {None}]
  /\ pc \in [Writers -> WriterPcs] /\ code \in [Writers -> Codes]
  /\ pv \in [Writers -> PVs \cup {None}]
  /\ \A w \in Writers : pc[w] # "idle" => pv[w] \in PVs

\* Whoever is in setErrorCode is alone there for its PV, and holds ioMutex if it takes it.
Exclusive ==
  /\ \A w \in Writers \ Unlocked : pc[w] # "idle" => ioMutex[pv[w]] = w
  /\ \A w, u \in Writers : w # u /\ pc[w] # "idle" /\ pc[u] # "idle" => pv[w] # pv[u]

\* What each step of setErrorCode has done so far.
Progress ==
  \A w \in Writers :
    /\ pc[w] \in {"test", "count", "adjust", "return"} => errorCode[pv[w]] = code[w]
    /\ pc[w] = "count" => isErrorCounted[pv[w]] # Bad(code[w])
    /\ pc[w] = "adjust" => isErrorCounted[pv[w]] = Bad(code[w])

\* Mark and code agree, unless a writer is between the two.
Marked == \A p \in PVs : At(p, {"test", "count"}) \/ isErrorCounted[p] = Bad(errorCode[p])

WriterInv == WriterType /\ Exclusive /\ Progress /\ Marked

ErrorInv == WriterInv /\ pvErrorCount = Cardinality(InCount)

-----------------------------------------------------------------------------
\* Two writers are never in setErrorCode for one PV.
LEMMA Alone ==
  ASSUME WriterInv, NEW w \in Writers, NEW u \in Writers, pc[w] # "idle", pc[u] # "idle", pv[w] = pv[u]
  PROVE  w = u
BY DEF WriterInv, Exclusive

\* Sets of PVs can be counted with an int.
LEMMA Countable ==
  ASSUME NEW S \in SUBSET PVs
  PROVE  IsFiniteSet(S) /\ Cardinality(S) \in Nat /\ Cardinality(S) <= IntMax
<1>1. IsFiniteSet(PVs) /\ Cardinality(PVs) = N
  BY ErrorCountAssumption, FS_Interval DEF PVs
<1> QED
  BY <1>1, ErrorCountAssumption, FS_Subset, FS_CardinalityType

\* ... and so can those that the counter has counted.
LEMMA InCountFinite == IsFiniteSet(InCount) /\ Cardinality(InCount) \in Nat
<1>1. InCount \in SUBSET PVs
  BY DEF InCount
<1> QED
  BY <1>1, Countable

\* setErrorCode is entered with ioMutex held, or without: the writer is alone at its
\* PV, unless the latter has gone wrong.
LEMMA CallInv ==
  ASSUME WriterInv, NEW w \in Writers, Call(w), ~raced'
  PROVE  WriterInv' /\ InCount' = InCount /\ UNCHANGED pvErrorCount
<1>1. PICK p \in PVs, c \in Codes :
        /\ pv' = [pv EXCEPT ![w] = p] /\ code' = [code EXCEPT ![w] = c]
        /\ IF w \in Unlocked THEN ioMutex' = ioMutex
           ELSE ioMutex[p] = None /\ ioMutex' = [ioMutex EXCEPT ![p] = w]
        /\ ~(w \in Unlocked /\ Busy(p) # {}) /\ Busy(p) \cap Unlocked = {}
  BY DEF Call
<1>2. pc[w] = "idle" /\ pc' = [pc EXCEPT ![w] = "compare"] /\ UNCHANGED <<errorCode, isErrorCounted, pvErrorCount>>
  BY DEF Call, item
<1>3. \A u \in Writers \ {w} : pc'[u] = pc[u] /\ pv'[u] = pv[u] /\ code'[u] = code[u]
  BY <1>1, <1>2 DEF WriterInv, WriterType
<1>4. pc'[w] = "compare" /\ pv'[w] = p
  BY <1>1, <1>2 DEF WriterInv, WriterType
<1>5. WriterType'
  <2>1. ioMutex' \in [PVs -> Writers \cup {None}]
    BY <1>1 DEF WriterInv, WriterType
  <2>2. \A u \in Writers : pc'[u] # "idle" => pv'[u] \in PVs
    BY <1>3, <1>4 DEF WriterInv, WriterType
  <2> QED
    BY <1>1, <1>2, <2>1, <2>2 DEF WriterInv, WriterType, WriterPcs
<1>6. Exclusive'
  <2>1. ASSUME NEW u \in Writers \ {w}, pc[u] # "idle" PROVE pv[u] # p
    <3>1. CASE u \in Unlocked \/ w \in Unlocked
      BY <1>1, <2>1, <3>1 DEF Busy
    <3>2. CASE u \notin Unlocked /\ w \notin Unlocked
      BY <1>1, <2>1, <3>2, ErrorCountAssumption DEF WriterInv, Exclusive
    <3> QED
      BY <3>1, <3>2
  <2>2. ASSUME NEW u \in Writers \ Unlocked, pc'[u] # "idle" PROVE ioMutex'[pv'[u]] = u
    <3>1. CASE u = w
      BY <1>1, <1>4, <2>2, <3>1 DEF WriterInv, WriterType
    <3>2. CASE u # w
      <4>1. pc[u] # "idle" /\ pv'[u] = pv[u] /\ pv[u] # p /\ ioMutex[pv[u]] = u
        BY <1>3, <2>1, <2>2, <3>2 DEF WriterInv, Exclusive
      <4> QED
        BY <1>1, <4>1 DEF WriterInv, WriterType
    <3> QED
      BY <3>1, <3>2
  <2>3. \A u, v \in Writers : u # v /\ pc'[u] # "idle" /\ pc'[v] # "idle" => pv'[u] # pv'[v]
    BY <1>3, <1>4, <2>1 DEF WriterInv, Exclusive
  <2> QED
    BY <2>2, <2>3 DEF Exclusive
<1>7. Progress'
  BY <1>2, <1>3, <1>4 DEF WriterInv, Progress
<1>8. ASSUME NEW q \in PVs, NEW steps \in {{"adjust"}, {"test", "count"}} PROVE At(q, steps)' <=> At(q, steps)
  BY <1>2, <1>3, <1>4 DEF At
<1>9. Marked'
  BY <1>2, <1>8 DEF WriterInv, Marked
<1>10. InCount' = InCount
  BY <1>2, <1>8 DEF InCount
<1> QED
  BY <1>2, <1>5, <1>6, <1>7, <1>9, <1>10 DEF WriterInv

\* The two tests of setErrorCode change nothing but the writer's place.
LEMMA CompareInv ==
  ASSUME WriterInv, NEW w \in Writers, Compare(w) \/ TestCounted(w)
  PROVE  WriterInv' /\ InCount' = InCount /\ UNCHANGED pvErrorCount
<1>1. /\ pc[w] \in {"compare", "test"}
      /\ UNCHANGED <<errorCode, isErrorCounted, ioMutex, pvErrorCount, pv, code>>
  BY DEF Compare, TestCounted, item
<1>2. /\ \A u \in Writers \ {w} : pc'[u] = pc[u]
      /\ pc' \in [Writers -> WriterPcs]
      /\ pc'[w] \in {"return", "store", "count"}
      /\ pc'[w] = "return" => isErrorCounted[pv[w]] = Bad(errorCode[pv[w]]) /\ errorCode[pv[w]] = code[w]
      /\ pc'[w] = "store" => isErrorCounted[pv[w]] = Bad(errorCode[pv[w]])
      /\ pc'[w] = "count" => /\ pc[w] = "test" /\ errorCode[pv[w]] = code[w]
                             /\ isErrorCounted[pv[w]] # Bad(code[w])
  <2>1. CASE Compare(w)
    <3>1. isErrorCounted[pv[w]] = Bad(errorCode[pv[w]])
      <4>1. ~At(pv[w], {"test", "count"})
        BY <2>1, Alone DEF Compare, At
      <4>2. pv[w] \in PVs
        BY <2>1 DEF Compare, WriterInv, WriterType
      <4> QED
        BY <4>1, <4>2 DEF WriterInv, Marked
    <3> QED
      BY <2>1, <3>1 DEF Compare, WriterInv, WriterType, WriterPcs
  <2>2. CASE TestCounted(w)
    <3>1. errorCode[pv[w]] = code[w]
      BY <2>2 DEF TestCounted, WriterInv, Progress
    <3> QED
      BY <2>2, <3>1 DEF TestCounted, WriterInv, WriterType, WriterPcs
  <2> QED
    BY <2>1, <2>2
<1>3. WriterType' /\ Exclusive'
  BY <1>1, <1>2 DEF WriterInv, WriterType, Exclusive
<1>4. Progress'
  BY <1>1, <1>2 DEF WriterInv, Progress
<1>5. ASSUME NEW p \in PVs PROVE isErrorCounted'[p] = Bad(errorCode'[p]) \/ At(p, {"test", "count"})'
  <2>1. CASE p = pv[w]
    BY <1>1, <1>2, <2>1 DEF At
  <2>2. CASE p # pv[w]
    BY <1>1, <1>2, <2>2 DEF At, WriterInv, Marked
  <2> QED
    BY <2>1, <2>2
<1>6. ASSUME NEW p \in PVs PROVE At(p, {"adjust"})' <=> At(p, {"adjust"})
  BY <1>1, <1>2 DEF At
<1>7. InCount' = InCount
  BY <1>1, <1>6 DEF InCount
<1> QED
  BY <1>1, <1>3, <1>4, <1>5, <1>7 DEF WriterInv, Marked

\* The code changes before the mark: the difference is what the writer still has to do.
LEMMA StoreInv ==
  ASSUME WriterInv, NEW w \in Writers, Store(w)
  PROVE  WriterInv' /\ InCount' = InCount /\ UNCHANGED pvErrorCount
<1>1. /\ pc[w] = "store" /\ pc' = [pc EXCEPT ![w] = "test"]
      /\ errorCode' = [errorCode EXCEPT ![pv[w]] = code[w]]
      /\ UNCHANGED <<isErrorCounted, ioMutex, pvErrorCount, pv, code>>
  BY DEF Store
<1>2. pc'[w] = "test" /\ \A u \in Writers \ {w} : pc'[u] = pc[u]
  BY <1>1 DEF WriterInv, WriterType
<1>3. errorCode'[pv[w]] = code[w] /\ \A p \in PVs \ {pv[w]} : errorCode'[p] = errorCode[p]
  BY <1>1 DEF WriterInv, WriterType
<1>4. \A u \in Writers \ {w} : pc[u] # "idle" => pv[u] # pv[w]
  BY <1>1, Alone
<1>5. WriterType' /\ Exclusive'
  BY <1>1 DEF WriterInv, WriterType, WriterPcs, Exclusive
<1>6. Progress'
  BY <1>1, <1>2, <1>3, <1>4 DEF WriterInv, WriterType, Progress
<1>7. Marked'
  BY <1>1, <1>2, <1>3 DEF WriterInv, Marked, At
<1>8. ASSUME NEW p \in PVs PROVE At(p, {"adjust"})' <=> At(p, {"adjust"})
  BY <1>1, <1>2 DEF At
<1>9. InCount' = InCount
  BY <1>1, <1>8 DEF InCount
<1> QED
  BY <1>1, <1>5, <1>6, <1>7, <1>9 DEF WriterInv

\* The mark flips while the counter still has the old one.
LEMMA StoreCountedInv ==
  ASSUME WriterInv, NEW w \in Writers, StoreCounted(w)
  PROVE  WriterInv' /\ InCount' = InCount /\ UNCHANGED pvErrorCount
<1>1. /\ pc[w] = "count" /\ pc' = [pc EXCEPT ![w] = "adjust"]
      /\ isErrorCounted' = [isErrorCounted EXCEPT ![pv[w]] = Bad(code[w])]
      /\ UNCHANGED <<errorCode, ioMutex, pvErrorCount, pv, code>>
  BY DEF StoreCounted
<1>2. pc'[w] = "adjust" /\ \A u \in Writers \ {w} : pc'[u] = pc[u]
  BY <1>1 DEF WriterInv, WriterType
<1>3. /\ isErrorCounted'[pv[w]] = Bad(code[w])
      /\ \A p \in PVs \ {pv[w]} : isErrorCounted'[p] = isErrorCounted[p]
  BY <1>1 DEF WriterInv, WriterType
<1>4. \A u \in Writers \ {w} : pc[u] # "idle" => pv[u] # pv[w]
  BY <1>1, Alone
<1>5. isErrorCounted[pv[w]] # Bad(code[w]) /\ errorCode[pv[w]] = code[w]
  BY <1>1 DEF WriterInv, Progress
<1>6. WriterType' /\ Exclusive'
  <2>1. Bad(code[w]) \in BOOLEAN
    BY DEF Bad
  <2> QED
    BY <1>1, <2>1 DEF WriterInv, WriterType, WriterPcs, Exclusive
<1>7. Progress'
  BY <1>1, <1>2, <1>3, <1>4, <1>5 DEF WriterInv, WriterType, Progress
<1>8. Marked'
  BY <1>1, <1>2, <1>3, <1>5 DEF WriterInv, Marked, At
<1>9. ASSUME NEW p \in PVs PROVE p \in InCount' <=> p \in InCount
  <2>1. CASE p = pv[w]
    <3>1. At(p, {"adjust"})' /\ ~At(p, {"adjust"})
      BY <1>1, <1>2, <1>4, <2>1 DEF At
    <3> QED
      BY <1>3, <1>5, <2>1, <3>1 DEF InCount, WriterInv, WriterType, Bad
  <2>2. CASE p # pv[w]
    <3>1. At(p, {"adjust"})' <=> At(p, {"adjust"})
      BY <1>1, <1>2, <2>2 DEF At
    <3> QED
      BY <1>3, <2>2, <3>1 DEF InCount
  <2> QED
    BY <2>1, <2>2
<1> QED
  BY <1>1, <1>6, <1>7, <1>8, <1>9 DEF WriterInv, InCount

\* The counter follows.
LEMMA AdjustInv ==
  ASSUME ErrorInv, NEW w \in Writers, Adjust(w)
  PROVE  ErrorInv'
<1>1. /\ pc[w] = "adjust" /\ pc' = [pc EXCEPT ![w] = "return"]
      /\ pvErrorCount' = IF Bad(code[w]) THEN Incr(pvErrorCount) ELSE Decr(pvErrorCount)
      /\ UNCHANGED <<errorCode, isErrorCounted, ioMutex, pv, code>>
  BY DEF Adjust, item
<1>2. pc'[w] = "return" /\ \A u \in Writers \ {w} : pc'[u] = pc[u]
  BY <1>1 DEF ErrorInv, WriterInv, WriterType
<1>3. \A u \in Writers \ {w} : pc[u] # "idle" => pv[u] # pv[w]
  BY <1>1, Alone DEF ErrorInv
<1>4. isErrorCounted[pv[w]] = Bad(code[w]) /\ pv[w] \in PVs
  BY <1>1 DEF ErrorInv, WriterInv, WriterType, Progress
<1>5. WriterInv'
  BY <1>1, <1>2 DEF ErrorInv, WriterInv, WriterType, WriterPcs, Exclusive, Progress, Marked, At
<1>6. ASSUME NEW p \in PVs PROVE At(p, {"adjust"})' <=> At(p, {"adjust"}) /\ p # pv[w]
  BY <1>1, <1>2, <1>3 DEF At
<1>7. At(pv[w], {"adjust"})
  BY <1>1 DEF At
<1>8. CASE Bad(code[w])
  <2>1. InCount' = InCount \cup {pv[w]} /\ pv[w] \notin InCount
    BY <1>1, <1>4, <1>6, <1>7, <1>8 DEF InCount
  <2>2. Cardinality(InCount') = Cardinality(InCount) + 1
    BY <2>1, InCountFinite, FS_AddElement
  <2>3. Cardinality(InCount') <= IntMax
    <3>1. InCount' \in SUBSET PVs
      BY DEF InCount
    <3> QED
      BY <3>1, Countable
  <2>4. pvErrorCount' = pvErrorCount + 1
    BY <1>1, <1>8, <2>2, <2>3, InCountFinite, ErrorCountAssumption DEF ErrorInv, Incr
  <2> QED
    BY <1>5, <2>2, <2>4 DEF ErrorInv
<1>9. CASE ~Bad(code[w])
  <2>1. InCount' = InCount \ {pv[w]} /\ pv[w] \in InCount
    BY <1>1, <1>4, <1>6, <1>7, <1>9 DEF InCount
  <2>2. Cardinality(InCount') = Cardinality(InCount) - 1
    BY <2>1, InCountFinite, FS_RemoveElement
  <2>3. pvErrorCount' = pvErrorCount - 1
    BY <1>1, <1>9, InCountFinite, ErrorCountAssumption DEF ErrorInv, Decr
  <2> QED
    BY <1>5, <2>2, <2>3 DEF ErrorInv
<1> QED
  BY <1>8, <1>9

\* A writer gives ioMutex back with mark, counter and code in agreement.
LEMMA ReturnInv ==
  ASSUME WriterInv, NEW w \in Writers, Return(w)
  PROVE  WriterInv' /\ InCount' = InCount /\ UNCHANGED pvErrorCount
<1>1. /\ pc[w] = "return" /\ pc' = [pc EXCEPT ![w] = "idle"]
      /\ ioMutex' = IF w \in Unlocked THEN ioMutex ELSE [ioMutex EXCEPT ![pv[w]] = None]
      /\ pv' = [pv EXCEPT ![w] = None] /\ code' = [code EXCEPT ![w] = "ECA_NORMAL"]
      /\ UNCHANGED <<errorCode, isErrorCounted, pvErrorCount>>
  BY DEF Return, item
<1>2. pc'[w] = "idle" /\ \A u \in Writers \ {w} : pc'[u] = pc[u] /\ pv'[u] = pv[u] /\ code'[u] = code[u]
  BY <1>1 DEF WriterInv, WriterType
<1>3. \A u \in Writers \ {w} : pc[u] # "idle" => pv[u] # pv[w]
  BY <1>1, Alone
<1>4. WriterType'
  BY ErrorCountAssumption, <1>1, <1>2 DEF WriterInv, WriterType, WriterPcs
<1>5. Exclusive'
  <2>1. \A u \in Writers \ {w} : pc[u] # "idle" => ioMutex'[pv[u]] = ioMutex[pv[u]]
    BY <1>1, <1>3 DEF WriterInv, WriterType
  <2> QED
    BY <1>2, <1>3, <2>1 DEF WriterInv, Exclusive
<1>6. Progress' /\ Marked'
  BY <1>1, <1>2 DEF WriterInv, Progress, Marked, At
<1>7. ASSUME NEW p \in PVs PROVE At(p, {"adjust"})' <=> At(p, {"adjust"})
  BY <1>1, <1>2 DEF At
<1>8. InCount' = InCount
  BY <1>1, <1>7 DEF InCount
<1> QED
  BY <1>1, <1>4, <1>5, <1>6, <1>8 DEF WriterInv

\* Nothing takes back that two writers have overlapped.
LEMMA RacedStays ==
  ASSUME [Next]_vars, raced
  PROVE  raced'
BY DEF Next, SetStep, Call, Compare, Store, TestCounted, StoreCounted, Adjust, Return,
       ReadBegin, ReadCount, Scan, vars

\* The counter and the marks are right until the writer without ioMutex overlaps another.
LEMMA CountInvariant == Spec => [](raced \/ ErrorInv)
<1>1. Init => ErrorInv
  <2> SUFFICES ASSUME Init PROVE ErrorInv
    OBVIOUS
  <2>1. \A p \in PVs, steps \in {{"adjust"}, {"test", "count"}} : ~At(p, steps)
    BY DEF Init, At
  <2>2. InCount = 1 .. N
    BY <2>1 DEF Init, InCount, PVs
  <2>3. Cardinality(1 .. N) = N
    BY ErrorCountAssumption, FS_Interval
  <2>4. WriterType
    BY ErrorCountAssumption DEF Init, WriterType, WriterPcs
  <2>5. Exclusive /\ Progress /\ Marked
    BY DEF Init, Exclusive, Progress, Marked, Bad
  <2> QED
    BY <2>2, <2>3, <2>4, <2>5 DEF Init, ErrorInv, WriterInv
<1>2. (raced \/ ErrorInv) /\ [Next]_vars => (raced \/ ErrorInv)'
  <2> SUFFICES ASSUME ErrorInv, ~raced', [Next]_vars PROVE ErrorInv'
    BY RacedStays
  <2>1. ASSUME NEW w \in Writers, SetStep(w) PROVE ErrorInv'
    BY <2>1, CallInv, CompareInv, StoreInv, StoreCountedInv, AdjustInv, ReturnInv DEF SetStep, ErrorInv
  <2>2. CASE ReadBegin \/ ReadCount \/ Scan \/ UNCHANGED vars
    <3>1. UNCHANGED <<errorCode, isErrorCounted, ioMutex, pvErrorCount, pc, pv, code>>
      BY <2>2 DEF ReadBegin, ReadCount, Scan, vars, item
    <3> QED
      BY <3>1 DEF ErrorInv, WriterInv, WriterType, Exclusive, Progress, Marked, At, InCount
  <2> QED
    BY <2>1, <2>2 DEF Next
<1> QED
  BY <1>1, <1>2, PTL DEF Spec

\* pvErrorCount is the number of the PVs in an error state (globals.h:49) whenever
\* no code is being set, for any number of PVs and writers, one of which may be the
\* one without ioMutex: until that one overlaps another writer of its PV.
THEOREM CounterExact == Spec => []CountsErrors
<1>1. raced \/ ErrorInv => CountsErrors
  <2> SUFFICES ASSUME ErrorInv, \A p \in PVs : Busy(p) = {}
               PROVE  pvErrorCount = Cardinality(InError)
    BY DEF CountsErrors
  <2>1. \A p \in PVs, steps \in {{"adjust"}, {"test", "count"}} : ~At(p, steps)
    BY DEF At, Busy
  <2>2. InCount = InError
    BY <2>1 DEF InCount, InError, ErrorInv, WriterInv, Marked
  <2> QED
    BY <2>2 DEF ErrorInv
<1> QED
  BY <1>1, CountInvariant, PTL

-----------------------------------------------------------------------------
(* The status of getValue.                                                 *)

\* Any error that is there has been seen, and only what was seen is reported.
SeenInv ==
  /\ errorCode \in [PVs -> Codes] /\ code \in [Writers -> Codes]
  /\ i \in Nat \ {0}
  /\ rpc # "idle" => \A p \in 1 .. A : Bad(errorCode[p]) => p \in seen
  /\ rpc = "done" /\ status => seen # {}
  /\ rpc \in {"read", "scan"} => ~status

\* Whoever sets a code, with or without ioMutex, its errors are seen.
LEMMA SeenInvariant == Spec => []SeenInv
<1>1. Init => SeenInv
  BY ErrorCountAssumption DEF Init, SeenInv
<1>2. SeenInv /\ [Next]_vars => SeenInv'
  <2> SUFFICES ASSUME SeenInv, [Next]_vars PROVE SeenInv'
    OBVIOUS
  <2>1. ASSUME NEW w \in Writers, Store(w) PROVE SeenInv'
    <3>1. /\ errorCode' = [errorCode EXCEPT ![pv[w]] = code[w]] /\ UNCHANGED <<code, rpc, i, status>>
          /\ seen' = IF Bad(code[w]) THEN seen \cup ({pv[w]} \cap 1 .. A) ELSE seen
      BY <2>1 DEF Store, reader
    <3>2. errorCode' \in [PVs -> Codes]
      BY <2>1, <3>1 DEF SeenInv
    <3>3. ASSUME NEW p \in 1 .. A, Bad(errorCode'[p]), rpc # "idle" PROVE p \in seen'
      <4>1. p \in PVs
        BY ErrorCountAssumption DEF PVs
      <4> QED
        BY <3>1, <3>3, <4>1 DEF SeenInv
    <3>4. seen \subseteq seen'
      BY <3>1
    <3> QED
      BY <3>1, <3>2, <3>3, <3>4 DEF SeenInv
  <2>2. ASSUME NEW w \in Writers, SetStep(w), ~Store(w) PROVE SeenInv'
    <3>1. /\ UNCHANGED <<errorCode, rpc, i, status, seen>>
          /\ code' = code \/ \E c \in Codes : code' = [code EXCEPT ![w] = c]
      BY ErrorCountAssumption, <2>2 DEF SetStep, Call, Compare, TestCounted, StoreCounted, Adjust, Return, item, reader
    <3> QED
      BY <3>1 DEF SeenInv
  <2>3. CASE ReadBegin
    <3>1. /\ rpc' = "read" /\ i' = 1 /\ status' = FALSE /\ UNCHANGED <<errorCode, code>>
          /\ seen' = {p \in 1 .. A : Bad(errorCode[p])}
      BY <2>3 DEF ReadBegin, item
    <3> QED
      BY <3>1 DEF SeenInv
  <2>4. CASE ReadCount
    <3>1. /\ rpc = "read" /\ rpc' \in {"done", "scan"} /\ UNCHANGED <<errorCode, code, i, status, seen>>
      BY <2>4 DEF ReadCount, item
    <3> QED
      BY <3>1 DEF SeenInv
  <2>5. CASE Scan
    <3>1. /\ rpc = "scan" /\ rpc' \in {"done", "scan"} /\ UNCHANGED <<errorCode, code, seen>>
          /\ i' \in {i, i + 1}
          /\ rpc' = "scan" => status' = status
          /\ status' # status => ~(i > A) /\ Bad(errorCode[i])
      BY <2>5 DEF Scan, item
    <3>2. status' # status => seen # {}
      BY <3>1, ErrorCountAssumption DEF SeenInv
    <3>3. ~status
      BY <3>1 DEF SeenInv
    <3>4. /\ rpc' = "done" /\ status' => seen' # {}
          /\ rpc' \in {"read", "scan"} => ~status'
      BY <3>1, <3>2, <3>3
    <3>5. i' \in Nat \ {0}
      BY <3>1 DEF SeenInv
    <3> QED
      BY <3>1, <3>4, <3>5 DEF SeenInv
  <2>6. CASE UNCHANGED vars
    BY <2>6 DEF vars, item, reader, SeenInv
  <2> QED
    BY <2>1, <2>2, <2>3, <2>4, <2>5, <2>6 DEF Next
<1> QED
  BY <1>1, <1>2, PTL DEF Spec

\* A non-zero status stands for an error that a PV of the call has had meanwhile,
\* also after writers have overlapped and left the counter wrong.
THEOREM NoErrorInvented == Spec => []ReportedErrorIsReal
<1>1. SeenInv => ReportedErrorIsReal
  BY DEF SeenInv, ReportedErrorIsReal
<1> QED
  BY <1>1, SeenInvariant, PTL

\* An error that lasts is marked and counted, and still ahead of the scan.
ReaderInv ==
  /\ i \in Nat \ {0} /\ since \subseteq 1 .. A
  /\ \A p \in since : Bad(errorCode[p]) /\ isErrorCounted[p] /\ ~At(p, {"count", "adjust"})
  /\ rpc \in {"read", "scan"} => \A p \in since : i <= p
  /\ rpc = "done" => status \/ since = {}

\* Setting a code ends an error that lasted, or leaves it marked and counted.
LEMMA WritersKeepReader ==
  ASSUME ErrorInv, ReaderInv, NEW w \in Writers, SetStep(w)
  PROVE  ReaderInv'
<1>1. UNCHANGED <<rpc, i, status>>
  BY DEF SetStep, Call, Compare, Store, TestCounted, StoreCounted, Adjust, Return, reader
<1> USE DEF ErrorInv, WriterInv, WriterType
<1>2. CASE Store(w)
  <2>1. /\ pc[w] = "store" /\ pc' = [pc EXCEPT ![w] = "test"] /\ pv' = pv
        /\ errorCode' = [errorCode EXCEPT ![pv[w]] = code[w]] /\ isErrorCounted' = isErrorCounted
        /\ since' = IF Bad(code[w]) THEN since ELSE since \ {pv[w]}
    BY <1>2 DEF Store
  <2>2. ASSUME NEW p \in since'
        PROVE  Bad(errorCode'[p]) /\ isErrorCounted'[p] /\ ~At(p, {"count", "adjust"})'
    <3>1. p \in since /\ (p = pv[w] => Bad(code[w])) /\ p \in PVs
      BY <2>1, ErrorCountAssumption DEF ReaderInv, PVs
    <3>2. Bad(errorCode'[p])
      BY <2>1, <3>1 DEF ReaderInv
    <3>3. ~At(p, {"count", "adjust"})'
      BY <2>1, <3>1 DEF ReaderInv, At
    <3> QED
      BY <2>1, <3>1, <3>2, <3>3 DEF ReaderInv
  <2>3. since' \subseteq since
    BY <2>1
  <2> QED
    BY <1>1, <2>2, <2>3 DEF ReaderInv
<1>3. CASE ~Store(w)
  <2>1. UNCHANGED <<errorCode, since>>
    BY <1>3 DEF SetStep, Call, Compare, TestCounted, StoreCounted, Adjust, Return, item
  <2>2. ASSUME NEW p \in since
        PROVE  isErrorCounted'[p] /\ ~At(p, {"count", "adjust"})'
    <3>1. Bad(errorCode[p]) /\ isErrorCounted[p] /\ ~At(p, {"count", "adjust"})
      BY DEF ReaderInv
    <3>2. CASE Call(w)
      <4>1. /\ isErrorCounted' = isErrorCounted /\ pc' = [pc EXCEPT ![w] = "compare"]
            /\ \A u \in Writers \ {w} : pv'[u] = pv[u]
        BY <3>2 DEF Call, item
      <4> QED
        BY <3>1, <4>1 DEF At
    <3>3. CASE Compare(w) \/ Return(w)
      <4>1. /\ isErrorCounted' = isErrorCounted /\ pc'[w] \in {"idle", "return", "store"}
            /\ \A u \in Writers \ {w} : pc'[u] = pc[u] /\ pv'[u] = pv[u]
        BY <3>3 DEF Compare, Return, item
      <4> QED
        BY <3>1, <4>1 DEF At
    <3>4. CASE TestCounted(w)
      <4>1. errorCode[pv[w]] = code[w]
        BY <3>4 DEF TestCounted, Progress
      <4>2. pv[w] = p => pc'[w] = "return"
        BY <3>1, <3>4, <4>1 DEF TestCounted
      <4> QED
        BY <3>1, <3>4, <4>2 DEF TestCounted, item, At
    <3>5. CASE StoreCounted(w) \/ Adjust(w)
      <4>1. pv[w] # p
        BY <3>1, <3>5 DEF StoreCounted, Adjust, At
      <4>2. isErrorCounted'[p] = isErrorCounted[p]
        <5>1. CASE StoreCounted(w)
          <6>1. isErrorCounted' = [isErrorCounted EXCEPT ![pv[w]] = Bad(code[w])]
            BY <5>1 DEF StoreCounted
          <6> QED
            BY <4>1, <6>1
        <5>2. CASE Adjust(w)
          BY <5>2 DEF Adjust, item
        <5> QED
          BY <3>5, <5>1, <5>2
      <4>3. pv' = pv /\ \A u \in Writers \ {w} : pc'[u] = pc[u]
        BY <3>5 DEF StoreCounted, Adjust
      <4> QED
        BY <3>1, <4>1, <4>2, <4>3 DEF At
    <3> QED
      BY <1>3, <3>2, <3>3, <3>4, <3>5 DEF SetStep
  <2> QED
    BY <1>1, <2>1, <2>2 DEF ReaderInv
<1> QED
  BY <1>2, <1>3

\* The steps of getValue: with an error that lasts the counter is not zero.
LEMMA ReaderSteps ==
  ASSUME ErrorInv, ReaderInv, ReadBegin \/ ReadCount \/ Scan
  PROVE  ReaderInv'
<1> USE DEF ErrorInv, WriterInv, WriterType
<1>1. UNCHANGED <<errorCode, isErrorCounted, pc, pv>>
  BY DEF ReadBegin, ReadCount, Scan, item
<1>2. CASE ReadBegin
  <2>1. /\ rpc' = "read" /\ i' = 1 /\ status' = FALSE
        /\ since' = {p \in 1 .. A : Bad(errorCode[p]) /\ Busy(p) = {}}
    BY <1>2 DEF ReadBegin
  <2>2. ASSUME NEW p \in since'
        PROVE  Bad(errorCode[p]) /\ isErrorCounted[p] /\ ~At(p, {"count", "adjust"})
    <3>1. p \in PVs /\ Bad(errorCode[p]) /\ Busy(p) = {}
      BY <2>1, ErrorCountAssumption DEF PVs
    <3>2. ~At(p, {"count", "adjust"}) /\ ~At(p, {"test", "count"})
      BY <3>1 DEF At, Busy
    <3> QED
      BY <3>1, <3>2 DEF Marked
  <2> QED
    BY <1>1, <2>1, <2>2 DEF ReaderInv, At
<1>3. CASE ReadCount
  <2>1. since # {} => pvErrorCount # 0
    <3>1. ASSUME NEW p \in since PROVE p \in InCount
      BY <3>1, ErrorCountAssumption DEF ReaderInv, InCount, PVs, At
    <3> QED
      BY <3>1, InCountFinite, FS_EmptySet
  <2>2. since = {} \/ rpc' = "scan"
    BY <1>3, <2>1 DEF ReadCount
  <2>3. i' = i /\ status' = status /\ since' = since /\ rpc' \in {"done", "scan"} /\ rpc = "read"
    BY <1>3 DEF ReadCount
  <2>4. rpc' = "scan" => \A p \in since : i <= p
    BY <2>3 DEF ReaderInv
  <2> QED
    BY <1>1, <2>2, <2>3, <2>4 DEF ReaderInv, At
<1>4. CASE Scan
  <2>1. rpc = "scan" /\ since' = since
    BY <1>4 DEF Scan
  <2>2. CASE i > A
    <3>1. since = {}
      BY <2>1, <2>2, ErrorCountAssumption DEF ReaderInv
    <3>2. rpc' = "done" /\ i' = i /\ status' = status
      BY <1>4, <2>2 DEF Scan
    <3> QED
      BY <1>1, <2>1, <3>1, <3>2 DEF ReaderInv, At
  <2>3. CASE ~(i > A) /\ Bad(errorCode[i])
    <3>1. rpc' = "done" /\ i' = i /\ status' = TRUE
      BY <1>4, <2>3 DEF Scan
    <3> QED
      BY <1>1, <2>1, <3>1 DEF ReaderInv, At
  <2>4. CASE ~(i > A) /\ ~Bad(errorCode[i])
    <3>1. rpc' = "scan" /\ i' = i + 1 /\ status' = status
      BY <1>4, <2>1, <2>4 DEF Scan
    <3>2. (\A p \in since : i + 1 <= p) /\ i + 1 \in Nat \ {0}
      BY <2>1, <2>4, ErrorCountAssumption DEF ReaderInv
    <3>3. \A p \in since : Bad(errorCode'[p]) /\ isErrorCounted'[p] /\ ~At(p, {"count", "adjust"})'
      BY <1>1 DEF ReaderInv, At
    <3> QED
      BY <2>1, <3>1, <3>2, <3>3 DEF ReaderInv
  <2> QED
    BY <2>2, <2>3, <2>4
<1> QED
  BY <1>2, <1>3, <1>4

\* An error that has lasted since getValue began is marked and counted, or reported.
LEMMA ReaderInvariant == Spec => [](raced \/ ReaderInv)
<1>1. Init => ReaderInv
  BY DEF Init, ReaderInv
<1>2. (raced \/ ErrorInv) /\ (raced \/ ReaderInv) /\ [Next]_vars => (raced \/ ReaderInv)'
  <2>1. ASSUME ReaderInv, UNCHANGED vars PROVE ReaderInv'
    BY <2>1 DEF vars, item, reader, ReaderInv, At
  <2> QED
    BY <2>1, WritersKeepReader, ReaderSteps, RacedStays DEF Next
<1> QED
  BY <1>1, <1>2, CountInvariant, PTL DEF Spec

\* The shortcut of getValue on pvErrorCount (calab.cpp:907) hides no error that was
\* there when it began to compute the status and stays, until the writer without
\* ioMutex overlaps another writer of its PV.
THEOREM NoErrorHidden == Spec => []LastingErrorReported
<1>1. raced \/ ReaderInv => LastingErrorReported
  BY DEF ReaderInv, LastingErrorReported
<1> QED
  BY <1>1, ReaderInvariant, PTL
=============================================================================
