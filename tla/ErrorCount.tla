---------------------------- MODULE ErrorCount ----------------------------
(***************************************************************************)
(* The error code of a PVItem, the global counter of the PVs in an error   *)
(* state (PVItem::setErrorCode, Globals::pvErrorCount), and the status     *)
(* that getValue derives from them: nothing is looked at when the counter  *)
(* is zero, else the error codes of the call's PVs.                        *)
(*                                                                         *)
(* The callbacks of Channel Access, the worker and the VIs set the code    *)
(* with ioMutex held.  Unlocked is the one that does not: valueChanged,    *)
(* when the request for the labels of an enum is refused.                  *)
(***************************************************************************)
EXTENDS Integers, FiniteSets

CONSTANTS N,         \* the PVs are 1 .. N
          A,         \* those of the call are 1 .. A
          Writers,   \* threads that set error codes
          Unlocked,  \* those among them that do it without ioMutex
          Codes,     \* the error codes
          IntMax,    \* largest int in the code
          None

PVs == 1 .. N
Bad(c) == c # "ECA_NORMAL"

ASSUME ErrorCountAssumption ==
  /\ N \in Nat /\ A \in 0 .. N
  /\ IntMax \in Nat /\ N <= IntMax
  /\ Unlocked \subseteq Writers
  /\ {"ECA_NORMAL", "ECA_DISCONNCHID"} \subseteq Codes
  /\ None \notin Writers \cup PVs

VARIABLES errorCode, isErrorCounted,  \* per PV
          ioMutex,                    \* per PV: its holder
          pvErrorCount,
          pc, pv, code,               \* per writer: next step, arguments
          rpc, i, status,             \* the reader: getValue
          since,   \* PVs of the call that have been in error since the reader began
          seen,    \* PVs of the call that have been in error at any time since then
          raced    \* history: a writer without ioMutex has overlapped another at one PV

item == <<errorCode, isErrorCounted>>
reader == <<rpc, i, status>>
vars == <<item, ioMutex, pvErrorCount, pc, pv, code, reader, since, seen, raced>>

\* Mutant: a new PVItem is neither marked nor counted.
InitUncounted ==
  /\ errorCode = [p \in PVs |-> "ECA_DISCONNCHID"]
  /\ isErrorCounted = [p \in PVs |-> FALSE]
  /\ ioMutex = [p \in PVs |-> None]
  /\ pvErrorCount = 0
  /\ pc = [w \in Writers |-> "idle"]
  /\ pv = [w \in Writers |-> None]
  /\ code = [w \in Writers |-> "ECA_NORMAL"]
  /\ rpc = "idle" /\ i = 1 /\ status = FALSE
  /\ since = {} /\ seen = {} /\ raced = FALSE

\* A new PVItem is disconnected and counted.
Init ==
  /\ errorCode = [p \in PVs |-> "ECA_DISCONNCHID"]
  /\ isErrorCounted = [p \in PVs |-> TRUE]
  /\ ioMutex = [p \in PVs |-> None]
  /\ pvErrorCount = N
  /\ pc = [w \in Writers |-> "idle"]
  /\ pv = [w \in Writers |-> None]
  /\ code = [w \in Writers |-> "ECA_NORMAL"]
  /\ rpc = "idle" /\ i = 1 /\ status = FALSE
  /\ since = {} /\ seen = {} /\ raced = FALSE

-----------------------------------------------------------------------------
(* setErrorCode                                                            *)

\* The writers that are in setErrorCode for a PV.
Busy(p) == {w \in Writers : pc[w] # "idle" /\ pv[w] = p}

\* The atomic int counter wraps.
Incr(n) == IF n = IntMax THEN -IntMax - 1 ELSE n + 1
Decr(n) == IF n = -IntMax - 1 THEN IntMax ELSE n - 1

\* Mutant: nobody waits for ioMutex.
CallNoMutex(w) ==
  /\ pc[w] = "idle"
  /\ \E p \in PVs, c \in Codes :
       /\ pv' = [pv EXCEPT ![w] = p]
       /\ code' = [code EXCEPT ![w] = c]
       /\ w \in Unlocked => Bad(c)
       /\ ioMutex' = IF w \in Unlocked THEN ioMutex ELSE [ioMutex EXCEPT ![p] = w]
       /\ raced' = (raced \/ (w \in Unlocked /\ Busy(p) # {}) \/ Busy(p) \cap Unlocked # {})
  /\ pc' = [pc EXCEPT ![w] = "compare"]
  /\ UNCHANGED <<item, pvErrorCount, reader, since, seen>>

\* The caller takes ioMutex, if it does, and calls.
Call(w) ==
  /\ pc[w] = "idle"
  /\ \E p \in PVs, c \in Codes :
       /\ pv' = [pv EXCEPT ![w] = p]
       /\ code' = [code EXCEPT ![w] = c]
       /\ w \in Unlocked => Bad(c)
       /\ IF w \in Unlocked THEN UNCHANGED ioMutex
          ELSE ioMutex[p] = None /\ ioMutex' = [ioMutex EXCEPT ![p] = w]
       /\ raced' = (raced \/ (w \in Unlocked /\ Busy(p) # {}) \/ Busy(p) \cap Unlocked # {})
  /\ pc' = [pc EXCEPT ![w] = "compare"]
  /\ UNCHANGED <<item, pvErrorCount, reader, since, seen>>

Compare(w) ==
  /\ pc[w] = "compare"
  /\ pc' = [pc EXCEPT ![w] = IF errorCode[pv[w]] = code[w] THEN "return" ELSE "store"]
  /\ UNCHANGED <<item, ioMutex, pvErrorCount, pv, code, reader, since, seen, raced>>

Store(w) ==
  /\ pc[w] = "store"
  /\ errorCode' = [errorCode EXCEPT ![pv[w]] = code[w]]
  /\ since' = IF Bad(code[w]) THEN since ELSE since \ {pv[w]}
  /\ seen' = IF Bad(code[w]) THEN seen \cup ({pv[w]} \cap 1 .. A) ELSE seen
  /\ pc' = [pc EXCEPT ![w] = "test"]
  /\ UNCHANGED <<isErrorCounted, ioMutex, pvErrorCount, pv, code, reader, raced>>

TestCounted(w) ==
  /\ pc[w] = "test"
  /\ pc' = [pc EXCEPT ![w] = IF isErrorCounted[pv[w]] = Bad(code[w]) THEN "return" ELSE "count"]
  /\ UNCHANGED <<item, ioMutex, pvErrorCount, pv, code, reader, since, seen, raced>>

StoreCounted(w) ==
  /\ pc[w] = "count"
  /\ isErrorCounted' = [isErrorCounted EXCEPT ![pv[w]] = Bad(code[w])]
  /\ pc' = [pc EXCEPT ![w] = "adjust"]
  /\ UNCHANGED <<errorCode, ioMutex, pvErrorCount, pv, code, reader, since, seen, raced>>

Adjust(w) ==
  /\ pc[w] = "adjust"
  /\ pvErrorCount' = IF Bad(code[w]) THEN Incr(pvErrorCount) ELSE Decr(pvErrorCount)
  /\ pc' = [pc EXCEPT ![w] = "return"]
  /\ UNCHANGED <<item, ioMutex, pv, code, reader, since, seen, raced>>

Return(w) ==
  /\ pc[w] = "return"
  /\ ioMutex' = IF w \in Unlocked THEN ioMutex ELSE [ioMutex EXCEPT ![pv[w]] = None]
  /\ pc' = [pc EXCEPT ![w] = "idle"]
  /\ pv' = [pv EXCEPT ![w] = None]
  /\ code' = [code EXCEPT ![w] = "ECA_NORMAL"]
  /\ UNCHANGED <<item, pvErrorCount, reader, since, seen, raced>>

-----------------------------------------------------------------------------
(* getValue's status                                                       *)

ReadBegin ==
  /\ rpc \in {"idle", "done"}
  /\ rpc' = "read" /\ i' = 1 /\ status' = FALSE
  /\ since' = {p \in 1 .. A : Bad(errorCode[p]) /\ Busy(p) = {}}
  /\ seen' = {p \in 1 .. A : Bad(errorCode[p])}
  /\ UNCHANGED <<item, ioMutex, pvErrorCount, pc, pv, code, raced>>

\* Mutant: the status is taken from the counter alone.
ReadCountOnly ==
  /\ rpc = "read"
  /\ rpc' = "done" /\ status' = (pvErrorCount # 0)
  /\ UNCHANGED <<item, ioMutex, pvErrorCount, pc, pv, code, i, since, seen, raced>>

\* With no error counted the PVs are not looked at.
ReadCount ==
  /\ rpc = "read"
  /\ rpc' = IF pvErrorCount = 0 THEN "done" ELSE "scan"
  /\ UNCHANGED <<item, ioMutex, pvErrorCount, pc, pv, code, i, status, since, seen, raced>>

\* The scan ends at the first PV in error.
Scan ==
  /\ rpc = "scan"
  /\ IF i > A THEN rpc' = "done" /\ UNCHANGED <<i, status>>
     ELSE IF Bad(errorCode[i]) THEN rpc' = "done" /\ status' = TRUE /\ UNCHANGED i
     ELSE i' = i + 1 /\ UNCHANGED <<rpc, status>>
  /\ UNCHANGED <<item, ioMutex, pvErrorCount, pc, pv, code, since, seen, raced>>

-----------------------------------------------------------------------------
SetStep(w) == \/ Call(w) \/ Compare(w) \/ Store(w) \/ TestCounted(w)
              \/ StoreCounted(w) \/ Adjust(w) \/ Return(w)

Next == (\E w \in Writers : SetStep(w)) \/ ReadBegin \/ ReadCount \/ Scan

Spec == Init /\ [][Next]_vars

-----------------------------------------------------------------------------
\* Type invariant.
TypeOK ==
  /\ errorCode \in [PVs -> Codes]
  /\ isErrorCounted \in [PVs -> BOOLEAN]
  /\ ioMutex \in [PVs -> Writers \cup {None}]
  /\ pvErrorCount \in -IntMax - 1 .. IntMax
  /\ pc \in [Writers -> {"idle", "compare", "store", "test", "count", "adjust", "return"}]
  /\ pv \in [Writers -> PVs \cup {None}]
  /\ code \in [Writers -> Codes]
  /\ rpc \in {"idle", "read", "scan", "done"}
  /\ i \in 1 .. A + 1
  /\ status \in BOOLEAN
  /\ since \in SUBSET (1 .. A) /\ seen \in SUBSET (1 .. A)
  /\ raced \in BOOLEAN

InError == {p \in PVs : Bad(errorCode[p])}

\* Whenever no code is being set, pvErrorCount is the number of the PVs that
\* are in an error state, which is what globals.h says it is: until the writer
\* without ioMutex has overlapped another one (README, Deviations).
CountsErrors ==
  (\A p \in PVs : Busy(p) = {}) => raced \/ pvErrorCount = Cardinality(InError)

\* Whatever is set meanwhile, an error that was there when getValue began to
\* compute its status, and stays, makes the status non-zero: the shortcut on
\* the counter hides no error, until the counter is off because the writer
\* without ioMutex has overlapped another one.
LastingErrorReported == rpc = "done" /\ since # {} => raced \/ status

\* changelog.txt: a non-zero status is reported only for an error that one of
\* the call's PVs has, not for one it once had, however the counter is off.
ReportedErrorIsReal == rpc = "done" /\ status => seen # {}
=============================================================================
