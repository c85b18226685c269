------------------------------ MODULE PutData ------------------------------
(***************************************************************************)
(* What putValue (calab.cpp, Stage C) writes to each PV: which elements of *)
(* the value array, which the caller gives as rows x cols, and what a      *)
(* number becomes on its way to the native type of the channel.  Elements  *)
(* and PVs count from 0.  Numbers count in units of 1/One, the widths of   *)
(* the integer types and the numbers that a double, a float and 15 decimal *)
(* digits can hold are constants, so that TLC can enumerate values on both *)
(* sides of each limit.  Numeric texts are shorter than MAX_STRING_SIZE.   *)
(* Names begin with Data where PutCompletion, the other half of putValue,  *)
(* has the same ones: PutValueProofs extends both.                         *)
(***************************************************************************)
EXTENDS Integers

CONSTANTS MaxNames, MaxRows, MaxCols,  \* bounds on the inputs
          Capacities,                  \* element counts of channels, 0 = unknown
          Values,                      \* elements to write: integers, or units
          U8, S16, U16, S32, S64,      \* largest unsigned char, short, ...
          One,                         \* the units of the number 1
          Doubles, Floats, Decimals,   \* what a double, a float, "%.15g" can hold
          Infinity                     \* what a double or a float becomes above that

ASSUME BoundsAssumption ==
  /\ MaxNames \in Nat \ {0} /\ MaxRows \in Nat /\ MaxCols \in Nat
  /\ Capacities \subseteq Nat /\ Values \subseteq Int
ASSUME WidthAssumption ==
  /\ U8 \in Nat \ {0} /\ S16 \in Nat /\ U16 \in Nat /\ S32 \in Nat
  /\ U8 <= S16 /\ U16 = 2 * S16 + 1 /\ U16 <= S32
  /\ S64 \in Nat /\ S32 <= S64
ASSUME NumberAssumption ==
  /\ One \in Nat \ {0} /\ Infinity \in Nat
  /\ Doubles \subseteq Int /\ Floats \subseteq Doubles /\ Decimals \subseteq Int
  /\ \A n \in -S32 - 1 .. S32 : n * One \in Doubles
  /\ \A y \in Doubles \cup Decimals : -Infinity < y /\ y < Infinity

VARIABLES names,       \* nameCount
          rows, cols,  \* getDimensions
          source,      \* DataType
          step, pvIndex,
          put          \* the write of this PV

dataVars == <<names, rows, cols, source, step, pvIndex, put>>

Sources == {"double", "char", "short", "long", "quad", "string"}
Natives == {"DBF_STRING", "DBF_SHORT", "DBF_FLOAT", "DBF_ENUM", "DBF_CHAR", "DBF_LONG", "DBF_DOUBLE"}
NoPut   == [pv |-> -1]

DataInit ==
  /\ names \in 1 .. MaxNames
  /\ rows \in 0 .. MaxRows /\ cols \in 0 .. MaxCols
  /\ source \in Sources
  /\ step = "check" /\ pvIndex = 0
  /\ put = NoPut

-----------------------------------------------------------------------------
(* The part of the array that belongs to PV p.                             *)

width == IF cols = 0 THEN 1 ELSE cols

\* Mutant: every PV gets a whole row.
availableCountRow(p) == width

availableCount(p) ==
  IF rows # names /\ names # 1 /\ (cols = 1 \/ cols = names) THEN 1 ELSE width

\* Mutant: a single row is not shared.
startIndexOwn(p) == p * width

startIndex(p) ==
  IF rows = names THEN p * width
  ELSE IF names # 1 /\ cols # 1 /\ cols = names THEN p
  ELSE 0

nToWrite(p, capacity) ==
  IF capacity # 0 /\ capacity < availableCount(p) THEN capacity ELSE availableCount(p)

-----------------------------------------------------------------------------
(* The conversions.                                                        *)

\* Mutant: the lower limit is forgotten.
SaturateHigh(lo, hi, v) == IF v > hi THEN hi ELSE v

Saturate(lo, hi, v) == IF v < lo THEN lo ELSE IF v > hi THEN hi ELSE v

\* The low bits of an element, as a signed number of that width.
SignedBits(raw, n) == IF raw % n < n \div 2 THEN raw % n ELSE (raw % n) - n

decodeSigned(raw) ==
  CASE source = "char"  -> SignedBits(raw, U8 + 1)
    [] source = "short" -> SignedBits(raw, U16 + 1)
    [] source = "long"  -> SignedBits(raw, 2 * (S32 + 1))
    [] source = "quad"  -> SignedBits(raw, 2 * (S64 + 1))

isInteger == source \in {"char", "short", "long", "quad"}

Abs(x) == IF x < 0 THEN -x ELSE x

\* The nearest number of a type, either one if two are; infinite above the largest.
RoundTo(S, x) ==
  IF Abs(x) = Infinity THEN {x}
  ELSE {y \in S : ~\E z \in S : Abs(x - z) < Abs(x - y)}
       \cup (IF \A y \in S : y < x THEN {Infinity} ELSE {})
       \cup (IF \A y \in S : x < y THEN {-Infinity} ELSE {})

Whole(x) == IF x < 0 THEN -((-x) \div One) ELSE x \div One

\* static_cast<long long>: to zero; undefined beyond 64 bits, where the builds
\* give the lowest integer (x86) or the nearer limit.
CastLong(x) ==
  IF Whole(x) \in -S64 - 1 .. S64 THEN {Whole(x)} ELSE {-S64 - 1, S64}

Clamped(lo, hi, x) == {Saturate(lo, hi, n) * One : n \in CastLong(x)}

\* An element as the code first holds it; a text is parsed for a native number.
Element(native, raw) ==
  CASE isInteger -> {decodeSigned(raw) * One}
    [] source = "string" /\ native # "DBF_STRING" -> RoundTo(Doubles, raw)
    [] OTHER -> {raw}

\* Integers to characters keep their low byte.
Convert(native, x) ==
  CASE native = "DBF_SHORT"  -> Clamped(-S16 - 1, S16, x)
    [] native = "DBF_ENUM"   -> Clamped(0, U16, x)
    [] native = "DBF_LONG"   -> Clamped(-S32 - 1, S32, x)
    [] native = "DBF_CHAR"   -> IF isInteger THEN {(Whole(x) % (U8 + 1)) * One} ELSE Clamped(0, U8, x)
    [] native = "DBF_FLOAT"  -> RoundTo(Floats, x)
    [] native = "DBF_DOUBLE" -> RoundTo(Doubles, x)
    [] native = "DBF_STRING" -> IF source = "double" THEN RoundTo(Decimals, x) ELSE {x}

Written(native, raw) == UNION {Convert(native, x) : x \in Element(native, raw)}

-----------------------------------------------------------------------------
CheckRows ==
  /\ step = "check"
  /\ step' = IF rows # 0 /\ rows # names /\ rows # 1 THEN "rejected" ELSE "write"
  /\ UNCHANGED <<names, rows, cols, source, pvIndex, put>>

WritePv(native, capacity, raw) ==
  /\ step = "write"
  /\ source = "string" => native # "DBF_CHAR"
  /\ source = "double" => raw \in Doubles \cup {Infinity, -Infinity}
  /\ \E value \in Written(native, raw) :
       put' = [pv |-> pvIndex, start |-> startIndex(pvIndex), count |-> nToWrite(pvIndex, capacity),
               capacity |-> capacity, native |-> native, raw |-> raw, value |-> value]
  /\ step' = "sent"
  /\ UNCHANGED <<names, rows, cols, source, pvIndex>>

\* A string for a character array is written as its bytes, a single zero if it is
\* empty, whatever the number of columns.
WriteBytes(length, capacity) ==
  /\ step = "write" /\ source = "string"
  /\ put' = [pv |-> pvIndex, start |-> startIndex(pvIndex), count |-> 1,
             capacity |-> capacity, native |-> "bytes",
             bytes |-> IF length = 0 THEN 1
                       ELSE IF capacity # 0 /\ capacity < length THEN capacity ELSE length]
  /\ step' = "sent"
  /\ UNCHANGED <<names, rows, cols, source, pvIndex>>

\* The end of an iteration, also of one whose PV is not connected.
NextValue ==
  /\ step \in {"write", "sent"}
  /\ pvIndex' = pvIndex + 1 /\ step' = (IF pvIndex + 1 < names THEN "write" ELSE "end")
  /\ put' = NoPut
  /\ UNCHANGED <<names, rows, cols, source>>

DataNext ==
  \/ CheckRows \/ NextValue
  \/ \E capacity \in Capacities :
       \/ \E native \in Natives, raw \in Values : WritePv(native, capacity, raw)
       \/ \E length \in 0 .. MaxCols : WriteBytes(length, capacity)

DataSpec == DataInit /\ [][DataNext]_dataVars

-----------------------------------------------------------------------------
(* Properties.                                                             *)

Put == put # NoPut
Numeric == Put /\ put.native # "bytes"
NotEmpty == rows > 0 /\ cols > 0

\* The types of the state.
DataTypeOK ==
  /\ names \in 1 .. MaxNames /\ rows \in 0 .. MaxRows /\ cols \in 0 .. MaxCols
  /\ source \in Sources
  /\ step \in {"check", "rejected", "write", "sent", "end"} /\ pvIndex \in 0 .. names
  /\ (step \in {"write", "sent"} => pvIndex < names)
  /\ Put => put.pv \in 0 .. names - 1 /\ put.start \in Nat /\ put.count \in Nat

\* A write reads elements of the array only, for every layout that is accepted and
\* that has elements.
InBounds == Put /\ NotEmpty => put.start + put.count <= rows * cols

\* An array with one value per PV gives each PV its own value, whether it is laid out
\* as a column or as a row.
OneValuePerPv ==
  Numeric /\ NotEmpty /\ rows * cols = names => put.start = put.pv /\ put.count = 1

\* The numbers of a native type.
Held(native) ==
  CASE native = "DBF_SHORT"  -> {n * One : n \in -S16 - 1 .. S16}
    [] native = "DBF_ENUM"   -> {n * One : n \in 0 .. U16}
    [] native = "DBF_LONG"   -> {n * One : n \in -S32 - 1 .. S32}
    [] native = "DBF_CHAR"   -> {n * One : n \in 0 .. U8}
    [] native = "DBF_FLOAT"  -> Floats
    [] native = "DBF_DOUBLE" -> Doubles
    [] native = "DBF_STRING" -> Decimals

Infinite(native) == IF native \in {"DBF_FLOAT", "DBF_DOUBLE"} THEN {Infinity, -Infinity} ELSE {}

\* y would have been as near to x as v, on the same side, or x itself.
Skips(x, y, v) == (x <= y /\ y < v) \/ (v < y /\ y <= x)

\* The conversions that are defined: an integer of its type, which fits a character
\* that gets its low byte, or a number within 64 bits.
Convertible(native, raw) ==
  /\ isInteger => decodeSigned(raw) = raw /\ (native = "DBF_CHAR" => raw \in 0 .. U8)
  /\ native \in {"DBF_SHORT", "DBF_ENUM", "DBF_LONG", "DBF_CHAR"} =>
       \A x \in Element(native, raw) : Whole(x) \in -S64 - 1 .. S64

Number(raw) == IF isInteger THEN raw * One ELSE raw

\* What is written is a number of the native type, and through all the steps of a
\* conversion (text to double, double to 64 bits, clamp, rounding) no number of the native
\* type is passed over: one it can hold arrives as it is, another becomes a neighbour of
\* it, or the limit on its side.
NumberSurvives ==
  Numeric =>
    /\ put.native # "DBF_STRING" => put.value \in Held(put.native) \cup Infinite(put.native)
    /\ Convertible(put.native, put.raw) =>
         \A y \in Held(put.native) : ~Skips(Number(put.raw), y, put.value)

-----------------------------------------------------------------------------
(* Expectations that the code does not meet: see the README, Deviations.   *)

\* calab.cpp:1464 "Value array rows must match PV count or be 1".
RowsMatch == step = "write" => rows = names \/ rows = 1

\* calab.cpp:1598 clamps what does not fit: it becomes the limit on its side.
OnItsSide ==
  Numeric => \A y \in Held(put.native) : ~Skips(Number(put.raw), y, put.value)
=============================================================================
