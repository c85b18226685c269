------------------------------ MODULE MCPutData ------------------------------
(* Instances of PutData for TLC: halves and integers on both sides of every *)
(* limit.  A double holds every half to 16, then even numbers to 32, then   *)
(* multiples of 8; a float every half to 2, integers to 4, then 8 and 16.   *)
EXTENDS PutData

Mirrored(S) == S \cup {-x : x \in S}

SomeDoubles == Mirrored(0 .. 32 \cup {4 * n : n \in 9 .. 16} \cup {80, 96})
SomeFloats == Mirrored({0, 1, 2, 3, 4, 6, 8, 16, 32})
SomeDecimals == Mirrored(0 .. 20 \cup {10 * n : n \in 3 .. 10})
SomeValues == {-1000, -96, -64, -36, -18, -9, -8, -5, -3, -1, 0, 1, 2, 3, 4, 5, 7, 8, 15, 16, 22, 31, 33, 66, 99, 1000}
=============================================================================
