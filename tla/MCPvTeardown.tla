---------------------------- MODULE MCPvTeardown ----------------------------
(* An instance of PvTeardown for TLC: how often each VI is reserved, and what *)
(* else happens, once.                                                       *)
EXTENDS PvTeardown

CONSTANTS plain, nomdel, wanting

Mix(who, what) == [k \in VIs \cup {"outage", "change", "timeout", "event"} |->
                     IF k \in DOMAIN who THEN who[k] ELSE IF k \in what THEN 1 ELSE 0]
Mixes ==
  {Mix([v \in {plain, nomdel} |-> 1], {}), Mix([v \in {wanting} |-> 2], {}),
   Mix([v \in {wanting} |-> 1], {"event"})}
  \cup {Mix([v \in {nomdel} |-> 2], {one}) : one \in {"outage", "change", "timeout"}}
=============================================================================
