---------------------------- MODULE MCEventStore ----------------------------
(* Instances of the event log for TLC: two contents in one session, two ids *)
(* for each.                                                                *)
EXTENDS EventStore, TLC

CONSTANTS i1, i2, j1, j2, ki, kj

TwoIdsPerKey == i1 :> ki @@ i2 :> ki @@ j1 :> kj @@ j2 :> kj
OneSession == [k \in Keys |-> CHOOSE s \in Sessions : TRUE]
=============================================================================
