---------------------------- MODULE MCEpicsFind ----------------------------
(* Two PVA servers that start and move; two clients' searches, one more    *)
(* than the table lists; a server reached by both destinations.            *)
EXTENDS EpicsFind

CONSTANTS g1, g2, v1, v2, d1, d2

MCQueries == {[key |-> "k1", pv |-> "this"], [key |-> "k2", pv |-> "that"],
  [key |-> "k3", pv |-> "that"]}
MCReach == [d \in Destinations |-> IF d = d1 THEN {v1} ELSE {v1, v2}]
=============================================================================
