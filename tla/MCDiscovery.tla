----------------------------- MODULE MCDiscovery -----------------------------
(* Two clients that use the same search id for two names, one of them with *)
(* a second search, and two servers on one host: the first hosts the first *)
(* name, the second both.                                                  *)
EXTENDS Discovery, TLC

CONSTANTS a, b, c1, c2, h1, h2, x, y

MCQueries == {[client |-> c1, id |-> 1, pv |-> x], [client |-> c2, id |-> 1, pv |-> y],
              [client |-> c1, id |-> 2, pv |-> y]}
First == [host |-> h1, port |-> 1]
Second == [host |-> h1, port |-> 2]
MCServers == {First, Second}
MCServes == (First :> {x}) @@ (Second :> {x, y})

Interchangeable == Permutations(Sources)

=============================================================================
