------------------------------ MODULE Delivery ------------------------------
(***************************************************************************)
(* What the capture pipeline promises to the correlator: the packets of a  *)
(* source arrive once and in the order the source read them.  Nothing is   *)
(* promised between two sources.                                           *)
(***************************************************************************)
EXTENDS Naturals, Sequences

CONSTANTS Sources, Packet

VARIABLES
  seen,   \* per source, the packets read so far
  got     \* per source, the packets handed to the correlator

vars == <<seen, got>>

Init ==
  /\ seen = [s \in Sources |-> <<>>]
  /\ got = [s \in Sources |-> <<>>]

See(s) ==
  /\ \E p \in Packet : seen' = [seen EXCEPT ![s] = Append(@, p)]
  /\ UNCHANGED got

Deliver(s) ==
  /\ Len(got[s]) < Len(seen[s])
  /\ got' = [got EXCEPT ![s] = Append(@, seen[s][Len(@) + 1])]
  /\ UNCHANGED seen

Next == \E s \in Sources : See(s) \/ Deliver(s)

Spec == Init /\ [][Next]_vars

=============================================================================
