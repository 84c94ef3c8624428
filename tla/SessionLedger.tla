---------------------------- MODULE SessionLedger ----------------------------
(***************************************************************************)
(* What networkcfg promises about its session file, without locks, steps   *)
(* or child processes: a ledger of address changes.  An entry is recorded  *)
(* before its address is configured, an entry is dropped only when its     *)
(* address is not configured, entries are appended in time order, and one  *)
(* update never disturbs another entry.                                    *)
(***************************************************************************)
EXTENDS Naturals

CONSTANT Entry   \* records with a field stamp, the time of the entry

VARIABLES
  recorded,      \* the entries in the file
  live           \* the stamps of the entries whose address is configured

vars == <<recorded, live>>

Init == recorded = {} /\ live = {}

Record(e) ==
  /\ \A f \in recorded : f.stamp < e.stamp
  /\ e.stamp \notin live
  /\ recorded' = recorded \cup {e}
  /\ UNCHANGED live

Apply(e) ==
  /\ e \in recorded
  /\ live' = live \cup {e.stamp}
  /\ UNCHANGED recorded

\* Addresses go away: deleted by wirepup or by anything else.
Vanish ==
  /\ live' \subseteq live
  /\ UNCHANGED recorded

Forget(e) ==
  /\ e \in recorded
  /\ e.stamp \notin live
  /\ recorded' = recorded \ {e}
  /\ UNCHANGED live

Next == Vanish \/ \E e \in Entry : Record(e) \/ Apply(e) \/ Forget(e)

Spec == Init /\ [][Next]_vars

=============================================================================
