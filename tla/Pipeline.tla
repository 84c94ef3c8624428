------------------------------ MODULE Pipeline ------------------------------
(***************************************************************************)
(* cmd/wirepup/pipeline.go: runSources drains several sources at once, one *)
(* goroutine per source, into the sink of runDiagnose, and adds their      *)
(* counters and the first error up under a mutex.  The sink keeps the      *)
(* latest time stamp under one lock and applies the packet to the device   *)
(* table under another; between the two another source may come first.     *)
(***************************************************************************)
EXTENDS Source, FiniteSets

VARIABLES
  worker,     \* where each runSource stands
  item,       \* the packet it is working on
  applied,    \* what reached the device table, per source
  last,       \* the time stamp of the report, 0 before the first packet
  found,      \* what the error channel gave each runSource
  counted,    \* the source counters each runSource read
  total,      \* the sums: packets, received, dropped
  firstErr,
  main        \* "wait" or "returned"

workVars == <<worker, item, applied, last, found, counted, total, firstErr, main>>
vars == <<sourceVars, workVars>>

WorkerSteps == {"start", "range", "stamp", "apply", "errc", "stats", "merge", "done"}
NoCount == [received |-> 0, dropped |-> 0]

Init ==
  /\ SourceInit
  /\ worker = [s \in Sources |-> "start"]
  /\ item = [s \in Sources |-> <<>>]
  /\ applied = [s \in Sources |-> <<>>]
  /\ last = 0
  /\ found = [s \in Sources |-> "none"]
  /\ counted = [s \in Sources |-> NoCount]
  /\ total = [packets |-> 0, received |-> 0, dropped |-> 0]
  /\ firstErr = "none"
  /\ main = "wait"

Works(s, from, to) == worker[s] = from /\ worker' = [worker EXCEPT ![s] = to]

\* A context that has ended starts no reader.
Begin(s) ==
  /\ ~Cancelled
  /\ Works(s, "start", "range")
  /\ reader' = [reader EXCEPT ![s] = "top"]
  /\ UNCHANGED <<ctx, wire, seen, hand, buf, errc, item, applied, last, found,
                 counted, total, firstErr, main>>

BeginCancelled(s) ==
  /\ Cancelled
  /\ Works(s, "start", "stats")
  /\ UNCHANGED <<sourceVars, item, applied, last, found, counted, total, firstErr, main>>

Take(s) ==
  /\ Works(s, "range", "stamp")
  /\ buf[s] # <<>>
  /\ item' = [item EXCEPT ![s] = <<Head(buf[s])>>]
  /\ buf' = [buf EXCEPT ![s] = Tail(@)]
  /\ UNCHANGED <<ctx, wire, reader, seen, hand, errc, applied, last, found,
                 counted, total, firstErr, main>>

\* Mutant: the last packet that came, not the latest one.
StampPlain(s) ==
  /\ Works(s, "stamp", "apply")
  /\ last' = item[s][1]
  /\ UNCHANGED <<sourceVars, item, applied, found, counted, total, firstErr, main>>

Stamp(s) ==
  /\ Works(s, "stamp", "apply")
  /\ last' = IF item[s][1] > last THEN item[s][1] ELSE last
  /\ UNCHANGED <<sourceVars, item, applied, found, counted, total, firstErr, main>>

Apply(s) ==
  /\ Works(s, "apply", "range")
  /\ applied' = [applied EXCEPT ![s] = Append(@, item[s][1])]
  /\ item' = [item EXCEPT ![s] = <<>>]
  /\ UNCHANGED <<sourceVars, last, found, counted, total, firstErr, main>>

\* The range loop ends when the channel is empty and closed.
Drained(s) ==
  /\ Works(s, "range", "errc")
  /\ buf[s] = <<>> /\ OutClosed(s)
  /\ UNCHANGED <<sourceVars, item, applied, last, found, counted, total, firstErr, main>>

TakeError(s) ==
  /\ Works(s, "errc", "stats")
  /\ errc[s] = "error" \/ ErrcClosed(s)
  /\ found' = [found EXCEPT ![s] = errc[s]]
  /\ errc' = [errc EXCEPT ![s] = "none"]
  /\ UNCHANGED <<ctx, wire, reader, seen, hand, buf, item, applied, last,
                 counted, total, firstErr, main>>

ReadStats(s) ==
  /\ Works(s, "stats", "merge")
  /\ counted' = [counted EXCEPT ![s] = Stats(s)]
  /\ UNCHANGED <<sourceVars, item, applied, last, found, total, firstErr, main>>

\* Mutant: the last result decides on the error.
MergeLastError(s) ==
  /\ Works(s, "merge", "done")
  /\ total' = [packets  |-> total.packets + Len(applied[s]),
               received |-> total.received + counted[s].received,
               dropped  |-> total.dropped + counted[s].dropped]
  /\ firstErr' = found[s]
  /\ UNCHANGED <<sourceVars, item, applied, last, found, counted, main>>

Merge(s) ==
  /\ Works(s, "merge", "done")
  /\ total' = [packets  |-> total.packets + Len(applied[s]),
               received |-> total.received + counted[s].received,
               dropped  |-> total.dropped + counted[s].dropped]
  /\ firstErr' = IF found[s] # "none" /\ firstErr = "none" THEN found[s] ELSE firstErr
  /\ UNCHANGED <<sourceVars, item, applied, last, found, counted, main>>

\* wg.Wait
Wait ==
  /\ main = "wait"
  /\ \A s \in Sources : worker[s] = "done"
  /\ main' = "returned"
  /\ UNCHANGED <<sourceVars, worker, item, applied, last, found, counted, total, firstErr>>

Over == main = "returned" /\ UNCHANGED vars

RunSource(s) ==
  \/ Begin(s) \/ BeginCancelled(s)
  \/ Take(s) \/ Stamp(s) \/ Apply(s)
  \/ Drained(s) \/ TakeError(s) \/ ReadStats(s) \/ Merge(s)

Reader(s)  == ReadLoop(s) /\ UNCHANGED workVars
Outside    == (Cancel \/ \E s \in Sockets : Arrive(s)) /\ UNCHANGED workVars

Next ==
  \/ \E s \in Sources : RunSource(s) \/ Reader(s)
  \/ Wait \/ Over \/ Outside

Fairness == WF_vars(Wait) /\ \A s \in Sources : WF_vars(RunSource(s)) /\ WF_vars(Reader(s))

Spec == Init /\ [][Next]_vars /\ Fairness

-----------------------------------------------------------------------------
(* Properties.                                                             *)

WorkTypeOK ==
  /\ worker \in [Sources -> WorkerSteps]
  /\ item \in [Sources -> Seq(Times)]
  /\ applied \in [Sources -> Seq(Times)]
  /\ last \in Nat
  /\ found \in [Sources -> {"none", "error"}]
  /\ counted \in [Sources -> [received : Nat, dropped : Nat]]
  /\ total \in [packets : Nat, received : Nat, dropped : Nat]
  /\ firstErr \in {"none", "error"}
  /\ main \in {"wait", "returned"}
  /\ \A s \in Sources :
       /\ Len(item[s]) = (IF worker[s] \in {"stamp", "apply"} THEN 1 ELSE 0)
       /\ worker[s] = "start" => reader[s] = "idle"

\* Types of the pipeline: an item in hand exactly between receiving a packet
\* and applying it, and no reader before its worker has started it.
TypeOK == SourceTypeOK /\ WorkTypeOK

\* Packets reach the table once and in the order their source read them
\* ("packet order within a file is preserved per source", pipeline.go).
D == INSTANCE Delivery WITH got <- applied, Packet <- Times
InOrder == D!Spec

\* At the end everything read has been applied, but for the one packet a
\* reader held when the context ended; a file that could be read and was not
\* cut short was applied whole.
AllDelivered ==
  main = "returned" => \A s \in Sources :
    /\ Len(seen[s]) - Len(applied[s]) <= (IF Cancelled THEN 1 ELSE 0)
    /\ s \in Files \ Faulty /\ ~Cancelled => Len(applied[s]) = FileLength

\* The closing line adds up: the packets processed are those applied, over
\* all sources, and with the dropped ones they are no more than received.
TotalsAddUp ==
  main = "returned" =>
    /\ total.packets = Cardinality(UNION {{s} \X DOMAIN applied[s] : s \in Sources})
    /\ total.packets + total.dropped <= total.received

\* An error of any source is the outcome of the whole, whatever the others do.
ErrorKept ==
  \A s \in Sources : [](errc[s] = "error" => [](main = "returned" => firstErr = "error"))

\* What the sources report one after the other is added up whole.
ResultsMerged == []TotalsAddUp /\ ErrorKept

\* The time of the report is that of the latest packet applied, whatever the
\* order in which the sources came; it is the time of a packet that was read.
LastIsLatest ==
  /\ \A s \in Sources : \A i \in DOMAIN applied[s] : applied[s][i] <= last
  /\ last # 0 => \E s \in Sources : \E i \in DOMAIN seen[s] : seen[s][i] = last

\* An observation that is ended ends, also on a silent network and with a
\* reader before a full channel.
EndsWhenCancelled == Cancelled ~> main = "returned"

\* A capture file is replayed to its end, or to its damage, while live
\* sources beside it go on.
FilesEnd == \A s \in Files : <>(worker[s] = "done")

\* The end comes, on any network and with any mixture of sources.
ObservationEnds == EndsWhenCancelled /\ FilesEnd

=============================================================================
