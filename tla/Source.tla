------------------------------- MODULE Source -------------------------------
(***************************************************************************)
(* internal/capture: the receive loop of a live socket (afpacket) and of a *)
(* capture file (pcapfile), each a goroutine that fills a bounded channel  *)
(* of packets until the context ends, the file ends or reading fails, and  *)
(* then closes the error channel and the packet channel, in that order.    *)
(*                                                                         *)
(* Of a packet the model keeps its time stamp, which is the kernel's or    *)
(* the file's and need not grow.                                           *)
(***************************************************************************)
EXTENDS Naturals, Sequences

CONSTANTS
  Sockets, Files,
  Faulty,        \* the sources whose reads may fail
  FileLength,    \* packets in each file
  Buffer,        \* packetBuffer
  Room,          \* what a socket's receive queue holds
  MaxArrivals,   \* how many frames reach a socket at most (bound)
  Times

ASSUME SourceAssumption ==
  /\ Sockets \cap Files = {} /\ Faulty \subseteq Sockets \cup Files
  /\ FileLength \in Nat /\ Buffer \in Nat \ {0} /\ Room \in Nat \ {0}
  /\ MaxArrivals \in Nat /\ Times \subseteq Nat \ {0}

VARIABLES
  ctx,       \* "live" or "done"
  arrived,   \* frames that reached a socket
  waiting,   \* frames in a socket's queue, packets left in a file
  dropped,   \* frames a socket had no room for
  reader,    \* where each reader stands
  seen,      \* the packets each reader has read
  hand,      \* the packet a reader is about to send
  buf,       \* the packet channel
  errc       \* the error channel: "none" or "error"

wire == <<arrived, waiting, dropped>>
readVars == <<reader, seen, hand, buf, errc>>
sourceVars == <<ctx, wire, readVars>>

Sources == Sockets \cup Files
ReaderSteps == {"idle", "top", "recv", "send", "end", "closing", "done"}

SourceInit ==
  /\ ctx = "live"
  /\ arrived = [s \in Sockets |-> 0]
  /\ waiting = [s \in Sources |-> IF s \in Files THEN FileLength ELSE 0]
  /\ dropped = [s \in Sockets |-> 0]
  /\ reader = [s \in Sources |-> "idle"]
  /\ seen = [s \in Sources |-> <<>>]
  /\ hand = [s \in Sources |-> <<>>]
  /\ buf = [s \in Sources |-> <<>>]
  /\ errc = [s \in Sources |-> "none"]

Cancelled == ctx = "done"

Goes(s, from, to) == reader[s] = from /\ reader' = [reader EXCEPT ![s] = to]

\* Mutant: the loop never looks at the context.
LoopAlways(s) ==
  /\ Goes(s, "top", "recv")
  /\ UNCHANGED <<ctx, wire, seen, hand, buf, errc>>

\* The loop condition, ctx.Err() == nil.
Loop(s) ==
  /\ ~Cancelled
  /\ Goes(s, "top", "recv")
  /\ UNCHANGED <<ctx, wire, seen, hand, buf, errc>>

LoopEnds(s) ==
  /\ Cancelled
  /\ Goes(s, "top", "end")
  /\ UNCHANGED <<ctx, wire, seen, hand, buf, errc>>

\* Mutant: the packet keeps the reader's buffer instead of a copy of it.
ReadShared(s) ==
  /\ Goes(s, "recv", "send")
  /\ waiting[s] > 0
  /\ waiting' = [waiting EXCEPT ![s] = @ - 1]
  /\ \E p \in Times :
       /\ seen' = [seen EXCEPT ![s] = Append(@, p)]
       /\ hand' = [hand EXCEPT ![s] = <<p>>]
       /\ buf' = [buf EXCEPT ![s] = [i \in DOMAIN @ |-> p]]
  /\ UNCHANGED <<ctx, arrived, dropped, errc>>

Read(s) ==
  /\ Goes(s, "recv", "send")
  /\ waiting[s] > 0
  /\ waiting' = [waiting EXCEPT ![s] = @ - 1]
  /\ \E p \in Times :
       /\ seen' = [seen EXCEPT ![s] = Append(@, p)]
       /\ hand' = [hand EXCEPT ![s] = <<p>>]
  /\ UNCHANGED <<ctx, arrived, dropped, buf, errc>>

\* recvmsg times out or is interrupted.
ReadNothing(s) ==
  /\ s \in Sockets
  /\ Goes(s, "recv", "top")
  /\ UNCHANGED <<ctx, wire, seen, hand, buf, errc>>

ReadEof(s) ==
  /\ s \in Files
  /\ waiting[s] = 0
  /\ Goes(s, "recv", "end")
  /\ UNCHANGED <<ctx, wire, seen, hand, buf, errc>>

ReadFails(s) ==
  /\ s \in Faulty
  /\ Goes(s, "recv", "end")
  /\ errc' = [errc EXCEPT ![s] = "error"]
  /\ UNCHANGED <<ctx, wire, seen, hand, buf>>

\* Mutant: a full channel drops the packet.
SendOrDrop(s) ==
  /\ Goes(s, "send", "top")
  /\ buf' = IF Len(buf[s]) < Buffer THEN [buf EXCEPT ![s] = Append(@, hand[s][1])] ELSE buf
  /\ hand' = [hand EXCEPT ![s] = <<>>]
  /\ UNCHANGED <<ctx, wire, seen, errc>>

\* The select: send, or leave when the context ends.  With both possible
\* either happens.
Send(s) ==
  /\ Goes(s, "send", "top")
  /\ Len(buf[s]) < Buffer
  /\ buf' = [buf EXCEPT ![s] = Append(@, hand[s][1])]
  /\ hand' = [hand EXCEPT ![s] = <<>>]
  /\ UNCHANGED <<ctx, wire, seen, errc>>

SendGivesUp(s) ==
  /\ Cancelled
  /\ Goes(s, "send", "end")
  /\ hand' = [hand EXCEPT ![s] = <<>>]
  /\ UNCHANGED <<ctx, wire, seen, buf, errc>>

CloseErrc(s) ==
  /\ Goes(s, "end", "closing")
  /\ UNCHANGED <<ctx, wire, seen, hand, buf, errc>>

CloseOut(s) ==
  /\ Goes(s, "closing", "done")
  /\ UNCHANGED <<ctx, wire, seen, hand, buf, errc>>

ErrcClosed(s) == reader[s] \in {"closing", "done"}
OutClosed(s)  == reader[s] = "done"

ReadLoop(s) ==
  \/ Loop(s) \/ LoopEnds(s)
  \/ Read(s) \/ ReadNothing(s) \/ ReadEof(s) \/ ReadFails(s)
  \/ Send(s) \/ SendGivesUp(s)
  \/ CloseErrc(s) \/ CloseOut(s)

-----------------------------------------------------------------------------
(* The network and whoever ends the observation: a timeout or an interrupt. *)

Arrive(s) ==
  /\ arrived[s] < MaxArrivals
  /\ arrived' = [arrived EXCEPT ![s] = @ + 1]
  /\ IF waiting[s] < Room
     THEN waiting' = [waiting EXCEPT ![s] = @ + 1] /\ UNCHANGED dropped
     ELSE dropped' = [dropped EXCEPT ![s] = @ + 1] /\ UNCHANGED waiting
  /\ UNCHANGED <<ctx, readVars>>

Cancel ==
  /\ ~Cancelled
  /\ ctx' = "done"
  /\ UNCHANGED <<wire, readVars>>

\* Stats: the kernel counts every frame, the dropped ones included; a file
\* counts what was read and drops nothing.
Stats(s) ==
  IF s \in Sockets THEN [received |-> arrived[s], dropped |-> dropped[s]]
                   ELSE [received |-> Len(seen[s]), dropped |-> 0]

-----------------------------------------------------------------------------

SourceTypeOK ==
  /\ ctx \in {"live", "done"}
  /\ arrived \in [Sockets -> 0 .. MaxArrivals]
  /\ waiting \in [Sources -> Nat]
  /\ dropped \in [Sockets -> Nat]
  /\ reader \in [Sources -> ReaderSteps]
  /\ seen \in [Sources -> Seq(Times)]
  /\ hand \in [Sources -> Seq(Times)]
  /\ buf \in [Sources -> Seq(Times)]
  /\ errc \in [Sources -> {"none", "error"}]
  /\ \A s \in Sources : /\ Len(buf[s]) <= Buffer
                        /\ Len(hand[s]) = (IF reader[s] = "send" THEN 1 ELSE 0)

=============================================================================
