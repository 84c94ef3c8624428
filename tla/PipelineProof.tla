---------------------------- MODULE PipelineProof ----------------------------
(***************************************************************************)
(* What the pipeline delivers, for any number of sources, any channel size *)
(* and any arrivals.  The packets of a source are, at any moment, those    *)
(* applied, the one being worked on, those in the channel and the one the  *)
(* reader holds, in this order: Flow.  Only a reader that gave up because  *)
(* the context ended is missing one.                                       *)
(***************************************************************************)
EXTENDS Pipeline, CaptureFile, Decoder, FiniteSetTheorems, SequenceTheorems, WellFoundedInduction, TLAPS

\* How many packets are where: la applied, li being worked on, lb in the
\* channel, lh held by the reader, of ls read; at most one is missing.
Count(la, li, lb, lh, ls) == la + li + lb + lh <= ls /\ ls <= la + li + lb + lh + 1
Exact(la, li, lb, lh, ls) == ls = la + li + lb + lh

\* Sequences a, w, b, h, of lengths la, li, lb, lh, continue each other in q.
Chain(a, la, w, li, b, lb, h, lh, q) ==
  /\ \A k \in 1 .. la : a[k] = q[k]
  /\ \A k \in 1 .. li : w[k] = q[la + k]
  /\ \A k \in 1 .. lb : b[k] = q[la + li + k]
  /\ \A k \in 1 .. lh : h[k] = q[la + li + lb + k]

Reading(s) == reader[s] \in {"idle", "top", "recv", "send"}

FlowLength(s) ==
  /\ Count(Len(applied[s]), Len(item[s]), Len(buf[s]), Len(hand[s]), Len(seen[s]))
  /\ Reading(s) \/ ~Cancelled =>
       Exact(Len(applied[s]), Len(item[s]), Len(buf[s]), Len(hand[s]), Len(seen[s]))

FlowOrder(s) ==
  Chain(applied[s], Len(applied[s]), item[s], Len(item[s]), buf[s], Len(buf[s]),
        hand[s], Len(hand[s]), seen[s])

Flow == \A s \in Sources : FlowLength(s) /\ FlowOrder(s)

-----------------------------------------------------------------------------

\* Sequences, as the steps below change them.
LEMMA Appended ==
  ASSUME NEW S, NEW q \in Seq(S), NEW e \in S
  PROVE  /\ Append(q, e) \in Seq(S) /\ Len(Append(q, e)) = Len(q) + 1 /\ Len(q) \in Nat
         /\ Append(q, e)[Len(q) + 1] = e
         /\ \A i \in 1 .. Len(q) : Append(q, e)[i] = q[i]
OBVIOUS

LEMMA Single ==
  ASSUME NEW S, NEW e \in S PROVE <<e>> \in Seq(S) /\ Len(<<e>>) = 1 /\ <<e>>[1] = e
OBVIOUS

LEMMA Empty ==
  ASSUME NEW S PROVE <<>> \in Seq(S) /\ Len(<<>>) = 0
OBVIOUS

LEMMA Taken ==
  ASSUME NEW S, NEW q \in Seq(S), q # <<>>
  PROVE  /\ Head(q) \in S /\ Head(q) = q[1]
         /\ Tail(q) \in Seq(S) /\ Len(Tail(q)) = Len(q) - 1 /\ Len(q) \in Nat \ {0}
         /\ \A i \in 1 .. Len(Tail(q)) : Tail(q)[i] = q[i + 1]
OBVIOUS

LEMMA Element ==
  ASSUME NEW S, NEW q \in Seq(S), NEW i \in 1 .. Len(q) PROVE q[i] \in S
OBVIOUS

\* Types of the reader's steps.
LEMMA ReaderType ==
  ASSUME SourceTypeOK, NEW s \in Sources, ReadLoop(s)
  PROVE  SourceTypeOK'
<1> USE SourceAssumption DEF SourceTypeOK, Goes
<1>1. CASE Loop(s) \/ LoopEnds(s) \/ ReadNothing(s) \/ ReadEof(s) \/ CloseErrc(s) \/ CloseOut(s)
  BY <1>1 DEF Loop, LoopEnds, ReadNothing, ReadEof, CloseErrc, CloseOut, ReaderSteps, wire
<1>2. CASE ReadFails(s)
  BY <1>2 DEF ReadFails, ReaderSteps, wire
<1>3. CASE Read(s)
  <2>1. PICK p \in Times : /\ seen' = [seen EXCEPT ![s] = Append(seen[s], p)]
                           /\ hand' = [hand EXCEPT ![s] = <<p>>]
    BY <1>3 DEF Read
  <2>2. seen' \in [Sources -> Seq(Times)]
    BY <2>1, Appended
  <2>3. hand' \in [Sources -> Seq(Times)] /\ Len(hand'[s]) = 1
    BY <2>1, Single
  <2>4. waiting' \in [Sources -> Nat]
    BY <1>3 DEF Read
  <2>5. reader' \in [Sources -> ReaderSteps] /\ reader'[s] = "send"
    BY <1>3 DEF Read, ReaderSteps
  <2>6. \A r \in Sources : Len(hand'[r]) = (IF reader'[r] = "send" THEN 1 ELSE 0)
    BY <1>3, <2>1, <2>3, <2>5 DEF Read
  <2> QED BY <1>3, <2>2, <2>3, <2>4, <2>5, <2>6 DEF Read
<1>4. CASE Send(s)
  <2>1. hand[s][1] \in Times
    BY <1>4, Element DEF Send
  <2>2. buf' \in [Sources -> Seq(Times)] /\ Len(buf'[s]) <= Buffer
    BY <1>4, <2>1, Appended DEF Send
  <2>3. hand' \in [Sources -> Seq(Times)] /\ Len(hand'[s]) = 0
    BY <1>4, Empty DEF Send
  <2>4. reader' \in [Sources -> ReaderSteps] /\ reader'[s] = "top"
    BY <1>4 DEF Send, ReaderSteps
  <2>5. \A r \in Sources : Len(hand'[r]) = (IF reader'[r] = "send" THEN 1 ELSE 0)
    <3> TAKE r \in Sources
    <3>1. CASE r = s
      BY <3>1, <2>3, <2>4
    <3>2. CASE r # s
      BY <1>4, <3>2 DEF Send
    <3> QED BY <3>1, <3>2
  <2>6. \A r \in Sources : Len(buf'[r]) <= Buffer
    BY <1>4, <2>2 DEF Send
  <2> QED BY <1>4, <2>2, <2>3, <2>4, <2>5, <2>6 DEF Send, wire
<1>5. CASE SendGivesUp(s)
  <2>1. hand' \in [Sources -> Seq(Times)] /\ Len(hand'[s]) = 0
    BY <1>5, Empty DEF SendGivesUp
  <2>2. reader' \in [Sources -> ReaderSteps] /\ reader'[s] = "end"
    BY <1>5 DEF SendGivesUp, ReaderSteps
  <2>3. \A r \in Sources : Len(hand'[r]) = (IF reader'[r] = "send" THEN 1 ELSE 0)
    <3> TAKE r \in Sources
    <3>1. CASE r = s
      BY <3>1, <2>1, <2>2
    <3>2. CASE r # s
      BY <1>5, <3>2 DEF SendGivesUp
    <3> QED BY <3>1, <3>2
  <2> QED BY <1>5, <2>1, <2>2, <2>3 DEF SendGivesUp, wire
<1> QED BY <1>1, <1>2, <1>3, <1>4, <1>5 DEF ReadLoop

\* Types of the worker's steps.
LEMMA WorkerType ==
  ASSUME TypeOK, NEW s \in Sources, RunSource(s)
  PROVE  TypeOK'
<1> USE SourceAssumption DEF TypeOK, Works
<1>1. CASE Begin(s)
  <2>1. SourceTypeOK'
    <3>1. reader' \in [Sources -> ReaderSteps] /\ reader[s] = "idle" /\ reader'[s] = "top"
      BY <1>1 DEF Begin, WorkTypeOK, SourceTypeOK, ReaderSteps
    <3>2. \A r \in Sources : Len(hand[r]) = (IF reader'[r] = "send" THEN 1 ELSE 0)
      BY <1>1, <3>1 DEF Begin, SourceTypeOK
    <3> QED BY <1>1, <3>1, <3>2 DEF Begin, SourceTypeOK, wire
  <2>2. /\ worker' \in [Sources -> WorkerSteps]
        /\ \A r \in Sources : worker'[r] = "start" => reader'[r] = "idle"
    BY <1>1 DEF Begin, SourceTypeOK, WorkTypeOK, WorkerSteps
  <2>3. \A r \in Sources : Len(item[r]) = (IF worker'[r] \in {"stamp", "apply"} THEN 1 ELSE 0)
    BY <1>1 DEF Begin, WorkTypeOK
  <2> QED BY <1>1, <2>1, <2>2, <2>3 DEF Begin, WorkTypeOK
<1>2. CASE BeginCancelled(s) \/ Drained(s) \/ ReadStats(s) \/ Merge(s) \/ Stamp(s) \/ Apply(s)
  <2>1. SourceTypeOK'
    BY <1>2 DEF BeginCancelled, Drained, ReadStats, Merge, Stamp, Apply, sourceVars, readVars, wire, SourceTypeOK
  <2>2. CASE BeginCancelled(s) \/ Drained(s)
    BY <2>1, <2>2 DEF BeginCancelled, Drained, WorkTypeOK, WorkerSteps, sourceVars, readVars
  <2>3. CASE Stamp(s)
    <3>1. item[s][1] \in Times
      BY <2>3, Element DEF Stamp, WorkTypeOK
    <3> QED BY <2>1, <2>3, <3>1 DEF Stamp, WorkTypeOK, WorkerSteps, sourceVars, readVars
  <2>4. CASE Apply(s)
    <3>1. item[s][1] \in Times
      BY <2>4, Element DEF Apply, WorkTypeOK
    <3>2. applied' \in [Sources -> Seq(Times)]
      BY <2>4, <3>1, Appended DEF Apply, WorkTypeOK
    <3>3. item' \in [Sources -> Seq(Times)] /\ Len(item'[s]) = 0
      BY <2>4, Empty DEF Apply, WorkTypeOK
    <3>4. worker' \in [Sources -> WorkerSteps] /\ worker'[s] = "range"
      BY <2>4 DEF Apply, WorkTypeOK, WorkerSteps
    <3>5. \A r \in Sources : Len(item'[r]) = (IF worker'[r] \in {"stamp", "apply"} THEN 1 ELSE 0)
      <4> TAKE r \in Sources
      <4>1. CASE r = s
        BY <4>1, <3>3, <3>4
      <4>2. CASE r # s
        BY <2>4, <4>2 DEF Apply, WorkTypeOK
      <4> QED BY <4>1, <4>2
    <3>6. \A r \in Sources : worker'[r] = "start" => reader'[r] = "idle"
      BY <2>4, <3>4 DEF Apply, WorkTypeOK, sourceVars, readVars
    <3> QED BY <2>1, <2>4, <3>2, <3>3, <3>4, <3>5, <3>6 DEF Apply, WorkTypeOK
  <2>5. CASE ReadStats(s)
    <3>1. Stats(s) \in [received : Nat, dropped : Nat]
      BY DEF Stats, SourceTypeOK, Sources
    <3> QED BY <2>1, <2>5, <3>1 DEF ReadStats, WorkTypeOK, WorkerSteps, sourceVars, readVars
  <2>6. CASE Merge(s)
    BY <2>1, <2>6 DEF Merge, WorkTypeOK, WorkerSteps, sourceVars, readVars
  <2> QED BY <1>2, <2>2, <2>3, <2>4, <2>5, <2>6
<1>3. CASE Take(s)
  <2>1. /\ Head(buf[s]) \in Times /\ Tail(buf[s]) \in Seq(Times)
        /\ Len(Tail(buf[s])) <= Buffer
    BY <1>3, Taken DEF Take, SourceTypeOK
  <2>2. item' \in [Sources -> Seq(Times)] /\ Len(item'[s]) = 1
    BY <1>3, <2>1, Single DEF Take, WorkTypeOK
  <2>3. buf' \in [Sources -> Seq(Times)] /\ \A r \in Sources : Len(buf'[r]) <= Buffer
    BY <1>3, <2>1 DEF Take, SourceTypeOK
  <2>4. SourceTypeOK'
    BY <1>3, <2>3 DEF Take, SourceTypeOK, wire
  <2> QED BY <1>3, <2>2, <2>4 DEF Take, WorkTypeOK, WorkerSteps
<1>4. CASE TakeError(s)
  <2>1. SourceTypeOK'
    BY <1>4 DEF TakeError, SourceTypeOK, wire
  <2>2. found' \in [Sources -> {"none", "error"}]
    BY <1>4 DEF TakeError, SourceTypeOK, WorkTypeOK
  <2> QED BY <1>4, <2>1, <2>2 DEF TakeError, WorkTypeOK, WorkerSteps
<1> QED BY <1>1, <1>2, <1>3, <1>4 DEF RunSource

LEMMA TypeInit == Init => TypeOK
BY SourceAssumption, Empty
DEF Init, SourceInit, TypeOK, SourceTypeOK, WorkTypeOK, ReaderSteps, WorkerSteps, NoCount, Sources

LEMMA OutsideType ==
  ASSUME SourceTypeOK, Cancel \/ \E s \in Sockets : Arrive(s) PROVE SourceTypeOK'
<1> USE SourceAssumption
<1>1. CASE Cancel
  BY <1>1 DEF Cancel, SourceTypeOK, readVars, wire
<1>2. ASSUME NEW s \in Sockets, Arrive(s) PROVE SourceTypeOK'
  <2>1. arrived' \in [Sockets -> 0 .. MaxArrivals]
    BY <1>2 DEF Arrive, SourceTypeOK
  <2>2. waiting' \in [Sources -> Nat] /\ dropped' \in [Sockets -> Nat]
    <3>1. s \in Sources
      BY DEF Sources
    <3>2. CASE waiting[s] < Room
      <4>1. waiting' = [waiting EXCEPT ![s] = @ + 1] /\ dropped' = dropped
        BY <1>2, <3>2 DEF Arrive
      <4> QED BY <4>1, <3>1 DEF SourceTypeOK
    <3>3. CASE ~(waiting[s] < Room)
      <4>1. dropped' = [dropped EXCEPT ![s] = @ + 1] /\ waiting' = waiting
        BY <1>2, <3>3 DEF Arrive
      <4> QED BY <4>1 DEF SourceTypeOK
    <3> QED BY <3>2, <3>3
  <2> QED BY <1>2, <2>1, <2>2 DEF Arrive, SourceTypeOK, readVars
<1> QED BY <1>1, <1>2

LEMMA TypeStep == TypeOK /\ [Next]_vars => TypeOK'
<1> SUFFICES ASSUME TypeOK, [Next]_vars PROVE TypeOK'
  OBVIOUS
<1>1. CASE \E s \in Sources : RunSource(s)
  BY <1>1, WorkerType
<1>2. CASE \E s \in Sources : Reader(s)
  <2>1. PICK s \in Sources : Reader(s)
    BY <1>2
  <2>2. SourceTypeOK'
    BY <2>1, ReaderType DEF Reader, TypeOK
  <2>3. \A r \in Sources : reader[r] = "idle" => reader'[r] = "idle"
    BY <2>1 DEF Reader, ReadLoop, Loop, LoopEnds, Read, ReadNothing, ReadEof, ReadFails, Send,
      SendGivesUp, CloseErrc, CloseOut, Goes, TypeOK, SourceTypeOK
  <2> QED BY <2>1, <2>2, <2>3 DEF Reader, TypeOK, WorkTypeOK, workVars
<1>3. CASE Wait \/ Over \/ UNCHANGED vars
  BY <1>3 DEF Wait, Over, vars, TypeOK, SourceTypeOK, WorkTypeOK, sourceVars, workVars, readVars, wire
<1>4. CASE Outside
  BY <1>4, OutsideType DEF Outside, TypeOK, WorkTypeOK, workVars, Cancel, Arrive, readVars
<1> QED BY <1>1, <1>2, <1>3, <1>4 DEF Next

\* TypeOK for every number of sources: among others a channel never holds
\* more than its capacity, and a goroutine holds a packet exactly where it
\* has received one and not passed it on (Source.Packets, runSource).
THEOREM PipelineTypeCorrect == Spec => []TypeOK
<1>1. TypeOK /\ [Next]_vars => TypeOK'
  BY TypeStep
<1> QED BY <1>1, TypeInit, PTL DEF Spec

-----------------------------------------------------------------------------
(* Flow is inductive.                                                      *)

\* The four moves of a packet, on numbers and sequences alone.
LEMMA CountRead ==
  ASSUME NEW la \in Nat, NEW li \in Nat, NEW lb \in Nat, NEW ls \in Nat, Exact(la, li, lb, 0, ls)
  PROVE  Exact(la, li, lb, 1, ls + 1) /\ Count(la, li, lb, 1, ls + 1)
BY DEF Count, Exact

LEMMA NoneInHand ==
  ASSUME NEW la \in Nat, NEW li \in Nat, NEW lb \in Nat, NEW ls \in Nat, Exact(la, li, lb, 0, ls)
  PROVE  ls = la + li + lb
BY DEF Exact

LEMMA CountSend ==
  ASSUME NEW la \in Nat, NEW li \in Nat, NEW lb \in Nat, NEW ls \in Nat, Exact(la, li, lb, 1, ls)
  PROVE  /\ Exact(la, li, lb + 1, 0, ls) /\ Count(la, li, lb + 1, 0, ls)
         /\ Count(la, li, lb, 0, ls)
BY DEF Count, Exact

LEMMA CountTake ==
  ASSUME NEW la \in Nat, NEW lb \in Nat \ {0}, NEW lh \in Nat, NEW ls \in Nat
  PROVE  /\ Count(la, 0, lb, lh, ls) => Count(la, 1, lb - 1, lh, ls)
         /\ Exact(la, 0, lb, lh, ls) => Exact(la, 1, lb - 1, lh, ls)
BY DEF Count, Exact

LEMMA CountApply ==
  ASSUME NEW la \in Nat, NEW lb \in Nat, NEW lh \in Nat, NEW ls \in Nat
  PROVE  /\ Count(la, 1, lb, lh, ls) => Count(la + 1, 0, lb, lh, ls)
         /\ Exact(la, 1, lb, lh, ls) => Exact(la + 1, 0, lb, lh, ls)
BY DEF Count, Exact

LEMMA ChainRead ==
  ASSUME NEW a, NEW la \in Nat, NEW w, NEW li \in Nat, NEW b, NEW lb \in Nat,
         NEW h, NEW q, NEW h1, NEW q1,
         Chain(a, la, w, li, b, lb, h, 0, q),
         \A k \in 1 .. (la + li + lb) : q1[k] = q[k], h1[1] = q1[la + li + lb + 1]
  PROVE  Chain(a, la, w, li, b, lb, h1, 1, q1)
BY DEF Chain

LEMMA ChainSend ==
  ASSUME NEW a, NEW la \in Nat, NEW w, NEW li \in Nat, NEW b, NEW lb \in Nat,
         NEW h, NEW q, NEW h1, NEW b1,
         Chain(a, la, w, li, b, lb, h, 1, q),
         \A k \in 1 .. lb : b1[k] = b[k], b1[lb + 1] = h[1]
  PROVE  Chain(a, la, w, li, b1, lb + 1, h1, 0, q)
BY DEF Chain

LEMMA ChainDrop ==
  ASSUME NEW a, NEW la \in Nat, NEW w, NEW li \in Nat, NEW b, NEW lb \in Nat,
         NEW h, NEW lh \in Nat, NEW q, NEW h1, Chain(a, la, w, li, b, lb, h, lh, q)
  PROVE  Chain(a, la, w, li, b, lb, h1, 0, q)
BY DEF Chain

LEMMA ChainTake ==
  ASSUME NEW a, NEW la \in Nat, NEW w, NEW b, NEW lb \in Nat \ {0},
         NEW h, NEW lh \in Nat, NEW q, NEW w1, NEW b1,
         Chain(a, la, w, 0, b, lb, h, lh, q),
         w1[1] = b[1], \A k \in 1 .. (lb - 1) : b1[k] = b[k + 1]
  PROVE  Chain(a, la, w1, 1, b1, lb - 1, h, lh, q)
BY DEF Chain

LEMMA ChainApply ==
  ASSUME NEW a, NEW la \in Nat, NEW w, NEW b, NEW lb \in Nat,
         NEW h, NEW lh \in Nat, NEW q, NEW w1, NEW a1,
         Chain(a, la, w, 1, b, lb, h, lh, q),
         \A k \in 1 .. la : a1[k] = a[k], a1[la + 1] = w[1]
  PROVE  Chain(a1, la + 1, w1, 0, b, lb, h, lh, q)
BY DEF Chain

Stays(r) ==
  /\ seen'[r] = seen[r] /\ applied'[r] = applied[r] /\ item'[r] = item[r]
  /\ buf'[r] = buf[r] /\ hand'[r] = hand[r]

LEMMA FlowStays ==
  ASSUME NEW r, FlowLength(r), FlowOrder(r), Stays(r),
         Reading(r)' \/ ~Cancelled' => Reading(r) \/ ~Cancelled
  PROVE  FlowLength(r)' /\ FlowOrder(r)'
BY DEF FlowLength, FlowOrder, Stays

LEMMA Lengths ==
  ASSUME TypeOK, NEW r \in Sources
  PROVE  /\ Len(seen[r]) \in Nat /\ Len(applied[r]) \in Nat /\ Len(item[r]) \in Nat
         /\ Len(buf[r]) \in Nat /\ Len(hand[r]) \in Nat
BY DEF TypeOK, SourceTypeOK, WorkTypeOK

\* The packet being worked on is the next one to be applied.
LEMMA ItemIsNext ==
  ASSUME TypeOK, Flow, NEW s \in Sources, Len(item[s]) = 1
  PROVE  item[s][1] = seen[s][Len(applied[s]) + 1] /\ Len(applied[s]) + 1 \in DOMAIN seen[s]
<1>1. Chain(applied[s], Len(applied[s]), item[s], 1, buf[s], Len(buf[s]),
            hand[s], Len(hand[s]), seen[s])
  BY DEF Flow, FlowOrder
<1>2. \A k \in 1 .. 1 : item[s][k] = seen[s][Len(applied[s]) + k]
  BY <1>1 DEF Chain
<1>3. Count(Len(applied[s]), 1, Len(buf[s]), Len(hand[s]), Len(seen[s]))
  BY DEF Flow, FlowLength
<1>4. \A la, lb, lh, ls \in Nat : Count(la, 1, lb, lh, ls) => la < ls
  BY DEF Count
<1>5. Len(applied[s]) < Len(seen[s])
  BY <1>3, <1>4, Lengths
<1>6. DOMAIN seen[s] = 1 .. Len(seen[s])
  BY DEF TypeOK, SourceTypeOK
<1> QED BY <1>2, <1>5, <1>6, Lengths

\* The packets in a, w, b and h are those of q, but for one at most.
Accounted(a, w, b, h, q) == Count(Len(a), Len(w), Len(b), Len(h), Len(q))
Gapless(a, w, b, h, q)   == Exact(Len(a), Len(w), Len(b), Len(h), Len(q))
InLine(a, w, b, h, q)    == Chain(a, Len(a), w, Len(w), b, Len(b), h, Len(h), q)

\* The reader's moves, for its own source, whoever took packets from it.
LEMMA LineReads ==
  ASSUME SourceTypeOK, SourceTypeOK', NEW s \in Sources,
         NEW a, NEW w, Len(a) \in Nat, Len(w) \in Nat,
         Accounted(a, w, buf[s], hand[s], seen[s]), InLine(a, w, buf[s], hand[s], seen[s]),
         Reading(s) \/ ~Cancelled => Gapless(a, w, buf[s], hand[s], seen[s]),
         ReadLoop(s)
  PROVE  /\ Accounted(a, w, buf'[s], hand'[s], seen'[s])
         /\ Reading(s)' \/ ~Cancelled' => Gapless(a, w, buf'[s], hand'[s], seen'[s])
         /\ InLine(a, w, buf'[s], hand'[s], seen'[s])
<1> DEFINE LengthGoal == /\ Accounted(a, w, buf'[s], hand'[s], seen'[s])
                         /\ Reading(s)' \/ ~Cancelled' => Gapless(a, w, buf'[s], hand'[s], seen'[s])
           OrderGoal  == InLine(a, w, buf'[s], hand'[s], seen'[s])
<1> USE DEF Goes
<1>0. /\ reader[s] \in ReaderSteps /\ Len(hand[s]) = (IF reader[s] = "send" THEN 1 ELSE 0)
      /\ seen[s] \in Seq(Times) /\ buf[s] \in Seq(Times)
      /\ DOMAIN reader = Sources
  BY DEF SourceTypeOK
<1>l. /\ Len(seen[s]) \in Nat /\ Len(a) \in Nat /\ Len(w) \in Nat
      /\ Len(buf[s]) \in Nat /\ Len(hand[s]) \in Nat
  BY DEF SourceTypeOK
<1>1. CASE Loop(s) \/ LoopEnds(s) \/ ReadNothing(s) \/ ReadEof(s) \/ ReadFails(s) \/ CloseErrc(s) \/ CloseOut(s)
  <2>1. buf'[s] = buf[s] /\ hand'[s] = hand[s] /\ seen'[s] = seen[s]
    BY <1>1 DEF Loop, LoopEnds, ReadNothing, ReadEof, ReadFails, CloseErrc, CloseOut
  <2>2. Reading(s)' \/ ~Cancelled' => Reading(s) \/ ~Cancelled
    BY <1>0, <1>1 DEF Loop, LoopEnds, ReadNothing, ReadEof, ReadFails, CloseErrc, CloseOut, Reading, Cancelled
  <2> QED BY <2>1, <2>2
<1>2. CASE Read(s)
  <2>1. PICK p \in Times : /\ seen' = [seen EXCEPT ![s] = Append(seen[s], p)]
                           /\ hand' = [hand EXCEPT ![s] = <<p>>]
    BY <1>2 DEF Read
  <2>2. /\ seen'[s] = Append(seen[s], p) /\ hand'[s] = <<p>>
        /\ buf'[s] = buf[s]
    BY <1>0, <1>2, <2>1 DEF Read, SourceTypeOK
  <2>3. reader[s] = "recv"
    BY <1>2 DEF Read
  <2>4. Len(hand[s]) = 0 /\ Reading(s)
    BY <1>0, <2>3 DEF Reading
  <2>5. Exact(Len(a), Len(w), Len(buf[s]), 0, Len(seen[s]))
    BY <2>4 DEF Gapless
  <2>6. /\ Exact(Len(a), Len(w), Len(buf[s]), 1, Len(seen[s]) + 1)
        /\ Count(Len(a), Len(w), Len(buf[s]), 1, Len(seen[s]) + 1)
    BY <1>l, <2>5, CountRead
  <2>a. Len(seen[s]) = Len(a) + Len(w) + Len(buf[s])
    BY <1>l, <2>5, NoneInHand
  <2>7. /\ Len(seen'[s]) = Len(seen[s]) + 1 /\ Len(hand'[s]) = 1 /\ hand'[s][1] = p
        /\ seen'[s][Len(seen[s]) + 1] = p
        /\ \A i \in 1 .. Len(seen[s]) : seen'[s][i] = seen[s][i]
    BY <1>0, <2>2, Appended, Single
  <2>8. LengthGoal
    BY <2>2, <2>6, <2>7 DEF Accounted, Gapless
  <2>9. Chain(a, Len(a), w, Len(w), buf[s], Len(buf[s]), hand[s], 0, seen[s])
    BY <2>4 DEF InLine
  <2>10. Chain(a, Len(a), w, Len(w), buf[s], Len(buf[s]), hand'[s], 1, seen'[s])
    <3>1. \A k \in 1 .. (Len(a) + Len(w) + Len(buf[s])) : seen'[s][k] = seen[s][k]
      BY <2>a, <2>7
    <3>2. hand'[s][1] = seen'[s][Len(a) + Len(w) + Len(buf[s]) + 1]
      BY <2>a, <2>7
    <3> QED BY <1>l, <2>9, <3>1, <3>2, ChainRead
  <2>11. OrderGoal
    BY <2>2, <2>7, <2>10 DEF InLine
  <2> QED BY <2>8, <2>11
<1>3. CASE Send(s)
  <2>1. /\ buf'[s] = Append(buf[s], hand[s][1]) /\ hand'[s] = <<>> /\ seen'[s] = seen[s]
        /\ Len(hand[s]) = 1
    BY <1>0, <1>3 DEF Send, SourceTypeOK
  <2>2. hand[s][1] \in Times
    BY <1>0, <2>1, Element DEF SourceTypeOK
  <2>3. /\ Len(buf'[s]) = Len(buf[s]) + 1 /\ buf'[s][Len(buf[s]) + 1] = hand[s][1]
        /\ \A i \in 1 .. Len(buf[s]) : buf'[s][i] = buf[s][i]
        /\ Len(hand'[s]) = 0
    BY <1>0, <2>1, <2>2, Appended, Empty
  <2>4. Reading(s)
    BY <1>3 DEF Send, Reading
  <2>5. Exact(Len(a), Len(w), Len(buf[s]), 1, Len(seen[s]))
    BY <2>1, <2>4 DEF Gapless
  <2>6. /\ Exact(Len(a), Len(w), Len(buf[s]) + 1, 0, Len(seen[s]))
        /\ Count(Len(a), Len(w), Len(buf[s]) + 1, 0, Len(seen[s]))
    BY <1>l, <2>5, CountSend
  <2>7. LengthGoal
    BY <2>1, <2>3, <2>6 DEF Accounted, Gapless
  <2>8. Chain(a, Len(a), w, Len(w), buf[s], Len(buf[s]), hand[s], 1, seen[s])
    BY <2>1 DEF InLine
  <2>9. Chain(a, Len(a), w, Len(w), buf'[s], Len(buf[s]) + 1, hand'[s], 0, seen[s])
    <3>1. \A k \in 1 .. Len(buf[s]) : buf'[s][k] = buf[s][k]
      BY <2>3
    <3>2. buf'[s][Len(buf[s]) + 1] = hand[s][1]
      BY <2>3
    <3> QED BY <1>l, <2>8, <3>1, <3>2, ChainSend
  <2>10. OrderGoal
    BY <2>1, <2>3, <2>9 DEF InLine
  <2> QED BY <2>7, <2>10
<1>4. CASE SendGivesUp(s)
  <2>1. /\ hand'[s] = <<>> /\ Len(hand[s]) = 1 /\ seen'[s] = seen[s] /\ buf'[s] = buf[s]
    BY <1>0, <1>4 DEF SendGivesUp, SourceTypeOK
  <2>2. Len(hand'[s]) = 0 /\ Reading(s)
    BY <1>4, <2>1, Empty DEF SendGivesUp, Reading
  <2>3. ~Reading(s)' /\ Cancelled'
    BY <1>0, <1>4 DEF SendGivesUp, Reading, Cancelled
  <2>4. Exact(Len(a), Len(w), Len(buf[s]), 1, Len(seen[s]))
    BY <2>1, <2>2 DEF Gapless
  <2>5. Count(Len(a), Len(w), Len(buf[s]), 0, Len(seen[s]))
    BY <1>l, <2>4, CountSend
  <2>6. LengthGoal
    BY <2>1, <2>2, <2>3, <2>5 DEF Accounted, Gapless
  <2>7. Chain(a, Len(a), w, Len(w), buf[s], Len(buf[s]), hand'[s], 0, seen[s])
    BY <1>l, ChainDrop DEF InLine
  <2>8. OrderGoal
    BY <2>1, <2>2, <2>7 DEF InLine
  <2> QED BY <2>6, <2>8
<1> QED BY <1>1, <1>2, <1>3, <1>4 DEF ReadLoop

LEMMA FlowReads ==
  ASSUME TypeOK, TypeOK', NEW s \in Sources, FlowLength(s), FlowOrder(s), Reader(s)
  PROVE  FlowLength(s)' /\ FlowOrder(s)'
<1> DEFINE a == applied[s]
           w == item[s]
<1>1. Len(a) \in Nat /\ Len(w) \in Nat /\ ReadLoop(s) /\ applied'[s] = a /\ item'[s] = w
  BY Lengths DEF Reader, workVars
<1>2. /\ Accounted(a, w, buf[s], hand[s], seen[s]) /\ InLine(a, w, buf[s], hand[s], seen[s])
      /\ Reading(s) \/ ~Cancelled => Gapless(a, w, buf[s], hand[s], seen[s])
  BY DEF FlowLength, FlowOrder, Accounted, Gapless, InLine
<1>3. SourceTypeOK /\ SourceTypeOK'
  BY DEF TypeOK
<1> HIDE DEF a, w
<1>4. /\ Accounted(a, w, buf'[s], hand'[s], seen'[s])
      /\ Reading(s)' \/ ~Cancelled' => Gapless(a, w, buf'[s], hand'[s], seen'[s])
      /\ InLine(a, w, buf'[s], hand'[s], seen'[s])
  BY <1>1, <1>2, <1>3, LineReads
<1> QED BY <1>1, <1>4 DEF FlowLength, FlowOrder, Accounted, Gapless, InLine

\* The worker's moves, for its own source.
LEMMA FlowWorks ==
  ASSUME TypeOK, TypeOK', NEW s \in Sources, FlowLength(s), FlowOrder(s), RunSource(s)
  PROVE  FlowLength(s)' /\ FlowOrder(s)'
<1> USE DEF Works
<1>0. /\ worker[s] \in WorkerSteps
      /\ Len(item[s]) = (IF worker[s] \in {"stamp", "apply"} THEN 1 ELSE 0)
      /\ applied[s] \in Seq(Times) /\ buf[s] \in Seq(Times) /\ item[s] \in Seq(Times)
  BY DEF TypeOK, SourceTypeOK, WorkTypeOK
<1>l. /\ Len(seen[s]) \in Nat /\ Len(applied[s]) \in Nat /\ Len(item[s]) \in Nat
      /\ Len(buf[s]) \in Nat /\ Len(hand[s]) \in Nat
  BY Lengths
<1>1. CASE Begin(s)
  <2>1. Stays(s) /\ Cancelled' = Cancelled
    BY <1>1 DEF Begin, Stays, Cancelled
  <2>2. Reading(s)
    BY <1>1 DEF Begin, Reading, TypeOK, WorkTypeOK
  <2> QED BY <2>1, <2>2, FlowStays
<1>2. CASE BeginCancelled(s) \/ Drained(s) \/ ReadStats(s) \/ Merge(s) \/ Stamp(s) \/ TakeError(s)
  <2>1. Stays(s)
    BY <1>2 DEF BeginCancelled, Drained, ReadStats, Merge, Stamp, TakeError, Stays, sourceVars, readVars
  <2>2. ctx' = ctx /\ reader' = reader
    BY <1>2 DEF BeginCancelled, Drained, ReadStats, Merge, Stamp, TakeError, sourceVars, readVars
  <2> QED BY <2>1, <2>2, FlowStays DEF Reading, Cancelled
<1>3. CASE Take(s)
  <2>1. /\ item'[s] = <<Head(buf[s])>> /\ buf'[s] = Tail(buf[s]) /\ buf[s] # <<>>
        /\ applied'[s] = applied[s] /\ seen'[s] = seen[s] /\ hand'[s] = hand[s]
        /\ Len(item[s]) = 0
    BY <1>0, <1>3 DEF Take, TypeOK, SourceTypeOK, WorkTypeOK
  <2>2. /\ Len(item'[s]) = 1 /\ item'[s][1] = buf[s][1]
        /\ Len(buf'[s]) = Len(buf[s]) - 1 /\ Len(buf[s]) \in Nat \ {0}
        /\ \A i \in 1 .. (Len(buf[s]) - 1) : buf'[s][i] = buf[s][i + 1]
    BY <1>0, <2>1, Taken, Single
  <2>3. Reading(s)' = Reading(s) /\ Cancelled' = Cancelled
    BY <1>3 DEF Take, Reading, Cancelled
  <2>4. /\ Count(Len(applied[s]), 0, Len(buf[s]), Len(hand[s]), Len(seen[s]))
           => Count(Len(applied[s]), 1, Len(buf[s]) - 1, Len(hand[s]), Len(seen[s]))
        /\ Exact(Len(applied[s]), 0, Len(buf[s]), Len(hand[s]), Len(seen[s]))
           => Exact(Len(applied[s]), 1, Len(buf[s]) - 1, Len(hand[s]), Len(seen[s]))
    BY <1>l, <2>2, CountTake
  <2>5. FlowLength(s)'
    BY <2>1, <2>2, <2>3, <2>4 DEF FlowLength
  <2>6. Chain(applied[s], Len(applied[s]), item[s], 0, buf[s], Len(buf[s]),
              hand[s], Len(hand[s]), seen[s])
    BY <2>1 DEF FlowOrder
  <2>7. Chain(applied[s], Len(applied[s]), item'[s], 1, buf'[s], Len(buf[s]) - 1,
              hand[s], Len(hand[s]), seen[s])
    BY <1>l, <2>2, <2>6, ChainTake
  <2>8. FlowOrder(s)'
    BY <2>1, <2>2, <2>7 DEF FlowOrder
  <2> QED BY <2>5, <2>8
<1>4. CASE Apply(s)
  <2>1. /\ applied'[s] = Append(applied[s], item[s][1]) /\ item'[s] = <<>> /\ Len(item[s]) = 1
        /\ seen'[s] = seen[s] /\ buf'[s] = buf[s] /\ hand'[s] = hand[s]
    BY <1>0, <1>4 DEF Apply, TypeOK, WorkTypeOK, sourceVars, readVars
  <2>2. item[s][1] \in Times
    BY <1>0, <2>1, Element
  <2>3. /\ Len(applied'[s]) = Len(applied[s]) + 1 /\ Len(item'[s]) = 0
        /\ applied'[s][Len(applied[s]) + 1] = item[s][1]
        /\ \A i \in 1 .. Len(applied[s]) : applied'[s][i] = applied[s][i]
    BY <1>0, <2>1, <2>2, Appended, Empty
  <2>4. Reading(s)' = Reading(s) /\ Cancelled' = Cancelled
    BY <1>4 DEF Apply, sourceVars, readVars, Reading, Cancelled
  <2>5. /\ Count(Len(applied[s]), 1, Len(buf[s]), Len(hand[s]), Len(seen[s]))
           => Count(Len(applied[s]) + 1, 0, Len(buf[s]), Len(hand[s]), Len(seen[s]))
        /\ Exact(Len(applied[s]), 1, Len(buf[s]), Len(hand[s]), Len(seen[s]))
           => Exact(Len(applied[s]) + 1, 0, Len(buf[s]), Len(hand[s]), Len(seen[s]))
    BY <1>l, CountApply
  <2>6. FlowLength(s)'
    BY <2>1, <2>3, <2>4, <2>5 DEF FlowLength
  <2>7. Chain(applied[s], Len(applied[s]), item[s], 1, buf[s], Len(buf[s]),
              hand[s], Len(hand[s]), seen[s])
    BY <2>1 DEF FlowOrder
  <2>8. Chain(applied'[s], Len(applied[s]) + 1, item'[s], 0, buf[s], Len(buf[s]),
              hand[s], Len(hand[s]), seen[s])
    <3>1. \A k \in 1 .. Len(applied[s]) : applied'[s][k] = applied[s][k]
      BY <2>3
    <3>2. applied'[s][Len(applied[s]) + 1] = item[s][1]
      BY <2>3
    <3> HIDE <1>0
    <3> QED BY <1>l, <2>7, <3>1, <3>2, ChainApply, ZenonT(30)
  <2>9. FlowOrder(s)'
    BY <2>1, <2>3, <2>8 DEF FlowOrder
  <2> QED BY <2>6, <2>9
<1> QED BY <1>1, <1>2, <1>3, <1>4 DEF RunSource

\* A source on which nothing moves.
LEMMA OthersStay ==
  ASSUME TypeOK, NEW s \in Sources, NEW r \in Sources, r # s, RunSource(s) \/ Reader(s)
  PROVE  Stays(r) /\ Reading(r)' = Reading(r) /\ Cancelled' = Cancelled
<1> USE DEF TypeOK, SourceTypeOK, WorkTypeOK, Works, Goes, Stays, Reading, Cancelled
<1>1. CASE Begin(s) \/ Take(s) \/ TakeError(s)
  BY <1>1 DEF Begin, Take, TakeError
<1>2. CASE BeginCancelled(s) \/ Drained(s) \/ ReadStats(s) \/ Merge(s) \/ Stamp(s)
  BY <1>2 DEF BeginCancelled, Drained, ReadStats, Merge, Stamp, sourceVars, readVars
<1>3. CASE Apply(s)
  BY <1>3 DEF Apply, sourceVars, readVars
<1>4. CASE Reader(s)
  <2>1. applied' = applied /\ item' = item
    BY <1>4 DEF Reader, workVars
  <2>2. CASE Read(s)
    BY <2>1, <2>2 DEF Read
  <2>3. CASE Send(s) \/ SendGivesUp(s)
    BY <2>1, <2>3 DEF Send, SendGivesUp
  <2>4. CASE Loop(s) \/ LoopEnds(s) \/ ReadNothing(s) \/ ReadEof(s) \/ ReadFails(s) \/ CloseErrc(s) \/ CloseOut(s)
    BY <2>1, <2>4 DEF Loop, LoopEnds, ReadNothing, ReadEof, ReadFails, CloseErrc, CloseOut
  <2> QED BY <1>4, <2>2, <2>3, <2>4 DEF Reader, ReadLoop
<1> QED BY <1>1, <1>2, <1>3, <1>4 DEF RunSource

LEMMA FlowInit == Init => Flow
<1> SUFFICES ASSUME Init, NEW s \in Sources PROVE FlowLength(s) /\ FlowOrder(s)
  BY DEF Flow
<1>1. /\ seen[s] = <<>> /\ applied[s] = <<>> /\ item[s] = <<>> /\ buf[s] = <<>> /\ hand[s] = <<>>
  BY DEF Init, SourceInit
<1> QED BY <1>1 DEF FlowLength, FlowOrder, Count, Exact, Chain

LEMMA FlowStep ==
  ASSUME TypeOK, TypeOK', Flow, [Next]_vars PROVE Flow'
<1> SUFFICES ASSUME NEW r \in Sources PROVE FlowLength(r)' /\ FlowOrder(r)'
  BY DEF Flow, Sources
<1>0. FlowLength(r) /\ FlowOrder(r)
  BY DEF Flow
<1>1. ASSUME NEW s \in Sources, RunSource(s) \/ Reader(s) PROVE FlowLength(r)' /\ FlowOrder(r)'
  <2>1. CASE r = s
    BY <1>0, <1>1, <2>1, FlowWorks, FlowReads
  <2>2. CASE r # s
    BY <1>0, <1>1, <2>2, OthersStay, FlowStays
  <2> QED BY <2>1, <2>2
<1>2. CASE Wait \/ Over \/ UNCHANGED vars
  <2>1. Stays(r) /\ Reading(r)' = Reading(r) /\ Cancelled' = Cancelled
    BY <1>2 DEF Wait, Over, vars, sourceVars, workVars, readVars, Stays, Reading, Cancelled
  <2> QED BY <1>0, <2>1, FlowStays
<1>3. CASE Outside
  <2>1. Stays(r) /\ Reading(r)' = Reading(r)
    BY <1>3 DEF Outside, Cancel, Arrive, workVars, readVars, Stays, Reading
  <2>2. ~Cancelled' => ~Cancelled
    BY <1>3 DEF Outside, Cancel, Arrive, Cancelled
  <2> QED BY <1>0, <2>1, <2>2, FlowStays
<1> QED BY <1>1, <1>2, <1>3 DEF Next

LEMMA FlowAlways == Spec => [](TypeOK /\ Flow)
<1>1. Init => TypeOK /\ Flow
  BY TypeInit, FlowInit
<1>2. TypeOK /\ Flow /\ [Next]_vars => (TypeOK /\ Flow)'
  BY TypeStep, FlowStep
<1> QED BY <1>1, <1>2, PTL DEF Spec

-----------------------------------------------------------------------------
(* The pipeline implements Delivery.                                       *)

LEMMA DeliveryStep ==
  ASSUME TypeOK, Flow, [Next]_vars PROVE [D!Next]_(D!vars)
<1> USE DEF D!vars
<1>1. CASE UNCHANGED <<seen, applied>>
  BY <1>1
<1>2. ASSUME NEW s \in Sources, Reader(s), Read(s) PROVE D!Next
  <2>1. D!See(s)
    BY <1>2 DEF D!See, Reader, Read, workVars
  <2> QED BY <2>1 DEF D!Next
<1>3. ASSUME NEW s \in Sources, Apply(s) PROVE D!Next
  <2>1. Len(item[s]) = 1 /\ applied \in [Sources -> Seq(Times)]
    BY <1>3 DEF Apply, Works, TypeOK, WorkTypeOK
  <2>2. item[s][1] = seen[s][Len(applied[s]) + 1]
    BY <2>1, ItemIsNext
  <2>3. Len(applied[s]) < Len(seen[s])
    BY <2>1, ItemIsNext, Lengths DEF TypeOK, SourceTypeOK
  <2>4. applied' = [applied EXCEPT ![s] = Append(@, seen[s][Len(@) + 1])] /\ seen' = seen
    BY <1>3, <2>1, <2>2 DEF Apply, sourceVars, readVars
  <2> QED BY <2>3, <2>4 DEF D!Next, D!Deliver
<1>4. ASSUME NEW s \in Sources, RunSource(s), ~Apply(s) PROVE UNCHANGED <<seen, applied>>
  BY <1>4 DEF RunSource, Begin, BeginCancelled, Take, Stamp, Drained, TakeError, ReadStats, Merge,
    sourceVars, readVars
<1>5. ASSUME NEW s \in Sources, Reader(s), ~Read(s) PROVE UNCHANGED <<seen, applied>>
  BY <1>5 DEF Reader, ReadLoop, Loop, LoopEnds, ReadNothing, ReadEof, ReadFails, Send, SendGivesUp,
    CloseErrc, CloseOut, workVars
<1>6. CASE Wait \/ Over \/ Outside \/ UNCHANGED vars
  <2>1. UNCHANGED <<seen, applied>>
    BY <1>6 DEF Wait, Over, Outside, Cancel, Arrive, vars, sourceVars, workVars, readVars
  <2> QED BY <2>1
<1> QED BY <1>1, <1>2, <1>3, <1>4, <1>5, <1>6 DEF Next

\* runSources implements Delivery: whatever the scheduling, the sizes of the
\* channels and the moment of cancellation, the packets of a source reach
\* the device table once and in the order they were read.
THEOREM DeliversInOrder == Spec => InOrder
<1>1. Init => D!Init
  BY DEF Init, SourceInit, D!Init
<1>2. TypeOK /\ Flow /\ [Next]_vars => [D!Next]_(D!vars)
  BY DeliveryStep
<1> QED BY <1>1, <1>2, FlowAlways, PTL DEF Spec, InOrder, D!Spec

-----------------------------------------------------------------------------
(* The time of the report.                                                 *)

Latest ==
  /\ \A s \in Sources : \A i \in DOMAIN applied[s] : applied[s][i] <= last
  /\ \A s \in Sources : worker[s] = "apply" => item[s][1] <= last
  /\ last # 0 => \E s \in Sources : \E i \in DOMAIN seen[s] : seen[s][i] = last

\* Packets already read stay where they are.
LEMMA SeenGrows ==
  ASSUME TypeOK, [Next]_vars
  PROVE  \A s \in Sources : \A i \in DOMAIN seen[s] : i \in DOMAIN seen'[s] /\ seen'[s][i] = seen[s][i]
<1>1. ASSUME NEW s \in Sources, Read(s)
      PROVE  \A r \in Sources : \A i \in DOMAIN seen[r] : i \in DOMAIN seen'[r] /\ seen'[r][i] = seen[r][i]
  <2>1. PICK p \in Times : seen' = [seen EXCEPT ![s] = Append(seen[s], p)]
    BY <1>1 DEF Read
  <2> TAKE r \in Sources
  <2>2. CASE r # s
    BY <2>1, <2>2 DEF TypeOK, SourceTypeOK
  <2>3. CASE r = s
    <3>1. seen'[r] = Append(seen[r], p) /\ seen[r] \in Seq(Times)
      BY <2>1, <2>3 DEF TypeOK, SourceTypeOK
    <3> QED BY <3>1, Appended
  <2> QED BY <2>2, <2>3
<1>2. CASE seen' = seen
  BY <1>2
<1>3. ASSUME NEW s \in Sources, RunSource(s) PROVE seen' = seen
  BY <1>3 DEF RunSource, Begin, BeginCancelled, Take, Stamp, Apply, Drained, TakeError, ReadStats, Merge,
    sourceVars, readVars
<1>4. ASSUME NEW s \in Sources, Reader(s), ~Read(s) PROVE seen' = seen
  BY <1>4 DEF Reader, ReadLoop, Loop, LoopEnds, ReadNothing, ReadEof, ReadFails, Send, SendGivesUp,
    CloseErrc, CloseOut
<1>5. CASE Wait \/ Over \/ Outside \/ UNCHANGED vars
  BY <1>2, <1>5 DEF Wait, Over, Outside, Cancel, Arrive, vars, sourceVars, readVars
<1> QED BY <1>1, <1>2, <1>3, <1>4, <1>5 DEF Next, Reader

LEMMA LatestStep ==
  ASSUME TypeOK, TypeOK', Flow, Latest, [Next]_vars PROVE Latest'
<1>1. CASE UNCHANGED <<worker, item, applied, last>>
  BY <1>1, SeenGrows DEF Latest
<1>2. ASSUME NEW s \in Sources, Stamp(s) PROVE Latest'
  <2>1. /\ worker[s] = "stamp" /\ worker' = [worker EXCEPT ![s] = "apply"]
        /\ item' = item /\ applied' = applied /\ seen' = seen
        /\ last' = IF item[s][1] > last THEN item[s][1] ELSE last
    BY <1>2 DEF Stamp, Works, sourceVars, readVars
  <2>2. Len(item[s]) = 1 /\ item[s] \in Seq(Times)
    BY <2>1 DEF TypeOK, WorkTypeOK
  <2>t. Times \subseteq Nat
    BY SourceAssumption
  <2>3. item[s][1] \in Nat /\ last \in Nat
    <3>1. item[s][1] \in Times
      BY <2>2, Element
    <3> QED BY <2>t, <3>1 DEF TypeOK, WorkTypeOK
  <2>4. last <= last' /\ item[s][1] <= last' /\ last' \in {item[s][1], last} /\ last' \in Nat
    BY <2>1, <2>3
  <2>5. \A r \in Sources : \A i \in DOMAIN applied[r] : applied[r][i] \in Nat
    <3> SUFFICES ASSUME NEW r \in Sources, NEW i \in DOMAIN applied[r] PROVE applied[r][i] \in Nat
      OBVIOUS
    <3>1. applied[r] \in Seq(Times)
      BY DEF TypeOK, WorkTypeOK
    <3>2. applied[r][i] \in Times
      BY <3>1, Element
    <3> QED BY <2>t, <3>2
  <2>6. \A r \in Sources : \A i \in DOMAIN applied[r] : applied'[r][i] <= last'
    BY <2>1, <2>3, <2>4, <2>5 DEF Latest
  <2>7. ASSUME NEW r \in Sources, worker'[r] = "apply" PROVE item'[r][1] <= last'
    <3>1. CASE r = s
      BY <2>1, <2>4, <3>1
    <3>2. CASE r # s
      <4>1. worker[r] = "apply" /\ item[r] \in Seq(Times) /\ Len(item[r]) = 1
        BY <2>1, <2>7, <3>2 DEF TypeOK, WorkTypeOK
      <4>2. item[r][1] <= last /\ item[r][1] \in Nat
        <5>1. item[r][1] \in Times
          BY <4>1, Element
        <5> QED BY <2>t, <4>1, <5>1 DEF Latest
      <4> QED BY <2>1, <2>3, <2>4, <4>2
    <3> QED BY <3>1, <3>2
  <2>8. last' # 0 => \E r \in Sources : \E i \in DOMAIN seen[r] : seen[r][i] = last'
    BY <2>2, <2>4, ItemIsNext DEF Latest
  <2> QED BY <2>1, <2>6, <2>7, <2>8 DEF Latest
<1>3. ASSUME NEW s \in Sources, Apply(s) PROVE Latest'
  <2>1. /\ worker[s] = "apply" /\ worker' = [worker EXCEPT ![s] = "range"]
        /\ applied' = [applied EXCEPT ![s] = Append(@, item[s][1])]
        /\ item' = [item EXCEPT ![s] = <<>>] /\ last' = last /\ seen' = seen
    BY <1>3 DEF Apply, Works, sourceVars, readVars
  <2>2. Len(item[s]) = 1 /\ item[s] \in Seq(Times) /\ applied[s] \in Seq(Times)
    BY <2>1 DEF TypeOK, WorkTypeOK
  <2>3. item[s][1] <= last /\ item[s][1] \in Times
    BY <2>1, <2>2, Element DEF Latest
  <2>4. applied'[s] = Append(applied[s], item[s][1])
    BY <2>1 DEF TypeOK, WorkTypeOK
  <2>5. /\ DOMAIN applied'[s] = 1 .. (Len(applied[s]) + 1) /\ Len(applied[s]) \in Nat
        /\ applied'[s][Len(applied[s]) + 1] = item[s][1]
        /\ \A i \in 1 .. Len(applied[s]) : applied'[s][i] = applied[s][i]
        /\ DOMAIN applied[s] = 1 .. Len(applied[s])
    BY <2>2, <2>3, <2>4
  <2>6. ASSUME NEW r \in Sources, NEW i \in DOMAIN applied'[r] PROVE applied'[r][i] <= last
    <3>1. CASE r # s
      BY <2>1, <2>6, <3>1 DEF Latest, TypeOK, WorkTypeOK
    <3>2. CASE r = s /\ i = Len(applied[s]) + 1
      BY <2>3, <2>5, <3>2
    <3>3. CASE r = s /\ i # Len(applied[s]) + 1
      <4>1. i \in 1 .. Len(applied[s])
        BY <2>5, <2>6, <3>3
      <4> QED BY <2>5, <3>3, <4>1 DEF Latest
    <3> QED BY <3>1, <3>2, <3>3
  <2>7. ASSUME NEW r \in Sources, worker'[r] = "apply" PROVE item'[r][1] <= last
    <3>1. r # s /\ worker[r] = "apply"
      BY <2>1, <2>7 DEF TypeOK, WorkTypeOK
    <3> QED BY <2>1, <3>1 DEF Latest, TypeOK, WorkTypeOK
  <2> QED BY <2>1, <2>6, <2>7 DEF Latest
<1>4. ASSUME NEW s \in Sources, Take(s) PROVE Latest'
  <2>1. /\ worker' = [worker EXCEPT ![s] = "stamp"] /\ applied' = applied /\ last' = last /\ seen' = seen
        /\ item' = [item EXCEPT ![s] = <<Head(buf[s])>>]
    BY <1>4 DEF Take, Works
  <2>2. ASSUME NEW r \in Sources, worker'[r] = "apply" PROVE item'[r][1] <= last
    <3>1. r # s /\ worker[r] = "apply"
      BY <2>1, <2>2 DEF TypeOK, WorkTypeOK
    <3> QED BY <2>1, <3>1 DEF Latest, TypeOK, WorkTypeOK
  <2> QED BY <2>1, <2>2 DEF Latest
<1>5. ASSUME NEW s \in Sources, RunSource(s), ~Stamp(s), ~Apply(s), ~Take(s) PROVE Latest'
  <2>1. /\ item' = item /\ applied' = applied /\ last' = last /\ seen' = seen
        /\ \E w \in {"range", "errc", "stats", "merge", "done"} : worker' = [worker EXCEPT ![s] = w]
    BY <1>5 DEF RunSource, Begin, BeginCancelled, Drained, TakeError, ReadStats, Merge, Works, sourceVars, readVars
  <2>2. \A r \in Sources : worker'[r] = "apply" => worker[r] = "apply"
    BY <2>1 DEF TypeOK, WorkTypeOK
  <2> QED BY <2>1, <2>2 DEF Latest
<1>6. CASE Wait \/ Over \/ Outside \/ \E s \in Sources : Reader(s)
  BY <1>1, <1>6 DEF Wait, Over, Outside, Reader, vars, workVars
<1> QED BY <1>1, <1>2, <1>3, <1>4, <1>5, <1>6 DEF Next, vars, workVars

\* The report carries the time of the latest packet that was applied, also
\* when several sources store their times at once, in any order.
THEOREM LatestStamp == Spec => []LastIsLatest
<1>1. Init => Latest
  BY DEF Init, Latest
<1>2. TypeOK /\ TypeOK' /\ Flow /\ Latest /\ [Next]_vars => Latest'
  BY LatestStep
<1>3. Latest => LastIsLatest
  BY DEF Latest, LastIsLatest
<1> QED BY <1>1, <1>2, <1>3, FlowAlways, PTL DEF Spec

-----------------------------------------------------------------------------
(* Nothing is lost.                                                        *)

\* A worker past its loop leaves nothing behind.
Emptied(s) ==
  /\ reader[s] = "idle" => buf[s] = <<>>
  /\ worker[s] \in {"errc", "stats", "merge", "done"} =>
       /\ buf[s] = <<>> /\ reader[s] \in {"idle", "done"}
       /\ reader[s] = "idle" => Cancelled
  /\ main = "returned" => worker[s] = "done"

\* A file's packets are read or still to be read, and a reader that may not
\* fail and is not cut short leaves only at the end of the file.
ReadWhole(s) ==
  /\ waiting[s] + Len(seen[s]) = FileLength
  /\ s \notin Faulty /\ reader[s] \in {"end", "closing", "done"} /\ ~Cancelled => waiting[s] = 0

Drains == (\A s \in Sources : Emptied(s)) /\ (\A s \in Files : ReadWhole(s))

LEMMA DrainsInit == Init => Drains
<1> SUFFICES ASSUME Init PROVE Drains
  OBVIOUS
<1>1. \A s \in Sources : Emptied(s)
  BY DEF Init, SourceInit, Emptied
<1>2. ASSUME NEW s \in Files PROVE ReadWhole(s)
  <2>1. waiting[s] = FileLength /\ seen[s] = <<>> /\ reader[s] = "idle"
    BY DEF Init, SourceInit, Sources
  <2> QED BY <2>1, SourceAssumption DEF ReadWhole
<1> QED BY <1>1, <1>2 DEF Drains

LEMMA EmptiedStep ==
  ASSUME TypeOK, TypeOK', Drains, [Next]_vars, NEW r \in Sources PROVE Emptied(r)'
<1>0. Emptied(r)
  BY DEF Drains
<1>1. ASSUME NEW s \in Sources, RunSource(s) PROVE Emptied(r)'
  <2>1. ctx' = ctx /\ main' = main /\ worker[s] # "done"
    BY <1>1 DEF RunSource, Begin, BeginCancelled, Take, Stamp, Apply, Drained, TakeError, ReadStats, Merge,
      Works, sourceVars
  <2>2. CASE r # s
    <3>a. buf' \in {buf, [buf EXCEPT ![s] = Tail(@)]}
      BY <1>1 DEF RunSource, Begin, BeginCancelled, Take, Stamp, Apply, Drained, TakeError, ReadStats, Merge,
        sourceVars, readVars
    <3>b. reader' \in {reader, [reader EXCEPT ![s] = "top"]}
      BY <1>1 DEF RunSource, Begin, BeginCancelled, Take, Stamp, Apply, Drained, TakeError, ReadStats, Merge,
        sourceVars, readVars
    <3>c. \E w \in WorkerSteps : worker' = [worker EXCEPT ![s] = w]
      BY <1>1 DEF RunSource, Begin, BeginCancelled, Take, Stamp, Apply, Drained, TakeError, ReadStats, Merge,
        Works, WorkerSteps
    <3>1. buf'[r] = buf[r] /\ reader'[r] = reader[r] /\ worker'[r] = worker[r]
      BY <2>2, <3>a, <3>b, <3>c, ZenonT(30) DEF TypeOK, SourceTypeOK, WorkTypeOK
    <3> QED BY <1>0, <2>1, <3>1 DEF Emptied, Cancelled
  <2>3. CASE r = s /\ Begin(s)
    BY <1>0, <2>1, <2>3 DEF Begin, Works, Emptied, TypeOK, SourceTypeOK, WorkTypeOK
  <2>4. CASE r = s /\ BeginCancelled(s)
    BY <1>0, <2>1, <2>4 DEF BeginCancelled, Works, Emptied, sourceVars, readVars, Cancelled, TypeOK, WorkTypeOK
  <2>5. CASE r = s /\ (Take(s) \/ Stamp(s) \/ Apply(s))
    <3>1. reader' = reader /\ worker'[s] \in {"stamp", "apply", "range"}
      BY <2>5 DEF Take, Stamp, Apply, Works, sourceVars, readVars, TypeOK, WorkTypeOK
    <3>2. reader[s] = "idle" => buf'[s] = <<>>
      BY <1>0, <2>5 DEF Take, Stamp, Apply, Emptied, sourceVars, readVars
    <3> QED BY <1>0, <2>1, <2>5, <3>1, <3>2 DEF Emptied
  <2>6. CASE r = s /\ Drained(s)
    BY <1>0, <2>1, <2>6 DEF Drained, OutClosed, Works, Emptied, sourceVars, readVars, TypeOK, WorkTypeOK
  <2>7. CASE r = s /\ (TakeError(s) \/ ReadStats(s) \/ Merge(s))
    <3>1. /\ buf' = buf /\ reader' = reader /\ worker[s] \in {"errc", "stats", "merge"}
      BY <2>7 DEF TakeError, ReadStats, Merge, Works, sourceVars, readVars
    <3> QED BY <1>0, <2>1, <2>7, <3>1 DEF Emptied, Cancelled
  <2> QED BY <1>1, <2>2, <2>3, <2>4, <2>5, <2>6, <2>7 DEF RunSource
<1>2. ASSUME NEW s \in Sources, Reader(s) PROVE Emptied(r)'
  <2>1. ctx' = ctx /\ main' = main /\ worker' = worker
    BY <1>2 DEF Reader, ReadLoop, Loop, LoopEnds, Read, ReadNothing, ReadEof, ReadFails, Send, SendGivesUp,
      CloseErrc, CloseOut, workVars
  <2>2. CASE r # s
    <3>1. buf'[r] = buf[r] /\ reader'[r] = reader[r]
      BY <1>2, <2>2 DEF Reader, ReadLoop, Loop, LoopEnds, Read, ReadNothing, ReadEof, ReadFails, Send, SendGivesUp,
        CloseErrc, CloseOut, Goes, TypeOK, SourceTypeOK
    <3> QED BY <1>0, <2>1, <3>1 DEF Emptied, Cancelled
  <2>3. CASE r = s
    <3>1. reader[s] \notin {"idle", "done"} /\ reader'[s] # "idle"
      BY <1>2 DEF Reader, ReadLoop, Loop, LoopEnds, Read, ReadNothing, ReadEof, ReadFails, Send, SendGivesUp,
        CloseErrc, CloseOut, Goes, TypeOK, SourceTypeOK
    <3> QED BY <1>0, <2>1, <2>3, <3>1 DEF Emptied
  <2> QED BY <2>2, <2>3
<1>3. CASE Wait
  BY <1>0, <1>3 DEF Wait, Emptied, sourceVars, readVars, Cancelled
<1>4. CASE Over \/ UNCHANGED vars
  BY <1>0, <1>4 DEF Over, Emptied, vars, workVars, sourceVars, readVars, Cancelled
<1>5. CASE Outside
  BY <1>0, <1>5 DEF Outside, Cancel, Arrive, Emptied, workVars, readVars, Cancelled
<1> QED BY <1>1, <1>2, <1>3, <1>4, <1>5 DEF Next

LEMMA ReadWholeStep ==
  ASSUME TypeOK, TypeOK', Drains, [Next]_vars, NEW r \in Files PROVE ReadWhole(r)'
<1>0. ReadWhole(r) /\ r \in Sources
  BY DEF Drains, Sources
<1>1. ASSUME NEW s \in Sources, RunSource(s) PROVE ReadWhole(r)'
  <2>1. /\ waiting' = waiting /\ seen' = seen /\ ctx' = ctx
        /\ reader' \in {reader, [reader EXCEPT ![s] = "top"]}
    BY <1>1 DEF RunSource, Begin, BeginCancelled, Take, Stamp, Apply, Drained, TakeError, ReadStats, Merge,
      sourceVars, readVars, wire
  <2>2. reader'[r] \in {"end", "closing", "done"} => reader[r] = reader'[r]
    BY <1>0, <2>1 DEF TypeOK, SourceTypeOK
  <2> QED BY <1>0, <2>1, <2>2 DEF ReadWhole, Cancelled
<1>2. ASSUME NEW s \in Sources, Reader(s), Read(s) PROVE ReadWhole(r)'
  <2>1. PICK p \in Times : seen' = [seen EXCEPT ![s] = Append(seen[s], p)]
    BY <1>2 DEF Read
  <2>2. /\ waiting' = [waiting EXCEPT ![s] = @ - 1] /\ waiting[s] > 0
        /\ reader' = [reader EXCEPT ![s] = "send"] /\ ctx' = ctx
    BY <1>2 DEF Read, Goes
  <2>3. CASE r = s
    <3>1. seen'[r] = Append(seen[r], p) /\ seen[r] \in Seq(Times)
      BY <1>0, <2>1, <2>3 DEF TypeOK, SourceTypeOK
    <3>2. Len(seen'[r]) = Len(seen[r]) + 1 /\ Len(seen[r]) \in Nat
      BY <3>1, Appended
    <3>3. waiting'[r] = waiting[r] - 1 /\ waiting[r] \in Nat /\ reader'[r] = "send"
      BY <1>0, <2>2, <2>3 DEF TypeOK, SourceTypeOK
    <3>4. waiting[r] + Len(seen[r]) = FileLength
      BY <1>0 DEF ReadWhole
    <3>5. waiting'[r] + Len(seen'[r]) = FileLength
      BY <3>2, <3>3, <3>4
    <3> QED BY <3>3, <3>5 DEF ReadWhole
  <2>4. CASE r # s
    <3>1. seen'[r] = seen[r] /\ waiting'[r] = waiting[r] /\ reader'[r] = reader[r]
      BY <1>0, <2>1, <2>2, <2>4 DEF TypeOK, SourceTypeOK
    <3> QED BY <1>0, <2>2, <3>1 DEF ReadWhole, Cancelled
  <2> QED BY <2>3, <2>4
<1>3. ASSUME NEW s \in Sources, Reader(s), ~Read(s) PROVE ReadWhole(r)'
  <2>1. waiting' = waiting /\ seen' = seen /\ ctx' = ctx
    BY <1>3 DEF Reader, ReadLoop, Loop, LoopEnds, ReadNothing, ReadEof, ReadFails, Send, SendGivesUp,
      CloseErrc, CloseOut, wire
  <2>2. ASSUME r \notin Faulty, reader'[r] \in {"end", "closing", "done"}, ~Cancelled PROVE waiting[r] = 0
    BY <1>0, <1>3, <2>2 DEF Reader, ReadLoop, Loop, LoopEnds, ReadNothing, ReadEof, ReadFails, Send, SendGivesUp,
      CloseErrc, CloseOut, Goes, ReadWhole, TypeOK, SourceTypeOK
  <2> QED BY <1>0, <2>1, <2>2 DEF ReadWhole, Cancelled
<1>4. CASE Wait \/ Over \/ UNCHANGED vars
  BY <1>0, <1>4 DEF Wait, Over, ReadWhole, vars, sourceVars, readVars, wire, Cancelled
<1>5. CASE Outside
  <2>1. waiting'[r] = waiting[r] /\ seen' = seen /\ reader' = reader /\ (Cancelled => Cancelled')
    BY <1>0, <1>5, SourceAssumption DEF Outside, Cancel, Arrive, readVars, wire, Cancelled, TypeOK, SourceTypeOK
  <2> QED BY <1>0, <2>1 DEF ReadWhole
<1> QED BY <1>1, <1>2, <1>3, <1>4, <1>5 DEF Next, Reader

\* When runSources has returned, everything read was applied, except for one
\* packet per source whose reader saw the end of the context while it held it;
\* a file that reads without error and is not cut short is applied whole.
THEOREM NothingLost == Spec => []AllDelivered
<1>1. ASSUME TypeOK, Flow, Drains, main = "returned", NEW s \in Sources
      PROVE  /\ Len(seen[s]) - Len(applied[s]) <= (IF Cancelled THEN 1 ELSE 0)
             /\ s \in Files \ Faulty /\ ~Cancelled => Len(applied[s]) = FileLength
  <2>1. /\ worker[s] = "done" /\ buf[s] = <<>> /\ reader[s] \in {"idle", "done"}
        /\ reader[s] = "idle" => Cancelled
    BY <1>1 DEF Drains, Emptied
  <2>2. Len(item[s]) = 0 /\ Len(hand[s]) = 0 /\ Len(buf[s]) = 0
    BY <1>1, <2>1 DEF TypeOK, SourceTypeOK, WorkTypeOK
  <2>3. Len(seen[s]) \in Nat /\ Len(applied[s]) \in Nat
    BY <1>1, Lengths
  <2>4. FlowLength(s)
    BY <1>1 DEF Flow
  <2>5. Len(seen[s]) <= Len(applied[s]) + 1 /\ (~Cancelled => Len(seen[s]) = Len(applied[s]))
    BY <2>2, <2>3, <2>4 DEF FlowLength, Count, Exact
  <2>6. Len(seen[s]) - Len(applied[s]) <= (IF Cancelled THEN 1 ELSE 0)
    <3>1. CASE Cancelled
      BY <2>3, <2>5, <3>1
    <3>2. CASE ~Cancelled
      <4>1. Len(seen[s]) = Len(applied[s])
        BY <2>5, <3>2
      <4>2. Len(seen[s]) - Len(applied[s]) = 0
        BY <2>3, <4>1
      <4> QED BY <3>2, <4>2
    <3> QED BY <3>1, <3>2
  <2>7. ASSUME s \in Files \ Faulty, ~Cancelled PROVE Len(applied[s]) = FileLength
    <3>1. waiting[s] + Len(seen[s]) = FileLength /\ waiting[s] = 0
      BY <1>1, <2>1, <2>7 DEF Drains, ReadWhole
    <3> QED BY <2>3, <2>5, <2>7, <3>1
  <2> QED BY <2>6, <2>7
<1>2. TypeOK /\ Flow /\ Drains => AllDelivered
  BY <1>1 DEF AllDelivered
<1>3. TypeOK /\ TypeOK' /\ Drains /\ [Next]_vars => Drains'
  BY EmptiedStep, ReadWholeStep DEF Drains, Sources
<1> QED BY DrainsInit, <1>2, <1>3, FlowAlways, PTL DEF Spec

-----------------------------------------------------------------------------
(* The sums of a run and its outcome.  The packets counted are those that  *)
(* the workers which have reported applied: no packet is counted twice, as *)
(* each is named by its source and its place.  An error is followed from   *)
(* the channel of its reader through the worker to the outcome.            *)

\* The packets that some workers applied, each with its source, are counted
\* as the workers report.
AppliedBy(workers) == UNION {{s} \X DOMAIN applied[s] : s \in workers}
Merged == AppliedBy({s \in Sources : worker[s] = "done"})

\* A worker has reported what its source counted, or will.
Honest(s) ==
  worker[s] = "merge" => Len(applied[s]) + counted[s].dropped <= counted[s].received
Arrivals(s) == waiting[s] + Len(seen[s]) + dropped[s] = arrived[s]

Sums ==
  /\ IsFiniteSet(Merged) /\ total.packets = Cardinality(Merged)
  /\ total.packets + total.dropped <= total.received
  /\ \A s \in Sources : Honest(s)
  /\ \A s \in Sockets : Arrivals(s)

LEMMA FirstOfSum ==
  ASSUME NEW a \in Nat, NEW b \in Nat, NEW c \in Nat, NEW d \in Nat, NEW e \in Nat, a + b + c + d <= e
  PROVE  a <= e
OBVIOUS

LEMMA SumOfOneMore ==
  ASSUME NEW a \in Nat, NEW b \in Nat, NEW c \in Nat, NEW x \in Nat, NEW y \in Nat, NEW z \in Nat,
         a + b <= c, x + y <= z
  PROVE  (a + x) + (b + y) <= c + z
OBVIOUS

\* What a source counted is at least what was applied and dropped of it.
LEMMA Enough ==
  ASSUME NEW a \in Nat, NEW n \in Nat, NEW w \in Nat, NEW d \in Nat, NEW r, a <= n, w + n + d = r
  PROVE  a + d <= r
OBVIOUS

LEMMA SumsInit == Init => Sums
<1> SUFFICES ASSUME Init  PROVE Sums
  OBVIOUS
<1>1. Merged = {}  BY DEF Init, Merged, AppliedBy
<1>2. total.packets = 0 /\ total.dropped = 0 /\ total.received = 0  BY DEF Init
<1>3. \A s \in Sources : Honest(s)  BY DEF Init, Honest
<1>4. ASSUME NEW s \in Sockets  PROVE Arrivals(s)
  <2>1. s \in Sources /\ s \notin Files  BY SourceAssumption DEF Sources
  <2>2. waiting[s] = 0 /\ seen[s] = <<>> /\ dropped[s] = 0 /\ arrived[s] = 0
    BY <2>1 DEF Init, SourceInit
  <2> QED  BY <2>2 DEF Arrivals
<1> QED  BY <1>1, <1>2, <1>3, <1>4, FS_EmptySet DEF Sums

\* One more worker reports.
LEMMA OneMoreReport ==
  ASSUME NEW done, NEW s, s \notin done, IsFiniteSet(AppliedBy(done)), NEW S, applied[s] \in Seq(S)
  PROVE  /\ IsFiniteSet(AppliedBy(done \cup {s}))
         /\ Cardinality(AppliedBy(done \cup {s})) = Cardinality(AppliedBy(done)) + Len(applied[s])
<1> DEFINE own == {s} \X DOMAIN applied[s]
<1>1. DOMAIN applied[s] = 1..Len(applied[s]) /\ Len(applied[s]) \in Nat  OBVIOUS
<1>2. IsFiniteSet(DOMAIN applied[s]) /\ Cardinality(DOMAIN applied[s]) = Len(applied[s])
  BY <1>1, FS_Interval
<1>3. IsFiniteSet(own) /\ Cardinality(own) = Len(applied[s])
  <2>1. IsFiniteSet({s}) /\ Cardinality({s}) = 1  BY FS_Singleton
  <2>2. IsFiniteSet(own) /\ Cardinality(own) = 1 * Cardinality(DOMAIN applied[s])
    BY <1>2, <2>1, FS_Product
  <2> QED  BY <1>1, <1>2, <2>2
<1>4. AppliedBy(done \cup {s}) = AppliedBy(done) \cup own
  BY DEF AppliedBy
<1>5. AppliedBy(done) \cap own = {}
  BY DEF AppliedBy
<1> HIDE DEF own
<1>6. /\ IsFiniteSet(AppliedBy(done) \cup own)
      /\ Cardinality(AppliedBy(done) \cup own) =
           Cardinality(AppliedBy(done)) + Cardinality(own) - Cardinality(AppliedBy(done) \cap own)
  BY <1>3, FS_Union
<1>7. Cardinality(AppliedBy(done) \cap own) = 0  BY <1>5, FS_EmptySet
<1>8. Cardinality(AppliedBy(done)) \in Nat  BY FS_CardinalityType
<1>9. Cardinality(AppliedBy(done) \cup own) = Cardinality(AppliedBy(done)) + Len(applied[s])
  BY <1>1, <1>3, <1>6, <1>7, <1>8
<1> QED  BY <1>4, <1>6, <1>9

\* What has been reported stays as it is while no worker reports.
LEMMA MergedStays ==
  ASSUME Sums, \A s \in Sources : worker'[s] = "done" <=> worker[s] = "done",
         \A s \in Sources : worker[s] = "done" => applied'[s] = applied[s],
         total' = total
  PROVE  /\ (IsFiniteSet(Merged) /\ total.packets = Cardinality(Merged))'
         /\ (total.packets + total.dropped <= total.received)'
<1>1. Merged' = Merged  BY DEF Merged, AppliedBy
<1> QED  BY <1>1 DEF Sums

\* No worker but its own disturbs what a source counted.
LEMMA HonestStays ==
  ASSUME Sums, NEW s \in Sources, worker'[s] = worker[s], applied'[s] = applied[s], counted'[s] = counted[s]
  PROVE  Honest(s)'
BY DEF Sums, Honest

LEMMA SumsWork ==
  ASSUME TypeOK, TypeOK', Flow, Sums, NEW s \in Sources, RunSource(s)  PROVE Sums'
<1>0. /\ worker \in [Sources -> WorkerSteps] /\ counted \in [Sources -> [received : Nat, dropped : Nat]]
      /\ applied \in [Sources -> Seq(Times)] /\ total \in [packets : Nat, received : Nat, dropped : Nat]
  BY DEF TypeOK, WorkTypeOK
<1>1. waiting' = waiting /\ seen' = seen /\ dropped' = dropped /\ arrived' = arrived
  BY DEF RunSource, Begin, BeginCancelled, Take, Stamp, Apply, Drained, TakeError, ReadStats, Merge,
    sourceVars, readVars, wire
<1>2. \A r \in Sockets : Arrivals(r)'  BY <1>1 DEF Sums, Arrivals
<1>3. ASSUME NEW to, worker[s] # "done", to \notin {"done", "merge"},
             worker' = [worker EXCEPT ![s] = to], counted' = counted, total' = total,
             \A r \in Sources : r # s => applied'[r] = applied[r]
      PROVE  Sums'
  <2>1. /\ (IsFiniteSet(Merged) /\ total.packets = Cardinality(Merged))'
        /\ (total.packets + total.dropped <= total.received)'
    BY <1>0, <1>3, MergedStays
  <2>2. \A r \in Sources : Honest(r)'
    BY <1>0, <1>3, HonestStays DEF Honest
  <2> QED  BY <1>2, <2>1, <2>2 DEF Sums
<1>4. CASE Begin(s)  BY <1>3, <1>4 DEF Begin, Works
<1>5. CASE BeginCancelled(s)  BY <1>3, <1>5 DEF BeginCancelled, Works
<1>6. CASE Take(s)  BY <1>3, <1>6 DEF Take, Works
<1>7. CASE Stamp(s)  BY <1>3, <1>7 DEF Stamp, Works
<1>8. CASE Apply(s)
  <2>1. \A r \in Sources : r # s => applied'[r] = applied[r]  BY <1>0, <1>8 DEF Apply
  <2> QED  BY <1>3, <1>8, <2>1 DEF Apply, Works
<1>9. CASE Drained(s)  BY <1>3, <1>9 DEF Drained, Works
<1>10. CASE TakeError(s)  BY <1>3, <1>10 DEF TakeError, Works
<1>11. CASE ReadStats(s)
  <2>1. /\ worker[s] = "stats" /\ worker' = [worker EXCEPT ![s] = "merge"] /\ total' = total
        /\ applied' = applied /\ counted' = [counted EXCEPT ![s] = Stats(s)]
    BY <1>11 DEF ReadStats, Works
  <2>2. /\ (IsFiniteSet(Merged) /\ total.packets = Cardinality(Merged))'
        /\ (total.packets + total.dropped <= total.received)'
    BY <1>0, <2>1, MergedStays
  <2>3. \A r \in Sources : r # s => Honest(r)'
    BY <1>0, <2>1, HonestStays
  <2>4. Len(applied[s]) <= Len(seen[s]) /\ Len(applied[s]) \in Nat /\ Len(seen[s]) \in Nat
    <3>1. FlowLength(s)  BY DEF Flow
    <3>2. /\ Len(seen[s]) \in Nat /\ Len(applied[s]) \in Nat /\ Len(item[s]) \in Nat
          /\ Len(buf[s]) \in Nat /\ Len(hand[s]) \in Nat
      BY Lengths
    <3>3. Len(applied[s]) + Len(item[s]) + Len(buf[s]) + Len(hand[s]) <= Len(seen[s])
      BY <3>1 DEF FlowLength, Count
    <3> QED  BY <3>2, <3>3, FirstOfSum
  <2>5. counted'[s] = Stats(s)  BY <1>0, <2>1
  <2>6. Len(applied[s]) + Stats(s).dropped <= Stats(s).received
    <3>1. CASE s \in Sockets
      <4>1. Arrivals(s)  BY <3>1 DEF Sums
      <4>2. waiting[s] \in Nat /\ dropped[s] \in Nat  BY <3>1 DEF TypeOK, SourceTypeOK
      <4>3. Stats(s).received = arrived[s] /\ Stats(s).dropped = dropped[s]  BY <3>1 DEF Stats
      <4>4. waiting[s] + Len(seen[s]) + dropped[s] = arrived[s]  BY <4>1 DEF Arrivals
      <4>5. Len(applied[s]) + dropped[s] <= arrived[s]  BY <2>4, <4>2, <4>4, Enough
      <4> QED  BY <4>3, <4>5
    <3>2. CASE s \notin Sockets
      <4>1. Stats(s).received = Len(seen[s]) /\ Stats(s).dropped = 0  BY <3>2 DEF Stats
      <4> QED  BY <2>4, <4>1
    <3> QED  BY <3>1, <3>2
  <2>7. Honest(s)'  BY <2>1, <2>5, <2>6 DEF Honest
  <2> QED  BY <1>2, <2>2, <2>3, <2>7 DEF Sums
<1>12. CASE Merge(s)
  <2>1. /\ worker[s] = "merge" /\ worker' = [worker EXCEPT ![s] = "done"]
        /\ applied' = applied /\ counted' = counted
        /\ total' = [packets  |-> total.packets + Len(applied[s]),
                     received |-> total.received + counted[s].received,
                     dropped  |-> total.dropped + counted[s].dropped]
    BY <1>12 DEF Merge, Works
  <2> DEFINE done == {r \in Sources : worker[r] = "done"}
  <2>2. s \notin done /\ {r \in Sources : worker'[r] = "done"} = done \cup {s}
    BY <1>0, <2>1
  <2>3. Merged' = AppliedBy(done \cup {s})
    BY <2>1, <2>2 DEF Merged, AppliedBy
  <2>4. IsFiniteSet(AppliedBy(done)) /\ total.packets = Cardinality(AppliedBy(done))
    BY DEF Sums, Merged
  <2> HIDE DEF done
  <2>5. applied[s] \in Seq(Times)  BY <1>0
  <2>6. /\ IsFiniteSet(AppliedBy(done \cup {s}))
        /\ Cardinality(AppliedBy(done \cup {s})) = Cardinality(AppliedBy(done)) + Len(applied[s])
    BY <2>2, <2>4, <2>5, OneMoreReport
  <2>7. (IsFiniteSet(Merged) /\ total.packets = Cardinality(Merged))'
    BY <2>1, <2>3, <2>4, <2>6
  <2>8. Len(applied[s]) + counted[s].dropped <= counted[s].received
    BY <2>1 DEF Sums, Honest
  <2>9. total.packets + total.dropped <= total.received  BY DEF Sums
  <2>10. (total.packets + total.dropped <= total.received)'
    <3>1. /\ total.packets \in Nat /\ total.received \in Nat /\ total.dropped \in Nat
          /\ counted[s].received \in Nat /\ counted[s].dropped \in Nat /\ Len(applied[s]) \in Nat
      BY <1>0, <2>5
    <3>2. /\ total'.packets = total.packets + Len(applied[s])
          /\ total'.received = total.received + counted[s].received
          /\ total'.dropped = total.dropped + counted[s].dropped
      BY <2>1
    <3>3. (total.packets + Len(applied[s])) + (total.dropped + counted[s].dropped)
            <= total.received + counted[s].received
      BY <2>8, <2>9, <3>1, SumOfOneMore
    <3> QED  BY <3>2, <3>3
  <2>11. \A r \in Sources : Honest(r)'
    <3>1. ASSUME NEW r \in Sources, r # s  PROVE Honest(r)'
      BY <1>0, <2>1, <3>1, HonestStays
    <3>2. Honest(s)'  BY <1>0, <2>1 DEF Honest
    <3> QED  BY <3>1, <3>2
  <2> QED  BY <1>2, <2>7, <2>10, <2>11 DEF Sums
<1> QED  BY <1>4, <1>5, <1>6, <1>7, <1>8, <1>9, <1>10, <1>11, <1>12 DEF RunSource

LEMMA SumsStep ==
  ASSUME TypeOK, TypeOK', Flow, Sums, [Next]_vars  PROVE Sums'
<1>1. ASSUME UNCHANGED <<worker, applied, counted, total>>, \A s \in Sockets : Arrivals(s)'
      PROVE  Sums'
  <2>1. /\ (IsFiniteSet(Merged) /\ total.packets = Cardinality(Merged))'
        /\ (total.packets + total.dropped <= total.received)'
    BY <1>1, MergedStays
  <2>2. \A r \in Sources : Honest(r)'  BY <1>1, HonestStays
  <2> QED  BY <1>1, <2>1, <2>2 DEF Sums
<1>2. ASSUME NEW s \in Sources, Reader(s)  PROVE Sums'
  <2>1. UNCHANGED <<worker, applied, counted, total>>  BY <1>2 DEF Reader, workVars
  <2>2. arrived' = arrived /\ dropped' = dropped
    BY <1>2 DEF Reader, ReadLoop, Loop, LoopEnds, Read, ReadNothing, ReadEof, ReadFails, Send, SendGivesUp,
      CloseErrc, CloseOut, wire
  <2>3. CASE Read(s)
    <3>1. PICK p \in Times : seen' = [seen EXCEPT ![s] = Append(seen[s], p)]
      BY <2>3 DEF Read
    <3>2. waiting' = [waiting EXCEPT ![s] = waiting[s] - 1] /\ waiting[s] > 0
      BY <2>3 DEF Read
    <3>3. ASSUME NEW r \in Sockets  PROVE Arrivals(r)'
      <4>1. Arrivals(r) /\ r \in Sources  BY DEF Sums, Sources
      <4>2. CASE r # s
        <5>1. seen'[r] = seen[r] /\ waiting'[r] = waiting[r]
          BY <3>1, <3>2, <4>1, <4>2 DEF TypeOK, SourceTypeOK
        <5> QED  BY <2>2, <4>1, <5>1 DEF Arrivals
      <4>3. CASE r = s
        <5>1. /\ seen'[r] = Append(seen[r], p) /\ seen[r] \in Seq(Times)
              /\ waiting'[r] = waiting[r] - 1 /\ waiting[r] \in Nat
              /\ dropped[r] \in Nat /\ arrived[r] \in Nat
          BY <3>1, <3>2, <4>1, <4>3, SourceAssumption DEF TypeOK, SourceTypeOK
        <5>2. Len(seen'[r]) = Len(seen[r]) + 1 /\ Len(seen[r]) \in Nat  BY <5>1, Appended
        <5> QED  BY <2>2, <4>1, <5>1, <5>2 DEF Arrivals
      <4> QED  BY <4>2, <4>3
    <3> QED  BY <1>1, <2>1, <3>3
  <2>4. CASE ~Read(s)
    <3>1. waiting' = waiting /\ seen' = seen
      BY <1>2, <2>4 DEF Reader, ReadLoop, Loop, LoopEnds, ReadNothing, ReadEof, ReadFails, Send, SendGivesUp,
        CloseErrc, CloseOut, wire
    <3>2. \A r \in Sockets : Arrivals(r)'  BY <2>2, <3>1 DEF Sums, Arrivals
    <3> QED  BY <1>1, <2>1, <3>2
  <2> QED  BY <2>3, <2>4
<1>3. CASE Wait \/ Over \/ UNCHANGED vars
  <2>1. UNCHANGED <<worker, applied, counted, total, waiting, seen, dropped, arrived>>
    BY <1>3 DEF Wait, Over, vars, workVars, sourceVars, readVars, wire
  <2>2. \A r \in Sockets : Arrivals(r)'  BY <2>1 DEF Sums, Arrivals
  <2> QED  BY <1>1, <2>1, <2>2
<1>4. CASE Outside
  <2>1. UNCHANGED <<worker, applied, counted, total, seen>>
    BY <1>4 DEF Outside, workVars, Cancel, Arrive, readVars
  <2>2. CASE Cancel
    <3>1. \A r \in Sockets : Arrivals(r)'  BY <2>1, <2>2 DEF Cancel, wire, Sums, Arrivals
    <3> QED  BY <1>1, <2>1, <3>1
  <2>3. ASSUME NEW s \in Sockets, Arrive(s)  PROVE \A r \in Sockets : Arrivals(r)'
    <3> SUFFICES ASSUME NEW r \in Sockets  PROVE Arrivals(r)'
      OBVIOUS
    <3>1. /\ Arrivals(r) /\ r \in Sources /\ s \in Sources /\ Len(seen[r]) \in Nat
          /\ waiting \in [Sources -> Nat] /\ dropped \in [Sockets -> Nat]
          /\ arrived \in [Sockets -> 0 .. MaxArrivals]
      BY Lengths DEF Sums, Sources, TypeOK, SourceTypeOK
    <3>2. arrived' = [arrived EXCEPT ![s] = arrived[s] + 1]  BY <2>3 DEF Arrive
    <3>3. \/ waiting' = [waiting EXCEPT ![s] = waiting[s] + 1] /\ dropped' = dropped
          \/ dropped' = [dropped EXCEPT ![s] = dropped[s] + 1] /\ waiting' = waiting
      BY <2>3 DEF Arrive
    <3>4. CASE r = s  BY <2>1, <3>1, <3>2, <3>3, <3>4, SourceAssumption, SMTT(30) DEF Arrivals
    <3>5. CASE r # s  BY <2>1, <3>1, <3>2, <3>3, <3>5 DEF Arrivals
    <3> QED  BY <3>4, <3>5
  <2> QED  BY <1>1, <1>4, <2>1, <2>2, <2>3 DEF Outside
<1> QED  BY <1>2, <1>3, <1>4, SumsWork DEF Next

-----------------------------------------------------------------------------

\* Errors.  While a reader's error waits its worker has not come for it.
Pending(s) == errc[s] = "error" => worker[s] \in {"range", "stamp", "apply", "errc"}

\* Where the error of a source is, once there was one.
Remembered(s) ==
  \/ errc[s] = "error" /\ worker[s] \in {"range", "stamp", "apply", "errc"}
  \/ found[s] = "error" /\ worker[s] \in {"stats", "merge"}
  \/ firstErr = "error"

LEMMA PendingStep ==
  ASSUME TypeOK, Drains, NEW r \in Sources, Pending(r), [Next]_vars  PROVE Pending(r)'
<1>0. /\ worker \in [Sources -> WorkerSteps] /\ errc \in [Sources -> {"none", "error"}]
      /\ reader \in [Sources -> ReaderSteps]
  BY DEF TypeOK, SourceTypeOK, WorkTypeOK
<1>1. ASSUME NEW s \in Sources, RunSource(s)  PROVE Pending(r)'
  <2>1. CASE r # s
    <3>1. worker'[r] = worker[r]
      BY <1>0, <1>1, <2>1 DEF RunSource, Begin, BeginCancelled, Take, Stamp, Apply, Drained, TakeError, ReadStats,
        Merge, Works
    <3>2. errc'[r] = errc[r]
      BY <1>0, <1>1, <2>1 DEF RunSource, Begin, BeginCancelled, Take, Stamp, Apply, Drained, TakeError, ReadStats,
        Merge, sourceVars, readVars
    <3> QED  BY <3>1, <3>2 DEF Pending
  <2>2. CASE r = s /\ TakeError(s)
    <3>1. errc'[r] = "none"  BY <1>0, <2>2 DEF TakeError
    <3> QED  BY <3>1 DEF Pending
  <2>3. CASE r = s /\ (Begin(s) \/ BeginCancelled(s) \/ Take(s) \/ Stamp(s) \/ Apply(s) \/ Drained(s))
    BY <1>0, <2>3 DEF Begin, BeginCancelled, Take, Stamp, Apply, Drained, Works, Pending, sourceVars, readVars
  <2>4. CASE r = s /\ (ReadStats(s) \/ Merge(s))
    BY <1>0, <2>4 DEF ReadStats, Merge, Works, Pending, sourceVars, readVars
  <2> QED  BY <1>1, <2>1, <2>2, <2>3, <2>4 DEF RunSource
<1>2. ASSUME NEW s \in Sources, Reader(s)  PROVE Pending(r)'
  <2>1. worker' = worker  BY <1>2 DEF Reader, workVars
  <2>2. errc'[r] = errc[r] \/ reader[r] = "recv"
    BY <1>0, <1>2 DEF Reader, ReadLoop, Loop, LoopEnds, Read, ReadNothing, ReadEof, ReadFails, Send, SendGivesUp,
      CloseErrc, CloseOut, Goes
  <2>3. reader[r] = "recv" => worker[r] \in {"range", "stamp", "apply"}
    BY <1>0 DEF Drains, Emptied, TypeOK, WorkTypeOK, WorkerSteps
  <2> QED  BY <2>1, <2>2, <2>3 DEF Pending
<1>3. CASE Wait \/ Over \/ Outside \/ UNCHANGED vars
  BY <1>3 DEF Wait, Over, Outside, Cancel, Arrive, vars, workVars, sourceVars, readVars, Pending
<1> QED  BY <1>1, <1>2, <1>3 DEF Next

LEMMA RememberedStep ==
  ASSUME TypeOK, NEW r \in Sources, Remembered(r), [Next]_vars  PROVE Remembered(r)'
<1>0. /\ worker \in [Sources -> WorkerSteps] /\ errc \in [Sources -> {"none", "error"}]
      /\ found \in [Sources -> {"none", "error"}] /\ firstErr \in {"none", "error"}
  BY DEF TypeOK, SourceTypeOK, WorkTypeOK
<1>1. ASSUME NEW s \in Sources, RunSource(s)  PROVE Remembered(r)'
  <2>0. firstErr = "error" => firstErr' = "error"
    BY <1>1 DEF RunSource, Begin, BeginCancelled, Take, Stamp, Apply, Drained, TakeError, ReadStats, Merge
  <2>1. CASE r # s
    <3>1. worker'[r] = worker[r]
      BY <1>0, <1>1, <2>1 DEF RunSource, Begin, BeginCancelled, Take, Stamp, Apply, Drained, TakeError, ReadStats,
        Merge, Works
    <3>2. errc'[r] = errc[r] /\ found'[r] = found[r]
      BY <1>0, <1>1, <2>1 DEF RunSource, Begin, BeginCancelled, Take, Stamp, Apply, Drained, TakeError, ReadStats,
        Merge, sourceVars, readVars
    <3> QED  BY <2>0, <3>1, <3>2 DEF Remembered
  <2>2. CASE r = s /\ TakeError(s)
    <3>1. worker[r] = "errc" /\ worker'[r] = "stats" /\ found'[r] = errc[r]
      BY <1>0, <2>2 DEF TakeError, Works
    <3> QED  BY <2>0, <3>1 DEF Remembered
  <2>3. CASE r = s /\ (Begin(s) \/ BeginCancelled(s) \/ Take(s) \/ Stamp(s) \/ Apply(s) \/ Drained(s))
    BY <1>0, <2>0, <2>3
    DEF Begin, BeginCancelled, Take, Stamp, Apply, Drained, Works, Remembered, sourceVars, readVars
  <2>4. CASE r = s /\ ReadStats(s)
    BY <1>0, <2>0, <2>4 DEF ReadStats, Works, Remembered
  <2>5. CASE r = s /\ Merge(s)
    <3>1. worker[r] = "merge" /\ (found[r] = "error" => firstErr' = "error")
      BY <1>0, <2>5 DEF Merge, Works
    <3> QED  BY <2>0, <3>1 DEF Remembered
  <2> QED  BY <1>1, <2>1, <2>2, <2>3, <2>4, <2>5 DEF RunSource
<1>2. ASSUME NEW s \in Sources, Reader(s)  PROVE Remembered(r)'
  <2>1. worker' = worker /\ found' = found /\ firstErr' = firstErr  BY <1>2 DEF Reader, workVars
  <2>2. errc[r] = "error" => errc'[r] = "error"
    BY <1>0, <1>2 DEF Reader, ReadLoop, Loop, LoopEnds, Read, ReadNothing, ReadEof, ReadFails, Send, SendGivesUp,
      CloseErrc, CloseOut
  <2> QED  BY <2>1, <2>2 DEF Remembered
<1>3. CASE Wait \/ Over \/ Outside \/ UNCHANGED vars
  BY <1>3 DEF Wait, Over, Outside, Cancel, Arrive, vars, workVars, sourceVars, readVars, Remembered
<1> QED  BY <1>1, <1>2, <1>3 DEF Next

PipelineInv == TypeOK /\ Flow /\ Drains /\ Sums /\ \A s \in Sources : Pending(s)

\* Packets and counters add up, and the error of any source is the outcome,
\* for any number of sources (runSources).
THEOREM ResultsAddUp == Spec => ResultsMerged
<1>1. Init => \A s \in Sources : Pending(s)
  BY DEF Init, SourceInit, Pending
<1>2. TypeOK /\ TypeOK' /\ Drains /\ [Next]_vars => Drains'
  BY EmptiedStep, ReadWholeStep DEF Drains, Sources
<1>3. TypeOK /\ TypeOK' /\ Flow /\ Sums /\ [Next]_vars => Sums'
  BY SumsStep
<1>4. TypeOK /\ Drains /\ (\A s \in Sources : Pending(s)) /\ [Next]_vars => (\A s \in Sources : Pending(s))'
  BY PendingStep
<1>5. Spec => []PipelineInv
  BY <1>1, <1>2, <1>3, <1>4, DrainsInit, SumsInit, FlowAlways, PTL DEF Spec, PipelineInv
<1>6. PipelineInv => TotalsAddUp
  <2> SUFFICES ASSUME PipelineInv, main = "returned"
               PROVE  /\ total.packets = Cardinality(UNION {{s} \X DOMAIN applied[s] : s \in Sources})
                      /\ total.packets + total.dropped <= total.received
    BY DEF TotalsAddUp
  <2>1. {s \in Sources : worker[s] = "done"} = Sources
    BY DEF PipelineInv, Drains, Emptied
  <2>2. Merged = UNION {{s} \X DOMAIN applied[s] : s \in Sources}
    BY <2>1 DEF Merged, AppliedBy
  <2> QED  BY <2>2 DEF PipelineInv, Sums
<1>7. ASSUME NEW s \in Sources
      PROVE  Spec => [](errc[s] = "error" => [](main = "returned" => firstErr = "error"))
  <2>1. PipelineInv /\ errc[s] = "error" => Remembered(s)
    BY DEF PipelineInv, Pending, Remembered
  <2>2. PipelineInv /\ Remembered(s) /\ [Next]_vars => Remembered(s)'
    BY RememberedStep DEF PipelineInv
  <2>3. PipelineInv /\ Remembered(s) => (main = "returned" => firstErr = "error")
    BY DEF PipelineInv, Drains, Emptied, Remembered
  <2> QED  BY <1>5, <2>1, <2>2, <2>3, PTL DEF Spec
<1>8. Spec => []TotalsAddUp
  BY <1>5, <1>6, PTL
<1>9. Spec => ErrorKept
  BY <1>7 DEF ErrorKept
<1> QED  BY <1>8, <1>9 DEF ResultsMerged

-----------------------------------------------------------------------------
(* The capture command takes packets from the same reader.  Of its one     *)
(* source all that was read is, in order, what the writer accepted, the    *)
(* packet in work, the channel and the reader's hand: until the writer     *)
(* refuses a packet, which ends the capture with an error.                 *)

Writing == step \in {"start", "range", "write"}

\* What was written is the beginning of what was read.
Prefix(w, q) == \A i \in 1 .. Len(w) : i \in 1 .. Len(q) /\ w[i] = q[i]

CaptureFlow ==
  writeErr = "none" =>
    /\ Accounted(written, packet, buf[Iface], hand[Iface], seen[Iface])
    /\ InLine(written, packet, buf[Iface], hand[Iface], seen[Iface])
    /\ Reading(Iface) \/ ~Cancelled
         => Gapless(written, packet, buf[Iface], hand[Iface], seen[Iface])
    /\ Writing \/ (reader[Iface] = "done" /\ buf[Iface] = <<>>)

CaptureEnd ==
  /\ step = "start" => reader[Iface] = "idle"
  /\ Writing => writeErr = "none"
  /\ step \in {"exit", "over"} /\ writeErr = "none" => disk = Len(written)
  /\ code = "ok" => step = "over" /\ writeErr = "none"

CaptureInv == CaptureTypeOK /\ Prefix(written, seen[Iface]) /\ CaptureFlow /\ CaptureEnd

\* What was read stays where it is.
LEMMA PrefixGrows ==
  ASSUME SourceTypeOK, NEW s \in Sources, ReadLoop(s), NEW w, Len(w) \in Nat, Prefix(w, seen[s])
  PROVE  Prefix(w, seen'[s])
<1>1. CASE Read(s)
  <2>1. PICK p \in Times : seen' = [seen EXCEPT ![s] = Append(seen[s], p)]
    BY <1>1 DEF Read
  <2>2. seen[s] \in Seq(Times) /\ seen'[s] = Append(seen[s], p)
    BY <2>1 DEF SourceTypeOK
  <2>3. /\ Len(seen[s]) \in Nat /\ Len(seen'[s]) = Len(seen[s]) + 1
        /\ \A i \in 1 .. Len(seen[s]) : seen'[s][i] = seen[s][i]
    BY <2>2, Appended
  <2> QED BY <2>3 DEF Prefix
<1>2. CASE ~Read(s)
  <2>1. seen' = seen
    BY <1>2 DEF ReadLoop, Loop, LoopEnds, ReadNothing, ReadEof, ReadFails, Send, SendGivesUp, CloseErrc, CloseOut
  <2> QED BY <2>1
<1> QED BY <1>1, <1>2

LEMMA CaptureBegins == CaptureInit => CaptureInv
<1> SUFFICES ASSUME CaptureInit PROVE CaptureInv
  OBVIOUS
<1>1. Iface \in Sources
  BY CaptureAssumption DEF Sources
<1>2. SourceTypeOK
  BY <1>1, SourceAssumption, Empty DEF CaptureInit, SourceInit, SourceTypeOK, ReaderSteps
<1>3. /\ seen[Iface] = <<>> /\ buf[Iface] = <<>> /\ hand[Iface] = <<>> /\ reader[Iface] = "idle"
      /\ step = "start" /\ packet = <<>> /\ written = <<>> /\ disk = 0
      /\ writeErr = "none" /\ runErr = "none" /\ code = "none"
  BY <1>1 DEF CaptureInit, SourceInit
<1>4. CaptureTypeOK
  BY <1>2, <1>3, Empty DEF CaptureTypeOK
<1>5. Prefix(written, seen[Iface])
  BY <1>3 DEF Prefix
<1>6. CaptureFlow
  BY <1>3 DEF CaptureFlow, Accounted, Gapless, InLine, Count, Exact, Chain, Writing
<1>7. CaptureEnd
  BY <1>3 DEF CaptureEnd, Writing
<1> QED BY <1>4, <1>5, <1>6, <1>7 DEF CaptureInv

LEMMA Joined ==
  ASSUME NEW S, NEW q \in Seq(S), NEW w \in Seq(S), Len(w) = 1
  PROVE  /\ q \o w \in Seq(S) /\ Len(q \o w) = Len(q) + 1 /\ Len(q) \in Nat
         /\ (q \o w)[Len(q) + 1] = w[1]
         /\ \A i \in 1 .. Len(q) : (q \o w)[i] = q[i]
<1>1. Len(q) \in Nat
  OBVIOUS
<1>2. /\ q \o w \in Seq(S) /\ Len(q \o w) = Len(q) + Len(w)
      /\ \A i \in 1 .. Len(q) + Len(w) : (q \o w)[i] = IF i <= Len(q) THEN q[i] ELSE w[i - Len(q)]
  BY ConcatProperties
<1>3. (q \o w)[Len(q) + 1] = w[Len(q) + 1 - Len(q)]
  BY <1>1, <1>2
<1>4. Len(q) + 1 - Len(q) = 1
  BY <1>1
<1> QED BY <1>1, <1>2, <1>3, <1>4

\* Types of the steps of runCapture.
LEMMA CaptureTypes ==
  ASSUME CaptureTypeOK, CaptureEnd, Capture PROVE CaptureTypeOK'
<1> USE DEF Moves
<1>0. Iface \in Sources /\ SourceTypeOK
  BY CaptureAssumption DEF CaptureTypeOK, Sources
<1>t. /\ packet \in Seq(Times) /\ Len(packet) = (IF step = "write" THEN 1 ELSE 0)
      /\ written \in Seq(Times) /\ disk \in 0 .. Len(written) /\ Len(written) \in Nat
      /\ writeErr \in {"none", "error"} /\ runErr \in {"none", "error"}
      /\ code \in {"none", "ok", "error"}
  BY DEF CaptureTypeOK
<1>1. CASE StartCapture
  <2>1. reader[Iface] = "idle"
    BY <1>1 DEF StartCapture, CaptureEnd
  <2>2. reader' \in [Sources -> ReaderSteps] /\ Len(hand[Iface]) = 0
    BY <1>0, <1>1, <2>1 DEF StartCapture, SourceTypeOK, ReaderSteps
  <2>3. \A s \in Sources : Len(hand[s]) = (IF reader'[s] = "send" THEN 1 ELSE 0)
    BY <1>0, <1>1, <2>1, <2>2 DEF StartCapture, SourceTypeOK
  <2>4. SourceTypeOK'
    BY <1>0, <1>1, <2>2, <2>3 DEF StartCapture, wire, SourceTypeOK
  <2> QED BY <1>0, <1>1, <1>t, <2>4 DEF StartCapture, CaptureTypeOK
<1>2. CASE TakePacket
  <2>1. buf[Iface] \in Seq(Times) /\ buf[Iface] # <<>> /\ Len(buf[Iface]) <= Buffer
    BY <1>0, <1>2 DEF TakePacket, SourceTypeOK
  <2>2. /\ Head(buf[Iface]) \in Times /\ Tail(buf[Iface]) \in Seq(Times)
        /\ Len(Tail(buf[Iface])) = Len(buf[Iface]) - 1 /\ Len(buf[Iface]) \in Nat
    BY <2>1, Taken
  <2>3. packet' \in Seq(Times) /\ Len(packet') = 1
    BY <1>2, <2>2, Single DEF TakePacket
  <2>4. buf' \in [Sources -> Seq(Times)] /\ \A s \in Sources : Len(buf'[s]) <= Buffer
    BY <1>0, <1>2, <2>1, <2>2, SourceAssumption DEF TakePacket, SourceTypeOK
  <2>5. SourceTypeOK'
    BY <1>0, <1>2, <2>4 DEF TakePacket, wire, SourceTypeOK
  <2> QED BY <1>0, <1>2, <1>t, <2>3, <2>5 DEF TakePacket, CaptureTypeOK
<1>3. CASE Write
  <2>1. Len(packet) = 1 /\ written' = written \o packet
    BY <1>3, <1>t DEF Write
  <2>2. written' \in Seq(Times) /\ Len(written') = Len(written) + 1
    BY <1>t, <2>1, Joined
  <2>3. disk' \in 0 .. Len(written')
    BY <1>3, <1>t, <2>2 DEF Write
  <2>4. packet' \in Seq(Times) /\ Len(packet') = 0
    BY <1>3, Empty DEF Write
  <2>5. SourceTypeOK'
    BY <1>0, <1>3 DEF Write, sourceVars, wire, readVars, SourceTypeOK
  <2> QED BY <1>0, <1>3, <1>t, <2>2, <2>3, <2>4, <2>5 DEF Write, CaptureTypeOK
<1>4. CASE WriteFails
  <2>1. packet' \in Seq(Times) /\ Len(packet') = 0
    BY <1>4, Empty DEF WriteFails
  <2>2. SourceTypeOK'
    BY <1>0, <1>4 DEF WriteFails, wire, readVars, SourceTypeOK
  <2> QED BY <1>0, <1>4, <1>t, <2>1, <2>2 DEF WriteFails, CaptureTypeOK
<1>5. CASE TakeRunError
  <2>1. errc[Iface] \in {"none", "error"} /\ errc' \in [Sources -> {"none", "error"}]
    BY <1>0, <1>5 DEF TakeRunError, SourceTypeOK
  <2>2. SourceTypeOK'
    BY <1>0, <1>5, <2>1 DEF TakeRunError, wire, SourceTypeOK
  <2> QED BY <1>0, <1>5, <1>t, <2>1, <2>2 DEF TakeRunError, CaptureTypeOK
<1>6. CASE NoMorePackets \/ Close \/ CloseFails \/ Exit
  <2>1. SourceTypeOK'
    BY <1>0, <1>6 DEF NoMorePackets, Close, CloseFails, Exit, sourceVars, wire, readVars, SourceTypeOK
  <2>2. CASE NoMorePackets \/ Exit
    BY <1>0, <1>t, <2>1, <2>2 DEF NoMorePackets, Exit, CaptureTypeOK
  <2>3. CASE Close \/ CloseFails
    <3>1. disk' \in 0 .. Len(written)
      BY <1>t, <2>3 DEF Close, CloseFails
    <3> QED BY <1>0, <1>t, <2>1, <2>3, <3>1 DEF Close, CloseFails, CaptureTypeOK
  <2> QED BY <1>6, <2>2, <2>3
<1> QED BY <1>1, <1>2, <1>3, <1>4, <1>5, <1>6 DEF Capture

\* What runCapture does with the packets, and what it says in the end.
LEMMA CaptureWrites ==
  ASSUME CaptureInv, Capture
  PROVE  Prefix(written', seen'[Iface]) /\ CaptureFlow' /\ CaptureEnd'
<1> DEFINE b == buf[Iface]
           h == hand[Iface]
           q == seen[Iface]
<1> USE DEF Moves
<1>0. /\ SourceTypeOK /\ Iface \in Sources
      /\ Prefix(written, q) /\ CaptureFlow /\ CaptureEnd
  BY CaptureAssumption DEF CaptureTypeOK, CaptureInv, Sources
<1>t. /\ packet \in Seq(Times) /\ Len(packet) = (IF step = "write" THEN 1 ELSE 0)
      /\ written \in Seq(Times) /\ disk \in 0 .. Len(written) /\ Len(written) \in Nat
      /\ writeErr \in {"none", "error"}
  BY DEF CaptureTypeOK, CaptureInv
<1>l. Len(b) \in Nat /\ Len(h) \in Nat /\ Len(q) \in Nat /\ b \in Seq(Times)
  BY <1>0 DEF SourceTypeOK
<1>1. CASE StartCapture
  <2>1. /\ seen' = seen /\ hand' = hand /\ buf' = buf /\ packet' = packet /\ written' = written
        /\ ctx' = ctx /\ writeErr' = writeErr /\ code' = code /\ step' = "range" /\ step = "start"
        /\ disk' = disk
    BY <1>1 DEF StartCapture
  <2>2. Reading(Iface)
    BY <1>0, <2>1 DEF CaptureEnd, Reading
  <2>3. CaptureFlow'
    BY <1>0, <2>1, <2>2 DEF CaptureFlow, Writing
  <2>4. CaptureEnd'
    BY <1>0, <2>1 DEF CaptureEnd, Writing
  <2> QED BY <1>0, <2>1, <2>3, <2>4
<1>2. CASE TakePacket
  <2>1. /\ packet' = <<Head(b)>> /\ buf'[Iface] = Tail(b) /\ b # <<>> /\ Len(packet) = 0
        /\ written' = written /\ seen' = seen /\ hand' = hand /\ ctx' = ctx /\ reader' = reader
        /\ writeErr' = writeErr /\ code' = code /\ step = "range" /\ step' = "write" /\ disk' = disk
    BY <1>0, <1>2, <1>t DEF TakePacket, SourceTypeOK
  <2>2. /\ Len(packet') = 1 /\ packet'[1] = b[1] /\ Len(buf'[Iface]) = Len(b) - 1 /\ Len(b) \in Nat \ {0}
        /\ \A i \in 1 .. (Len(b) - 1) : buf'[Iface][i] = b[i + 1]
    BY <1>l, <2>1, Taken, Single
  <2>3. writeErr = "none"
    BY <1>0, <2>1 DEF CaptureEnd, Writing
  <2>4. /\ Accounted(written, packet, b, h, q) => Accounted(written, packet', buf'[Iface], h, q)
        /\ Gapless(written, packet, b, h, q) => Gapless(written, packet', buf'[Iface], h, q)
    BY <1>t, <1>l, <2>1, <2>2, CountTake DEF Accounted, Gapless
  <2>5. InLine(written, packet, b, h, q) => InLine(written, packet', buf'[Iface], h, q)
    <3>1. packet'[1] = b[1] /\ Len(packet') = 1 /\ Len(buf'[Iface]) = Len(b) - 1 /\ Len(b) \in Nat \ {0}
      BY <2>2
    <3>2. \A k \in 1 .. (Len(b) - 1) : buf'[Iface][k] = b[k + 1]
      BY <2>2
    <3>3. SUFFICES ASSUME Chain(written, Len(written), packet, 0, b, Len(b), h, Len(h), q)
                   PROVE  Chain(written, Len(written), packet', 1, buf'[Iface], Len(b) - 1, h, Len(h), q)
      BY <2>1, <3>1 DEF InLine
    <3> QED BY <1>t, <1>l, <3>1, <3>2, <3>3, ChainTake
  <2>6. CaptureFlow'
    BY <1>0, <2>1, <2>3, <2>4, <2>5 DEF CaptureFlow, Writing, Reading, Cancelled
  <2>7. CaptureEnd'
    BY <1>0, <2>1 DEF CaptureEnd, Writing
  <2> QED BY <1>0, <2>1, <2>6, <2>7
<1>3. CASE Write
  <2>1. /\ written' = written \o packet /\ packet' = <<>> /\ Len(packet) = 1
        /\ buf' = buf /\ seen' = seen /\ hand' = hand /\ ctx' = ctx /\ reader' = reader
        /\ writeErr' = writeErr /\ code' = code /\ step = "write" /\ step' = "range"
    BY <1>3, <1>t DEF Write, sourceVars, readVars
  <2>2. /\ Len(written') = Len(written) + 1 /\ Len(packet') = 0 /\ written'[Len(written) + 1] = packet[1]
        /\ \A i \in 1 .. Len(written) : written'[i] = written[i]
    BY <1>t, <2>1, Joined, Empty
  <2>3. writeErr = "none"
    BY <1>0, <2>1 DEF CaptureEnd, Writing
  <2>4. /\ Accounted(written, packet, b, h, q) => Accounted(written', packet', b, h, q)
        /\ Gapless(written, packet, b, h, q) => Gapless(written', packet', b, h, q)
    BY <1>t, <1>l, <2>1, <2>2, CountApply DEF Accounted, Gapless
  <2>5. Chain(written, Len(written), packet, 1, b, Len(b), h, Len(h), q)
    BY <1>0, <2>1, <2>3 DEF CaptureFlow, InLine
  <2>6. InLine(written', packet', b, h, q)
    <3>1. \A k \in 1 .. Len(written) : written'[k] = written[k]
      BY <2>2
    <3>2. written'[Len(written) + 1] = packet[1]
      BY <2>2
    <3>3. Chain(written', Len(written) + 1, packet', 0, b, Len(b), h, Len(h), q)
      BY <1>t, <1>l, <2>5, <3>1, <3>2, ChainApply
    <3> QED BY <2>2, <3>3 DEF InLine
  <2>7. CaptureFlow'
    BY <1>0, <2>1, <2>3, <2>4, <2>6 DEF CaptureFlow, Writing, Reading, Cancelled
  <2>8. packet[1] = q[Len(written) + 1] /\ Len(written) + 1 <= Len(q)
    <3>1. \A k \in 1 .. 1 : packet[k] = q[Len(written) + k]
      BY <2>5 DEF Chain
    <3>2. Count(Len(written), 1, Len(b), Len(h), Len(q))
      BY <1>0, <2>1, <2>3 DEF CaptureFlow, Accounted
    <3>3. \A lw, lb, lh, lq \in Nat : Count(lw, 1, lb, lh, lq) => lw + 1 <= lq
      BY DEF Count
    <3>4. packet[1] = q[Len(written) + 1]
      BY <3>1
    <3> QED BY <1>t, <1>l, <3>2, <3>3, <3>4
  <2>9. Prefix(written', q)
    BY <1>0, <1>t, <1>l, <2>2, <2>8 DEF Prefix
  <2>10. CaptureEnd'
    BY <1>0, <2>1 DEF CaptureEnd, Writing
  <2> QED BY <2>1, <2>7, <2>9, <2>10
<1>4. CASE WriteFails
  <2>1. /\ written' = written /\ seen' = seen /\ writeErr' = "error" /\ step = "write" /\ step' = "errc"
        /\ code' = code
    BY <1>4 DEF WriteFails, readVars
  <2> QED BY <1>0, <2>1 DEF CaptureFlow, CaptureEnd, Writing
<1>5. CASE NoMorePackets
  <2>1. /\ buf' = buf /\ seen' = seen /\ hand' = hand /\ ctx' = ctx /\ reader' = reader /\ packet' = packet
        /\ written' = written /\ writeErr' = writeErr /\ code' = code /\ step = "range" /\ step' = "errc"
        /\ reader[Iface] = "done" /\ buf[Iface] = <<>>
    BY <1>5 DEF NoMorePackets, sourceVars, readVars, OutClosed
  <2>2. CaptureFlow'
    BY <1>0, <2>1 DEF CaptureFlow, Reading, Cancelled
  <2>3. CaptureEnd'
    BY <1>0, <2>1 DEF CaptureEnd, Writing
  <2> QED BY <1>0, <2>1, <2>2, <2>3
<1>6. CASE TakeRunError
  <2>1. /\ buf' = buf /\ seen' = seen /\ hand' = hand /\ ctx' = ctx /\ reader' = reader /\ packet' = packet
        /\ written' = written /\ writeErr' = writeErr /\ code' = code /\ step = "errc" /\ step' = "close"
    BY <1>6 DEF TakeRunError
  <2>2. CaptureFlow'
    BY <1>0, <2>1 DEF CaptureFlow, Reading, Cancelled, Writing
  <2>3. CaptureEnd'
    BY <1>0, <2>1 DEF CaptureEnd, Writing
  <2> QED BY <1>0, <2>1, <2>2, <2>3
<1>7. CASE Close \/ CloseFails
  <2>1. /\ buf' = buf /\ seen' = seen /\ hand' = hand /\ ctx' = ctx /\ reader' = reader /\ packet' = packet
        /\ written' = written /\ code' = code /\ step = "close" /\ step' = "exit"
        /\ writeErr' = "none" => writeErr = "none" /\ disk' = Len(written)
    BY <1>7 DEF Close, CloseFails, sourceVars, readVars
  <2>2. CaptureFlow'
    BY <1>0, <2>1 DEF CaptureFlow, Reading, Cancelled, Writing
  <2>3. CaptureEnd'
    BY <1>0, <2>1 DEF CaptureEnd, Writing
  <2> QED BY <1>0, <2>1, <2>2, <2>3
<1>8. CASE Exit
  <2>1. /\ buf' = buf /\ seen' = seen /\ hand' = hand /\ ctx' = ctx /\ reader' = reader /\ packet' = packet
        /\ written' = written /\ writeErr' = writeErr /\ disk' = disk /\ step = "exit" /\ step' = "over"
        /\ code' = "ok" => writeErr = "none"
    BY <1>8 DEF Exit, sourceVars, readVars
  <2>2. CaptureFlow'
    BY <1>0, <2>1 DEF CaptureFlow, Reading, Cancelled, Writing
  <2>3. CaptureEnd'
    BY <1>0, <2>1 DEF CaptureEnd, Writing
  <2> QED BY <1>0, <2>1, <2>2, <2>3
<1> QED BY <1>1, <1>2, <1>3, <1>4, <1>5, <1>6, <1>7, <1>8 DEF Capture

\* The reader, the network and the end of the context.
LEMMA CaptureReads ==
  ASSUME CaptureInv, CaptureReader PROVE CaptureInv'
<1>0. /\ SourceTypeOK /\ Iface \in Sources /\ ReadLoop(Iface)
  BY CaptureAssumption DEF CaptureTypeOK, CaptureInv, CaptureReader, Sources
<1>1. /\ step' = step /\ packet' = packet /\ written' = written /\ disk' = disk
      /\ writeErr' = writeErr /\ runErr' = runErr /\ code' = code
  BY DEF CaptureReader, fileVars
<1>2. SourceTypeOK'
  BY <1>0, ReaderType
<1>3. CaptureTypeOK'
  BY <1>0, <1>1, <1>2 DEF CaptureTypeOK, CaptureInv
<1>4. Len(written) \in Nat /\ Len(packet) \in Nat
  BY DEF CaptureTypeOK, CaptureInv
<1>5. Prefix(written', seen'[Iface])
  BY <1>0, <1>1, <1>4, PrefixGrows DEF CaptureInv
<1>6. reader[Iface] # "idle" /\ reader[Iface] # "done"
  BY <1>0 DEF ReadLoop, Goes, Loop, LoopEnds, Read, ReadNothing, ReadEof, ReadFails, Send,
    SendGivesUp, CloseErrc, CloseOut
<1>7. CaptureEnd'
  BY <1>1, <1>6 DEF CaptureInv, CaptureEnd, Writing
<1>8. CaptureFlow'
  <2> SUFFICES ASSUME writeErr = "none" PROVE CaptureFlow'
    BY <1>1 DEF CaptureFlow
  <2>1. /\ Accounted(written, packet, buf'[Iface], hand'[Iface], seen'[Iface])
        /\ Reading(Iface)' \/ ~Cancelled'
             => Gapless(written, packet, buf'[Iface], hand'[Iface], seen'[Iface])
        /\ InLine(written, packet, buf'[Iface], hand'[Iface], seen'[Iface])
    BY <1>0, <1>2, <1>4, LineReads DEF CaptureInv, CaptureFlow
  <2>2. Writing
    BY <1>6 DEF CaptureInv, CaptureFlow
  <2> QED BY <1>1, <2>1, <2>2 DEF CaptureFlow, Writing
<1> QED BY <1>3, <1>5, <1>7, <1>8 DEF CaptureInv

LEMMA CaptureLeft ==
  ASSUME CaptureInv, CaptureOutside PROVE CaptureInv'
<1>0. /\ SourceTypeOK /\ Iface \in Sockets /\ (Cancel \/ Arrive(Iface))
  BY CaptureAssumption DEF CaptureTypeOK, CaptureInv, CaptureOutside
<1>1. /\ step' = step /\ packet' = packet /\ written' = written /\ disk' = disk
      /\ writeErr' = writeErr /\ runErr' = runErr /\ code' = code
  BY DEF CaptureOutside, fileVars
<1>2. SourceTypeOK'
  BY <1>0, OutsideType
<1>3. CaptureTypeOK'
  BY <1>0, <1>1, <1>2 DEF CaptureTypeOK, CaptureInv
<1>4. /\ buf' = buf /\ hand' = hand /\ seen' = seen /\ reader' = reader
      /\ ~Cancelled' => ~Cancelled
  BY <1>0 DEF Cancel, Arrive, readVars, Cancelled
<1>5. CaptureFlow'
  BY <1>1, <1>4 DEF CaptureInv, CaptureFlow, Writing, Reading
<1>6. CaptureEnd'
  BY <1>1, <1>4 DEF CaptureInv, CaptureEnd, Writing
<1> QED BY <1>1, <1>3, <1>4, <1>5, <1>6 DEF CaptureInv

LEMMA CaptureStep == CaptureInv /\ [CaptureNext]_captureVars => CaptureInv'
<1> SUFFICES ASSUME CaptureInv, [CaptureNext]_captureVars PROVE CaptureInv'
  OBVIOUS
<1>1. CASE Capture
  BY <1>1, CaptureTypes, CaptureWrites DEF CaptureInv
<1>2. CASE CaptureOver \/ UNCHANGED captureVars
  <2>1. UNCHANGED captureVars
    BY <1>2 DEF CaptureOver
  <2>2. /\ UNCHANGED <<ctx, arrived, waiting, dropped, reader, seen, hand, buf, errc>>
        /\ UNCHANGED <<step, packet, written, disk, writeErr, runErr, code>>
    BY <2>1 DEF captureVars, sourceVars, wire, readVars, fileVars
  <2>3. SourceTypeOK
    BY DEF CaptureTypeOK, CaptureInv
  <2>4. SourceTypeOK'
    BY <2>2, <2>3 DEF SourceTypeOK
  <2>5. CaptureTypeOK'
    BY <2>2, <2>3, <2>4 DEF CaptureTypeOK, CaptureInv
  <2> QED BY <2>2, <2>5 DEF CaptureInv, CaptureFlow, CaptureEnd, Writing, Reading, Cancelled
<1> QED BY <1>1, <1>2, CaptureReads, CaptureLeft DEF CaptureNext

LEMMA CaptureSound ==
  ASSUME CaptureInv PROVE FileSound
<1>t. /\ Len(packet) = (IF step = "write" THEN 1 ELSE 0)
      /\ written \in Seq(Times) /\ disk \in 0 .. Len(written) /\ SourceTypeOK
  BY DEF CaptureTypeOK, CaptureInv
<1>s. Iface \in Sources
  BY CaptureAssumption DEF Sources
<1>0. Len(written) \in Nat /\ disk \in Nat /\ DOMAIN written = 1 .. Len(written)
  BY <1>t
<1>1. FileInOrder
  BY <1>0 DEF CaptureInv, Prefix, FileInOrder
<1>2. ASSUME code = "ok"
      PROVE  disk = Len(written) /\ Len(seen[Iface]) - disk <= (IF Cancelled THEN 1 ELSE 0)
  <2>1. step = "over" /\ writeErr = "none" /\ disk = Len(written)
    BY <1>2 DEF CaptureInv, CaptureEnd
  <2>2. reader[Iface] = "done" /\ buf[Iface] = <<>>
    BY <2>1 DEF CaptureInv, CaptureFlow, Writing
  <2>3. /\ Len(hand[Iface]) = 0 /\ Len(packet) = 0 /\ Len(buf[Iface]) = 0 /\ Len(seen[Iface]) \in Nat
    BY <1>s, <1>t, <2>1, <2>2, Empty DEF SourceTypeOK
  <2>4. /\ Count(Len(written), 0, 0, 0, Len(seen[Iface]))
        /\ ~Cancelled => Exact(Len(written), 0, 0, 0, Len(seen[Iface]))
    BY <2>1, <2>3 DEF CaptureInv, CaptureFlow, Accounted, Gapless
  <2>5. \A n, m \in Nat : /\ Count(n, 0, 0, 0, m) => m - n <= 1
                          /\ Exact(n, 0, 0, 0, m) => m - n <= 0
    BY DEF Count, Exact
  <2> QED BY <1>0, <2>1, <2>3, <2>4, <2>5
<1>3. ZeroMeansStored
  BY <1>s, <1>2 DEF ZeroMeansStored
<1> QED BY <1>1, <1>3 DEF FileSound, CaptureInv

\* FileSound, for any channel, network and file: the file holds packets in
\* the order in which they were received, and a capture that exits with zero
\* has stored all that was read, but for the one packet its reader held when
\* the context ended (runCapture with the reader of afpacket and the
\* buffered writer of pcapfile).
THEOREM CaptureIsSound == CaptureSpec => []FileSound
<1>1. CaptureInit => CaptureInv
  BY CaptureBegins
<1>2. CaptureInv /\ [CaptureNext]_captureVars => CaptureInv'
  BY CaptureStep
<1>3. CaptureInv => FileSound
  BY CaptureSound
<1> QED BY <1>1, <1>2, <1>3, PTL DEF CaptureSpec

-----------------------------------------------------------------------------
(* The decoder, for any frames.  An observation of EPICS comes of a        *)
(* message that was parsed, so a port that is learned was announced, and   *)
(* what a clear datagram announced is learned.                             *)

\* A set of naturals below a bound has a greatest element, which is Max.
LEMMA Greatest ==
  ASSUME NEW n \in Nat, NEW F, F \subseteq 0..n, F # {}
  PROVE  Max(F) \in F /\ \A j \in F : j <= Max(F)
<1> DEFINE R == OpToRel(<, Nat)
           T == {n - i : i \in F}
<1>1. IsWellFoundedOn(R, Nat)  BY NatLessThanWellFounded
<1>2. T \subseteq Nat /\ T # {}
  <2>1. \A i \in F : n - i \in Nat  OBVIOUS
  <2> QED  BY <2>1
<1>3. \A x, y \in Nat : x < y => <<x, y>> \in R  BY DEF OpToRel
<1> HIDE DEF R, T
<1>4. PICK x \in T : \A y \in T : ~(<<y, x>> \in R)  BY <1>1, <1>2, WFMin
<1>5. \A y \in T : x <= y
  <2> SUFFICES ASSUME NEW y \in T  PROVE x <= y
    OBVIOUS
  <2>1. x \in Nat /\ y \in Nat  BY <1>2
  <2>2. ~(y < x)  BY <1>3, <1>4, <2>1
  <2> QED  BY <2>1, <2>2
<1>6. PICK i \in F : x = n - i  BY <1>4 DEF T
<1>7. \A j \in F : n - j \in T  BY DEF T
<1>8. \A j \in F : n - i <= n - j  BY <1>5, <1>6, <1>7
<1>9. \A j \in F : i >= j  BY <1>8
<1> QED  BY <1>9 DEF Max

Good(m, strays) == ~m.cut /\ m \notin strays

\* ms is the messages before the first that is bad, of a payload of a kind.
Reads(ms, payload, kind, strays) ==
  /\ Len(ms) \in Nat /\ DOMAIN ms = 1..Len(ms)
  /\ \A i \in 1..Len(ms) :
       payload.kind = kind /\ i \in 1..Len(payload.msgs) /\ ms[i] = payload.msgs[i] /\ Good(ms[i], strays)
  /\ payload.kind = kind =>
       \/ Len(ms) = Len(payload.msgs)
       \/ Len(ms) + 1 \in 1..Len(payload.msgs) /\ ~Good(payload.msgs[Len(ms) + 1], strays)

LEMMA ParsedReads ==
  ASSUME NEW payload, NEW S, payload.msgs \in Seq(S), NEW kind, NEW strays
  PROVE  Reads(Parsed(payload, kind, strays), payload, kind, strays)
<1> DEFINE s == payload.msgs
           n == Len(s)
           bad == {i \in DOMAIN s : s[i].cut \/ s[i] \in strays}
           before == {k \in 0..n : \A i \in bad : k < i}
           ms == Parsed(payload, kind, strays)
<1>1. n \in Nat /\ DOMAIN s = 1..n  OBVIOUS
<1>2. 0 \in before /\ before \subseteq 0..n
  <2>1. \A i \in bad : i \in 1..n  BY <1>1
  <2> QED  BY <1>1, <2>1
<1>3. Max(before) \in before /\ \A j \in before : j <= Max(before)
  <2> HIDE DEF before
  <2> QED  BY <1>1, <1>2, Greatest
<1>4. CASE payload.kind # kind
  <2>1. ms = <<>>  BY <1>4 DEF Parsed
  <2>2. Len(ms) = 0 /\ DOMAIN ms = 1..0  BY <2>1
  <2> HIDE DEF ms
  <2>3. Reads(ms, payload, kind, strays)  BY <1>4, <2>2 DEF Reads
  <2> QED  BY <2>3 DEF ms
<1>5. CASE payload.kind = kind
  <2> DEFINE k == Max(before)
  <2>1. ms = SubSeq(s, 1, k)  BY <1>5 DEF Parsed
  <2> HIDE DEF ms, n, s
  <2>2. k \in 0..n /\ \A i \in bad : k < i  BY <1>3
  <2>3. k + 1 \notin before  BY <1>3, <2>2, <1>1
  <2> HIDE DEF k
  <2>4. ms \in Seq(S) /\ Len(ms) = k /\ \A i \in 1..k : ms[i] = s[i]
    BY <2>1, <2>2, <1>1, SubSeqProperties DEF s, n
  <2>5. DOMAIN ms = 1..Len(ms)  BY <2>4
  <2>6. \A i \in 1..k : i \in 1..n /\ ~(s[i].cut \/ s[i] \in strays)
    BY <2>2, <1>1
  <2>7. k = n \/ (k + 1 \in 1..n /\ (s[k + 1].cut \/ s[k + 1] \in strays))
    <3> SUFFICES ASSUME k # n, ~(s[k + 1].cut \/ s[k + 1] \in strays)  PROVE FALSE
      BY <2>2, <1>1
    <3>1. \A i \in bad : k + 1 < i
      <4>1. \A i \in bad : i # k + 1 /\ i \in Int  BY <1>1
      <4> QED  BY <4>1, <2>2, <1>1
    <3>2. k + 1 \in 0..n  BY <2>2, <1>1
    <3> QED  BY <2>3, <3>1, <3>2
  <2>8. Reads(ms, payload, kind, strays)
    BY <1>1, <1>5, <2>2, <2>4, <2>5, <2>6, <2>7 DEF s, n, Reads, Good
  <2> QED  BY <2>8 DEF ms
<1> QED  BY <1>4, <1>5

LEMMA ParsedAreGood ==
  ASSUME NEW payload, NEW S, payload.msgs \in Seq(S), NEW kind, NEW strays,
         NEW m \in ToSet(Parsed(payload, kind, strays))
  PROVE  payload.kind = kind /\ m \in ToSet(payload.msgs) /\ Good(m, strays)
<1> DEFINE ms == Parsed(payload, kind, strays)
<1>1. Reads(ms, payload, kind, strays)  BY ParsedReads
<1>2. DOMAIN payload.msgs = 1..Len(payload.msgs)  OBVIOUS
<1>3. m \in ToSet(ms)  OBVIOUS
<1> HIDE DEF ms
<1>4. PICK i \in 1..Len(ms) : m = ms[i]  BY <1>1, <1>3 DEF Reads, ToSet
<1> QED  BY <1>1, <1>2, <1>4 DEF Reads, ToSet

LEMMA AllParsed ==
  ASSUME NEW payload, NEW S, payload.msgs \in Seq(S), NEW strays,
         \A m \in ToSet(payload.msgs) : Good(m, strays)
  PROVE  /\ Len(Parsed(payload, payload.kind, strays)) = Len(payload.msgs)
         /\ ToSet(Parsed(payload, payload.kind, strays)) = ToSet(payload.msgs)
<1> DEFINE ms == Parsed(payload, payload.kind, strays)
<1>1. Reads(ms, payload, payload.kind, strays)  BY ParsedReads
<1>2. DOMAIN payload.msgs = 1..Len(payload.msgs)  OBVIOUS
<1> HIDE DEF ms
<1>3. \A i \in 1..Len(payload.msgs) : Good(payload.msgs[i], strays)  BY <1>2 DEF ToSet
<1>4. Len(ms) = Len(payload.msgs)  BY <1>1, <1>3 DEF Reads
<1>5. ToSet(ms) = ToSet(payload.msgs)  BY <1>1, <1>2, <1>4 DEF Reads, ToSet
<1> QED  BY <1>4, <1>5 DEF ms

LEMMA HeadParsed ==
  ASSUME NEW payload, NEW S, payload.msgs \in Seq(S), NEW strays,
         payload.msgs # <<>>, Good(Head(payload.msgs), strays)
  PROVE  ToSet(Parsed(payload, payload.kind, strays)) # {}
<1> DEFINE ms == Parsed(payload, payload.kind, strays)
<1>1. Reads(ms, payload, payload.kind, strays)  BY ParsedReads
<1>2. Len(payload.msgs) \in Nat /\ Len(payload.msgs) > 0 /\ Head(payload.msgs) = payload.msgs[1]
  OBVIOUS
<1> HIDE DEF ms
<1>3. Len(ms) # 0  BY <1>1, <1>2 DEF Reads
<1>4. ms[1] \in ToSet(ms)  BY <1>1, <1>3 DEF Reads, ToSet
<1> QED  BY <1>4 DEF ms

LEMMA WholeIsUncut ==
  ASSUME NEW payload, NEW S, payload.msgs \in Seq(S), NEW kind, NEW strays,
         NEW m \in ToSet(Parsed(payload, kind, strays)),
         ~Failed(payload, Parsed(payload, kind, strays))
  PROVE  ~payload.foreign /\ \A i \in DOMAIN payload.msgs : ~payload.msgs[i].cut
<1> DEFINE ms == Parsed(payload, kind, strays)
<1>1. Reads(ms, payload, kind, strays)  BY ParsedReads
<1>2. DOMAIN payload.msgs = 1..Len(payload.msgs) /\ Len(payload.msgs) \in Nat  OBVIOUS
<1>3. payload.kind = kind  BY ParsedAreGood
<1>4. ~payload.foreign /\ ~(Len(ms) < Len(payload.msgs))  BY DEF Failed
<1> HIDE DEF ms
<1>5. Len(ms) = Len(payload.msgs)  BY <1>1, <1>2, <1>3, <1>4 DEF Reads
<1> QED  BY <1>1, <1>2, <1>4, <1>5 DEF Reads, Good

-----------------------------------------------------------------------------

\* No byte of a payload is left over, or cut off.
Unbroken(f) == ~f.payload.foreign /\ \A i \in DOMAIN f.payload.msgs : ~f.payload.msgs[i].cut

\* An observation is called confirmed only by a decoder that was told so.
Earned(f, o, conf) == o.conf = "confirmed" => conf = "confirmed" /\ Unbroken(f)

\* An observation of Channel Access tells of a message.
Tells(f, o) ==
  /\ f.payload.kind = "ca"
  /\ \E m \in ToSet(f.payload.msgs) : ~m.cut /\ o.kind = m.cmd /\ o.port = CaPort(m, f.dst)

LEMMA FromCA ==
  ASSUME NEW f \in Frames, NEW udp, NEW conf, NEW o \in decodeCA(f, udp, conf)
  PROVE  o.proto = "epics.ca" /\ Tells(f, o) /\ Earned(f, o, conf)
<1> DEFINE strays == {m \in ToSet(f.payload.msgs) : udp /\ m.cmd \notin UdpCommands}
           ms == Parsed(f.payload, "ca", strays)
<1>1. f.payload.msgs \in Seq(ToSet(f.payload.msgs))  BY FramesTyped DEF Typed
<1>2. PICK m \in ToSet(ms) : o = CaInterpret(m, f.dst, Hinted(f.payload, ms, conf))
  BY DEF decodeCA
<1> HIDE DEF strays
<1>3. f.payload.kind = "ca" /\ m \in ToSet(f.payload.msgs) /\ Good(m, strays)
  BY <1>1, <1>2, ParsedAreGood
<1>4. ~Failed(f.payload, ms) => Unbroken(f)
  BY <1>1, <1>2, WholeIsUncut DEF Unbroken
<1> HIDE DEF ms
<1>5. /\ o.proto = "epics.ca" /\ o.kind = m.cmd /\ o.port = CaPort(m, f.dst)
      /\ o.conf = Hinted(f.payload, ms, conf)
  BY <1>2 DEF CaInterpret, Obs
<1>6. o.conf = "confirmed" => conf = "confirmed" /\ ~Failed(f.payload, ms)
  BY <1>5 DEF Hinted
<1>7. Tells(f, o)  BY <1>3, <1>5 DEF Tells, Good
<1> QED  BY <1>4, <1>5, <1>6, <1>7 DEF Earned

LEMMA FromPVA ==
  ASSUME NEW f \in Frames, NEW udp, NEW conf, NEW o \in decodePVA(f, udp, conf)
  PROVE  o.proto = "epics.pva" /\ Earned(f, o, conf)
<1> DEFINE ms == PvaParsed(f)
<1>1. f.payload.msgs \in Seq(ToSet(f.payload.msgs))  BY FramesTyped DEF Typed
<1>2. PICK m \in ToSet(ms) : o = PvaInterpret(m, Hinted(f.payload, ms, conf))
  BY DEF decodePVA
<1>4. ~Failed(f.payload, ms) => Unbroken(f)
  BY <1>1, <1>2, WholeIsUncut DEF Unbroken, PvaParsed
<1> HIDE DEF ms
<1>5. /\ o.proto = "epics.pva"
      /\ o.conf = "confirmed" => Hinted(f.payload, ms, conf) = "confirmed"
  BY <1>2 DEF PvaInterpret, Obs
<1>6. o.conf = "confirmed" => conf = "confirmed" /\ ~Failed(f.payload, ms)
  BY <1>5 DEF Hinted
<1> QED  BY <1>4, <1>5, <1>6 DEF Earned

-----------------------------------------------------------------------------

\* Ports that make a payload one of a protocol.
CAPorts(f) == isPort(f, CAServer) \/ isPort(f, CARepeater) \/ isCATCP(f)
PVAPorts(f) == isPort(f, PVAUDP) \/ isPVATCP(f)

\* Where an observation of EPICS comes from.
Sourced(f, o) ==
  \E udp \in BOOLEAN, conf \in {"confirmed", "strong hint"} :
    \/ o \in decodeCA(f, udp, conf) /\ (conf = "confirmed" => CAPorts(f))
    \/ o \in decodePVA(f, udp, conf) /\ (conf = "confirmed" => PVAPorts(f))

Others == {"ethernet", "arp", "lldp", "ipv4", "ipv6", "icmpv6", "dhcp", "tcp"}

LEMMA PlainIsOther ==
  ASSUME NEW proto \in Others, NEW conf  PROVE Plain(proto, conf).proto \in Others
BY DEF Plain, Obs

LEMMA SourcedUDP ==
  ASSUME NEW f, NEW o \in decodeUDP(f)  PROVE o.proto \in Others \/ Sourced(f, o)
<1>1. CASE isPort(f, ServerPort) \/ isPort(f, ClientPort)
  <2>1. o \in decodeDHCP(f)  BY <1>1 DEF decodeUDP
  <2>2. o = Plain("dhcp", "confirmed") \/ o = Plain("dhcp", "strong hint")  BY <2>1 DEF decodeDHCP
  <2> QED  BY <2>2, PlainIsOther DEF Others
<1>2. CASE /\ ~(isPort(f, ServerPort) \/ isPort(f, ClientPort))
           /\ isPort(f, CAServer) \/ isPort(f, CARepeater)
  <2>1. o \in decodeCA(f, TRUE, "confirmed")  BY <1>2 DEF decodeUDP
  <2> QED  BY <1>2, <2>1 DEF Sourced, CAPorts
<1>3. CASE /\ ~(isPort(f, ServerPort) \/ isPort(f, ClientPort))
           /\ ~(isPort(f, CAServer) \/ isPort(f, CARepeater)) /\ isPort(f, PVAUDP)
  <2>1. o \in decodePVA(f, TRUE, "confirmed")  BY <1>3 DEF decodeUDP
  <2> QED  BY <1>3, <2>1 DEF Sourced, PVAPorts
<1>4. CASE /\ ~(isPort(f, ServerPort) \/ isPort(f, ClientPort))
           /\ ~(isPort(f, CAServer) \/ isPort(f, CARepeater)) /\ ~isPort(f, PVAUDP)
  <2>1. o \in decodePVA(f, TRUE, "strong hint") \/ o \in decodeCA(f, TRUE, "strong hint")
    BY <1>4 DEF decodeUDP
  <2> QED  BY <2>1 DEF Sourced
<1> QED  BY <1>1, <1>2, <1>3, <1>4

LEMMA SourcedTCP ==
  ASSUME NEW f, NEW o \in decodeTCP(f)  PROVE o.proto \in Others \/ Sourced(f, o)
<1>1. CASE o = Plain("tcp", "confirmed")  BY <1>1, PlainIsOther DEF Others
<1>2. CASE isPVATCP(f) /\ o \in decodePVA(f, FALSE, "confirmed")
  BY <1>2 DEF Sourced, PVAPorts
<1>3. CASE o \in decodePVA(f, FALSE, "strong hint")
  BY <1>3 DEF Sourced
<1>4. CASE isCATCP(f) /\ o \in decodeCA(f, FALSE, "confirmed")
  BY <1>4 DEF Sourced, CAPorts
<1> QED  BY <1>1, <1>2, <1>3, <1>4 DEF decodeTCP

LEMMA SourcedAll ==
  ASSUME NEW f, NEW o \in Decode(f)  PROVE o.proto \in Others \/ Sourced(f, o)
<1> DEFINE P(x) == x \in Others
<1>1. \A x \in decodeIPv4(f) : x = Plain("ipv4", "confirmed") \/ x \in decodeUDP(f) \/ x \in decodeTCP(f)
  BY DEF decodeIPv4
<1>2. \A x \in decodeIPv6(f) : \/ x = Plain("ipv6", "confirmed")
                                \/ x = Plain("icmpv6", "confirmed") \/ x = Plain("icmpv6", "strong hint")
  BY DEF decodeIPv6
<1>3. \/ o = Plain("ethernet", "confirmed") \/ o = Plain("arp", "confirmed")
      \/ o = Plain("lldp", "confirmed") \/ o = Plain("lldp", "strong hint")
      \/ o \in decodeIPv4(f) \/ o \in decodeIPv6(f)
  BY DEF Decode, decodeARP, decodeLLDP
<1>4. \A p \in Others, c \in {"confirmed", "strong hint"} : Plain(p, c).proto \in Others
  BY PlainIsOther
<1>5. {"ethernet", "arp", "lldp", "ipv4", "ipv6", "icmpv6"} \subseteq Others  BY DEF Others
<1>6. CASE o \in decodeIPv4(f)  BY <1>1, <1>4, <1>5, <1>6, SourcedUDP, SourcedTCP
<1>7. CASE o \in decodeIPv6(f)  BY <1>2, <1>4, <1>5, <1>7
<1> QED  BY <1>3, <1>4, <1>5, <1>6, <1>7

-----------------------------------------------------------------------------

LEMMA PortOf ==
  ASSUME NEW p \in 0..MaxPort, p # 0  PROVE p \in 1..MaxPort
OBVIOUS

LEMMA ReplyHasNoCount ==
  ASSUME NEW m, m.count = 0, NEW flag  PROVE m # CaSearch(m.cid, flag)
<1>1. CaSearch(m.cid, flag).count = 13  BY DEF CaSearch, CaMessage
<1> QED  BY <1>1

LEMMA Announced ==
  ASSUME NEW f, NEW kind, NEW p, p # 0, <<kind, p>> \in AnnouncedCA(f) \cup AnnouncedPVA(f)
  PROVE  <<kind, p>> \in Announces(f)
<1> DEFINE a == <<kind, p>>
<1>1. a[2] # 0  OBVIOUS
<1>2. a \in AnnouncedCA(f) \cup AnnouncedPVA(f)  OBVIOUS
<1> HIDE DEF a
<1>3. a \in Announces(f)  BY <1>1, <1>2 DEF Announces
<1> QED  BY <1>3 DEF a

\* A port that is learned was announced in the frame it is learned from.
LEMMA CAIsAnnounced ==
  ASSUME NEW f \in Frames, NEW p \in LearnedCA(Decode(f))
  PROVE  <<"ca", p>> \in Announces(f) /\ p \in 1..MaxPort
<1>1. PICK o \in Decode(f) : /\ o.proto = "epics.ca" /\ o.kind \in {"search", "beacon"}
                             /\ p = o.port /\ p # 0
  BY DEF LearnedCA
<1>2. Sourced(f, o)  BY <1>1, SourcedAll DEF Others
<1>3. PICK udp \in BOOLEAN, conf \in {"confirmed", "strong hint"} :
        o \in decodeCA(f, udp, conf) \/ o \in decodePVA(f, udp, conf)
  BY <1>2 DEF Sourced
<1>4. o \in decodeCA(f, udp, conf)  BY <1>1, <1>3, FromPVA
<1>5. Tells(f, o)  BY <1>4, FromCA
<1>6. PICK m \in ToSet(f.payload.msgs) :
        f.payload.kind = "ca" /\ ~m.cut /\ o.kind = m.cmd /\ o.port = CaPort(m, f.dst)
  BY <1>5 DEF Tells
<1>7. CaTyped(m)  BY <1>6, FramesTyped DEF Typed
<1>8. m.dataType \in 0..MaxPort /\ m.count \in 0..MaxPort  BY <1>7 DEF CaTyped
<1>9. CASE m.cmd = "beacon"
  <2>1. m = CaBeacon(m.count)  BY <1>6, <1>7, <1>9 DEF CaTyped
  <2>2. p = m.count  BY <1>1, <1>6, <1>9 DEF CaPort
  <2>3. <<"ca", p>> \in AnnouncedCA(f)  BY <1>6, <2>1, <2>2 DEF AnnouncedCA
  <2>4. <<"ca", p>> \in Announces(f)  BY <1>1, <2>3, Announced
  <2>5. p \in 1..MaxPort  BY <1>1, <1>8, <2>2, PortOf
  <2> QED  BY <2>4, <2>5
<1>10. CASE m.cmd = "search"
  <2>1. CaFromServer(m, f.dst) /\ p = m.dataType  BY <1>1, <1>6, <1>10 DEF CaPort
  <2>2. m.count = 0  BY <1>10, <2>1 DEF CaFromServer, isSearchResponse
  <2>3. m \in {CaSearch(m.cid, DoReply), CaSearch(m.cid, DontReply), CaReply(m.available, m.dataType)}
    BY <1>6, <1>7, <1>10 DEF CaTyped
  <2>4. m = CaReply(m.available, m.dataType)
    <3>1. m # CaSearch(m.cid, DoReply) /\ m # CaSearch(m.cid, DontReply)
      BY <2>2, ReplyHasNoCount
    <3> QED  BY <2>3, <3>1
  <2>5. <<"ca", p>> \in AnnouncedCA(f)  BY <1>6, <2>1, <2>4 DEF AnnouncedCA
  <2>6. <<"ca", p>> \in Announces(f)  BY <1>1, <2>5, Announced
  <2>7. p \in 1..MaxPort  BY <1>1, <1>8, <2>1, PortOf
  <2> QED  BY <2>6, <2>7
<1> QED  BY <1>1, <1>6, <1>9, <1>10

LEMMA PVAIsAnnounced ==
  ASSUME NEW f \in Frames, NEW p \in LearnedPVA(f, Decode(f))
  PROVE  <<"pva", p>> \in Announces(f) /\ p \in 1..MaxPort
<1>1. PICK m \in ToSet(PvaParsed(f)) : /\ ~m.control /\ m.cmd \in {"search_response", "beacon"}
                                       /\ p = m.port /\ p # 0
  BY DEF LearnedPVA
<1>2. f.payload.msgs \in Seq(ToSet(f.payload.msgs))  BY FramesTyped DEF Typed
<1>3. f.payload.kind = "pva" /\ m \in ToSet(f.payload.msgs)
  BY <1>1, <1>2, ParsedAreGood DEF PvaParsed
<1>4. <<"pva", p>> \in AnnouncedPVA(f)  BY <1>1, <1>3 DEF AnnouncedPVA
<1>5. p \in 0..MaxPort  BY <1>1, <1>3, FramesTyped DEF Typed
<1> QED  BY <1>1, <1>4, <1>5 DEF Announces

-----------------------------------------------------------------------------

LEMMA DecodesIPv4 ==
  ASSUME NEW f, Whole(f), SeenType(f) = TypeIPv4  PROVE decodeIPv4(f) \subseteq Decode(f)
<1>1. TypeIPv4 # TypeARP /\ TypeIPv4 # TypeLLDP /\ TypeIPv4 # TypeIPv6
  BY DEF TypeIPv4, TypeARP, TypeLLDP, TypeIPv6
<1>2. Decode(f) = {Plain("ethernet", "confirmed")} \cup decodeIPv4(f)  BY <1>1, Zenon DEF Decode
<1> QED  BY <1>2

\* A clear datagram is decoded, each message of it.
LEMMA ClearIsDecoded ==
  ASSUME NEW f \in Frames, Clear(f)
  PROVE  /\ f.payload.kind = "ca" => decodeCA(f, TRUE, "confirmed") \subseteq Decode(f)
         /\ f.payload.kind = "pva" => decodePVA(f, TRUE, "confirmed") \subseteq Decode(f)
<1>1. /\ Whole(f) /\ SeenType(f) = TypeIPv4 /\ f.parse # "bad" /\ f.frag = 0 /\ f.proto = UDP
      /\ f.len >= 22 + f.hl /\ ~isPort(f, ServerPort) /\ ~isPort(f, ClientPort)
      /\ IF isPort(f, CAServer) \/ isPort(f, CARepeater) THEN f.payload.kind = "ca"
                                           ELSE f.payload.kind = "pva" /\ isPort(f, PVAUDP)
  BY DEF Clear
<1>2. f.len \in Nat /\ f.hl \in Nat /\ f.hl >= 20  BY FramesTyped DEF Typed
<1>3. Offset(f) = 0
  <2>1. ipv4FragMask \in Nat  BY DEF ipv4FragMask
  <2> QED  BY <1>1, <2>1 DEF Offset
<1>4. /\ f.payload.kind = "ca" => decodeUDP(f) = decodeCA(f, TRUE, "confirmed")
      /\ f.payload.kind = "pva" => decodeUDP(f) = decodePVA(f, TRUE, "confirmed")
  <2>1. ~(f.len < 22 + f.hl)  BY <1>1, <1>2
  <2>2. CASE isPort(f, CAServer) \/ isPort(f, CARepeater)
    <3>1. f.payload.kind = "ca"  BY <1>1, <2>2
    <3>2. decodeUDP(f) = decodeCA(f, TRUE, "confirmed")  BY <1>1, <2>1, <2>2, Zenon DEF decodeUDP
    <3> QED  BY <3>1, <3>2
  <2>3. CASE ~(isPort(f, CAServer) \/ isPort(f, CARepeater))
    <3>1. f.payload.kind = "pva" /\ isPort(f, PVAUDP)  BY <1>1, <2>3
    <3>2. decodeUDP(f) = decodePVA(f, TRUE, "confirmed")
      BY <1>1, <2>1, <2>3, <3>1, Zenon DEF decodeUDP
    <3> QED  BY <3>1, <3>2
  <2> QED  BY <2>2, <2>3
<1>5. decodeUDP(f) \subseteq decodeIPv4(f)
  <2>1. ~(f.parse = "bad" \/ f.len < 34 \/ f.len < 14 + f.hl)  BY <1>1, <1>2
  <2> QED  BY <1>1, <1>3, <2>1 DEF decodeIPv4
<1>6. decodeIPv4(f) \subseteq Decode(f)  BY <1>1, DecodesIPv4
<1> QED  BY <1>4, <1>5, <1>6

LEMMA ClearIsLearned ==
  ASSUME NEW f \in Frames, Clear(f), NEW a \in Announces(f)
  PROVE  \/ \E p \in LearnedCA(Decode(f)) : a = <<"ca", p>>
         \/ \E p \in LearnedPVA(f, Decode(f)) : a = <<"pva", p>>
<1>1. /\ ~f.payload.foreign
      /\ \A m \in ToSet(f.payload.msgs) :
           ~m.cut /\ IF f.payload.kind = "pva" THEN m.whole
                     ELSE m.cmd \in UdpCommands /\ (m.cmd = "search" => m.available # AnySender)
  BY DEF Clear
<1>2. f.payload.msgs \in Seq(ToSet(f.payload.msgs)) /\ Len(f.payload.msgs) \in Nat
  BY FramesTyped DEF Typed
<1>3. CASE a \in AnnouncedCA(f)
  <2>1. f.payload.kind = "ca"  BY <1>3 DEF AnnouncedCA
  <2> DEFINE strays == {m \in ToSet(f.payload.msgs) : TRUE /\ m.cmd \notin UdpCommands}
             ms == Parsed(f.payload, "ca", strays)
  <2>2. strays = {}  BY <1>1, <2>1
  <2>3. \A m \in ToSet(f.payload.msgs) : Good(m, strays)  BY <1>1, <2>2 DEF Good
  <2>4. Len(ms) = Len(f.payload.msgs) /\ ToSet(ms) = ToSet(f.payload.msgs)
    <3> HIDE DEF strays
    <3> QED  BY <1>2, <2>1, <2>3, AllParsed
  <2>5. decodeCA(f, TRUE, "confirmed") =
          IF TRUE /\ Failed(f.payload, ms) THEN {}
          ELSE {CaInterpret(m, f.dst, Hinted(f.payload, ms, "confirmed")) : m \in ToSet(ms)}
    BY DEF decodeCA
  <2> HIDE DEF ms
  <2>6. ~Failed(f.payload, ms)  BY <1>1, <1>2, <2>4 DEF Failed
  <2>7. \A m \in ToSet(f.payload.msgs) :
          \E o \in Decode(f) : o.proto = "epics.ca" /\ o.kind = m.cmd /\ o.port = CaPort(m, f.dst)
    <3> SUFFICES ASSUME NEW m \in ToSet(f.payload.msgs)
                 PROVE  \E o \in Decode(f) :
                          o.proto = "epics.ca" /\ o.kind = m.cmd /\ o.port = CaPort(m, f.dst)
      OBVIOUS
    <3> DEFINE o == CaInterpret(m, f.dst, Hinted(f.payload, ms, "confirmed"))
    <3>1. o \in Decode(f)  BY <2>1, <2>4, <2>5, <2>6, ClearIsDecoded
    <3>2. o.proto = "epics.ca" /\ o.kind = m.cmd /\ o.port = CaPort(m, f.dst)
      BY DEF CaInterpret, Obs
    <3> QED  BY <3>1, <3>2
  <2>8. PICK m \in ToSet(f.payload.msgs) :
          \/ m = CaBeacon(m.count) /\ a = <<"ca", m.count>>
          \/ m = CaReply(m.available, m.dataType) /\ a = <<"ca", m.dataType>>
    BY <1>3, <2>1 DEF AnnouncedCA
  <2>9. m.cmd \in {"search", "beacon"} /\ a = <<"ca", CaPort(m, f.dst)>>
    <3>1. CASE m = CaBeacon(m.count) /\ a = <<"ca", m.count>>
      <4>1. m.cmd = "beacon"  BY <3>1 DEF CaBeacon, CaMessage
      <4> QED  BY <3>1, <4>1 DEF CaPort
    <3>2. CASE m = CaReply(m.available, m.dataType) /\ a = <<"ca", m.dataType>>
      <4>1. /\ m.cmd = "search" /\ m.count = 0 /\ m.size = payloadAlign /\ m.cid = AnySender
        BY <3>2 DEF CaReply, CaMessage
      <4>2. m.available # AnySender  BY <1>1, <2>1, <4>1
      <4>3. CaFromServer(m, f.dst)  BY <4>1, <4>2 DEF CaFromServer, isSearchResponse
      <4> QED  BY <3>2, <4>1, <4>3 DEF CaPort
    <3> QED  BY <2>8, <3>1, <3>2
  <2>10. CaPort(m, f.dst) # 0  BY <2>9 DEF Announces
  <2>11. PICK o \in Decode(f) : o.proto = "epics.ca" /\ o.kind = m.cmd /\ o.port = CaPort(m, f.dst)
    BY <2>7
  <2>12. o.port \in LearnedCA(Decode(f))  BY <2>9, <2>10, <2>11 DEF LearnedCA
  <2> QED  BY <2>9, <2>11, <2>12
<1>4. CASE a \in AnnouncedPVA(f)
  <2>1. f.payload.kind = "pva"  BY <1>4 DEF AnnouncedPVA
  <2> DEFINE ms == PvaParsed(f)
  <2>2. \A m \in ToSet(f.payload.msgs) : Good(m, {})  BY <1>1 DEF Good
  <2>3. Len(ms) = Len(f.payload.msgs) /\ ToSet(ms) = ToSet(f.payload.msgs)
    BY <1>2, <2>1, <2>2, AllParsed DEF PvaParsed
  <2> HIDE DEF ms
  <2>4. ~Failed(f.payload, ms)  BY <1>1, <1>2, <2>3 DEF Failed
  <2>5. PICK m \in ToSet(f.payload.msgs) :
          ~m.control /\ m.cmd \in {"search_response", "beacon"} /\ a = <<"pva", m.port>>
    BY <1>4, <2>1 DEF AnnouncedPVA
  <2>6. m.port # 0  BY <2>5 DEF Announces
  <2> DEFINE o == PvaInterpret(m, Hinted(f.payload, ms, "confirmed"))
  <2>7. o \in Decode(f)
    <3>1. o \in decodePVA(f, TRUE, "confirmed")  BY <2>3, <2>4 DEF decodePVA, ms
    <3> QED  BY <2>1, <3>1, ClearIsDecoded
  <2>8. o.proto = "epics.pva"  BY DEF PvaInterpret, Obs
  <2>9. m \in ToSet(PvaParsed(f)) /\ m.whole  BY <1>1, <2>1, <2>3 DEF ms
  <2> HIDE DEF o
  <2>10. m.port \in LearnedPVA(f, Decode(f))  BY <2>5, <2>6, <2>7, <2>8, <2>9 DEF LearnedPVA
  <2> QED  BY <2>5, <2>10
<1> QED  BY <1>3, <1>4 DEF Announces

-----------------------------------------------------------------------------

DecoderStats == [packets : Nat, decoded : Nat, malformed : Nat, skipped : Nat]
DecoderInv == stats \in DecoderStats /\ DecoderTypeOK /\ LearnedTrue

LEMMA CountedOnce ==
  ASSUME NEW f \in Frames, stats \in DecoderStats, stats.packets = stats.decoded + stats.malformed + stats.skipped
  PROVE  /\ Counted(f) \in DecoderStats
         /\ Counted(f).packets = Counted(f).decoded + Counted(f).malformed + Counted(f).skipped
<1> DEFINE after == Counted(f)
           otherLink == f.link # "ethernet"
           short == f.link = "ethernet" /\ f.len < 14
           n == stats.packets + 1
           k == IF ~otherLink THEN stats.skipped ELSE stats.skipped + 1
           m == IF short THEN stats.malformed + 1 ELSE stats.malformed
           d == IF Whole(f) THEN stats.decoded + 1 ELSE stats.decoded
<1>1. after = [stats EXCEPT !.packets = n, !.skipped = k, !.malformed = m, !.decoded = d]
  BY DEF Counted
<1>2. \/ otherLink /\ ~short /\ ~Whole(f)
      \/ ~otherLink /\ short /\ ~Whole(f)
      \/ ~otherLink /\ ~short /\ Whole(f)
  BY FramesTyped DEF Whole, Typed
<1>3. stats.packets \in Nat /\ stats.decoded \in Nat /\ stats.malformed \in Nat /\ stats.skipped \in Nat
  BY DEF DecoderStats
<1> HIDE DEF after, otherLink, short
<1>4. n \in Nat /\ k \in Nat /\ m \in Nat /\ d \in Nat  BY <1>3
<1>5. n = d + m + k  BY <1>2, <1>3
<1> HIDE DEF n, k, m, d
<1>6. /\ after \in DecoderStats /\ after.packets = n
      /\ after.skipped = k /\ after.malformed = m /\ after.decoded = d
  BY <1>1, <1>4 DEF DecoderStats
<1>7. after.packets = after.decoded + after.malformed + after.skipped  BY <1>4, <1>5, <1>6
<1> QED  BY <1>6, <1>7 DEF after

\* What is learned was announced, and what is owed is learned, port by port.
LEMMA LearnedPorts ==
  LearnedTrue <=>
    /\ \A p \in caTCP : <<"ca", p>> \in announced
    /\ \A p \in pvaTCP : <<"pva", p>> \in announced
    /\ \A a \in owed : (\E p \in caTCP : a = <<"ca", p>>) \/ (\E p \in pvaTCP : a = <<"pva", p>>)
BY DEF LearnedTrue

LEMMA DecoderBegins == DecoderInit => DecoderInv
<1> SUFFICES ASSUME DecoderInit  PROVE DecoderInv
  OBVIOUS
<1> USE DEF DecoderInit
<1>1. stats \in DecoderStats /\ stats.packets = stats.decoded + stats.malformed + stats.skipped
  BY DEF DecoderStats
<1>2. DecoderTypeOK  BY <1>1 DEF DecoderTypeOK
<1>3. LearnedTrue  BY DEF LearnedTrue
<1> QED  BY <1>1, <1>2, <1>3 DEF DecoderInv

LEMMA DecoderStep == DecoderInv /\ [DecoderNext]_passageVars => DecoderInv'
<1> SUFFICES ASSUME DecoderInv, [DecoderNext]_passageVars  PROVE DecoderInv'
  OBVIOUS
<1>0. /\ stats \in DecoderStats /\ names \subseteq Names /\ open \in BOOLEAN
      /\ caTCP \cup pvaTCP \subseteq 1..MaxPort
      /\ stats.packets = stats.decoded + stats.malformed + stats.skipped
      /\ LearnedTrue
  BY DEF DecoderInv, DecoderTypeOK
<1>1. ASSUME decoderVars' = decoderVars, names' \subseteq Names, open' \in BOOLEAN  PROVE DecoderInv'
  <2>1. stats' = stats /\ caTCP' = caTCP /\ pvaTCP' = pvaTCP /\ announced' = announced /\ owed' = owed
    BY <1>1 DEF decoderVars
  <2> QED  BY <1>0, <1>1, <2>1 DEF DecoderInv, DecoderTypeOK, LearnedTrue
<1>2. ASSUME NEW n \in Names, Pick(n)  PROVE DecoderInv'
  BY <1>0, <1>1, <1>2 DEF Pick
<1>3. CASE OpenLive  BY <1>0, <1>1, <1>3 DEF OpenLive
<1>4. CASE OpenFile  BY <1>0, <1>1, <1>4 DEF OpenFile
<1>5. CASE UNCHANGED passageVars  BY <1>0, <1>1, <1>5 DEF passageVars, filterVars
<1>6. ASSUME NEW f \in Frames, Packet(f)  PROVE DecoderInv'
  <2> DEFINE obs == Decode(f)
  <2>1. /\ stats' = Counted(f)
        /\ caTCP' = caTCP \cup LearnedCA(obs) /\ pvaTCP' = pvaTCP \cup LearnedPVA(f, obs)
        /\ announced' = announced \cup Announces(f)
        /\ owed' = IF Clear(f) THEN owed \cup Announces(f) ELSE owed
        /\ names' = names /\ open' = open
    BY <1>6 DEF Packet, filterVars
  <2>2. stats' \in DecoderStats /\ stats'.packets = stats'.decoded + stats'.malformed + stats'.skipped
    BY <1>0, <2>1, CountedOnce
  <2>3. \A p \in LearnedCA(obs) : <<"ca", p>> \in Announces(f) /\ p \in 1..MaxPort
    BY CAIsAnnounced
  <2>4. \A p \in LearnedPVA(f, obs) : <<"pva", p>> \in Announces(f) /\ p \in 1..MaxPort
    BY PVAIsAnnounced
  <2>5. Clear(f) => \A a \in Announces(f) : \/ \E p \in LearnedCA(obs) : a = <<"ca", p>>
                                            \/ \E p \in LearnedPVA(f, obs) : a = <<"pva", p>>
    BY ClearIsLearned
  <2> HIDE DEF obs
  <2>6. (caTCP \cup pvaTCP \subseteq 1..MaxPort)'  BY <1>0, <2>1, <2>3, <2>4
  <2>7. DecoderTypeOK'  BY <1>0, <2>1, <2>2, <2>6 DEF DecoderTypeOK
  <2>8. /\ \A p \in caTCP : <<"ca", p>> \in announced
        /\ \A p \in pvaTCP : <<"pva", p>> \in announced
        /\ \A a \in owed : (\E p \in caTCP : a = <<"ca", p>>) \/ (\E p \in pvaTCP : a = <<"pva", p>>)
    BY <1>0, LearnedPorts
  <2>9. /\ \A p \in caTCP' : <<"ca", p>> \in announced'
        /\ \A p \in pvaTCP' : <<"pva", p>> \in announced'
    BY <2>1, <2>3, <2>4, <2>8
  <2>10. \A a \in owed' : (\E p \in caTCP' : a = <<"ca", p>>) \/ (\E p \in pvaTCP' : a = <<"pva", p>>)
    BY <2>1, <2>5, <2>8
  <2>11. LearnedTrue'  BY <2>9, <2>10 DEF LearnedTrue
  <2> QED  BY <2>2, <2>7, <2>11 DEF DecoderInv
<1> QED  BY <1>2, <1>3, <1>4, <1>5, <1>6 DEF DecoderNext

-----------------------------------------------------------------------------

LEMMA IsOnPort ==
  ASSUME NEW f, NEW p  PROVE isPort(f, p) <=> p \in {f.src, f.dst}
BY DEF isPort

LEMMA SegmentsDecoded == LearnedTrue => SegmentDecoded
<1> SUFFICES ASSUME LearnedTrue, NEW f \in Frames,
               Whole(f), SeenType(f) = TypeIPv4, f.parse = "ok", f.frag = 0, f.proto = TCP,
               f.len >= 34 + f.hl, f.payload.kind = "ca", f.payload.msgs # <<>>,
               ~Head(f.payload.msgs).cut,
               isPort(f, CAServer) \/ (\E p \in {f.src, f.dst} : <<"ca", p>> \in owed),
               ~(isPort(f, PVATCP) \/ \E p \in {f.src, f.dst} : <<"pva", p>> \in announced)
             PROVE  \E o \in Decode(f) : o.proto = "epics.ca"
  BY DEF SegmentDecoded
<1>1. f.len \in Nat /\ f.hl \in Nat /\ f.hl >= 20 /\ f.payload.msgs \in Seq(ToSet(f.payload.msgs))
  BY FramesTyped DEF Typed
<1>2. Offset(f) = 0
  <2>1. ipv4FragMask \in Nat  BY DEF ipv4FragMask
  <2> QED  BY <2>1 DEF Offset
<1>3. ~isPVATCP(f)
  <2>1. \A p \in pvaTCP : ~isPort(f, p)  BY LearnedPorts, IsOnPort
  <2> QED  BY <2>1 DEF isPVATCP
<1>4. isCATCP(f)
  <2>1. CASE isPort(f, CAServer)  BY <2>1 DEF isCATCP
  <2>2. ASSUME NEW p \in {f.src, f.dst}, <<"ca", p>> \in owed  PROVE isCATCP(f)
    <3>1. p \in caTCP  BY <2>2, LearnedPorts
    <3> QED  BY <2>2, <3>1, IsOnPort DEF isCATCP
  <2> QED  BY <2>1, <2>2
<1>5. ~PvaProbable(f.payload)  BY DEF PvaProbable
<1>6. decodeCA(f, FALSE, "confirmed") \subseteq decodeTCP(f)
  <2>1. ~(f.len < 34 + f.hl)  BY <1>1
  <2> QED  BY <1>3, <1>4, <1>5, <2>1 DEF decodeTCP
<1>7. decodeTCP(f) \subseteq decodeIPv4(f)
  <2>1. ~(f.parse = "bad" \/ f.len < 34 \/ f.len < 14 + f.hl)  BY <1>1
  <2>2. f.proto # UDP  BY DEF TCP, UDP
  <2> QED  BY <1>2, <2>1, <2>2 DEF decodeIPv4
<1>8. decodeIPv4(f) \subseteq Decode(f)  BY DecodesIPv4
<1> DEFINE strays == {m \in ToSet(f.payload.msgs) : FALSE /\ m.cmd \notin UdpCommands}
           ms == Parsed(f.payload, "ca", strays)
<1>9. Good(Head(f.payload.msgs), strays)  BY DEF Good
<1>10. ToSet(ms) # {}
  <2> HIDE DEF strays
  <2> QED  BY <1>1, <1>9, HeadParsed
<1>11. decodeCA(f, FALSE, "confirmed") =
         IF FALSE /\ Failed(f.payload, ms) THEN {}
         ELSE {CaInterpret(m, f.dst, Hinted(f.payload, ms, "confirmed")) : m \in ToSet(ms)}
  BY DEF decodeCA
<1> HIDE DEF ms
<1>12. PICK m \in ToSet(ms) : TRUE  BY <1>10
<1>13. CaInterpret(m, f.dst, Hinted(f.payload, ms, "confirmed")) \in Decode(f)
  BY <1>6, <1>7, <1>8, <1>11, <1>12
<1>14. CaInterpret(m, f.dst, Hinted(f.payload, ms, "confirmed")).proto = "epics.ca"
  BY DEF CaInterpret, Obs
<1> QED  BY <1>13, <1>14

LEMMA ConfirmedIsEarned == LearnedTrue => ConfirmedEarned
<1> SUFFICES ASSUME LearnedTrue, NEW f \in Frames, NEW o \in Decode(f),
               o.conf = "confirmed", o.proto \in {"epics.ca", "epics.pva"}
             PROVE  /\ ~f.payload.foreign /\ \A i \in DOMAIN f.payload.msgs : ~f.payload.msgs[i].cut
                    /\ \/ {f.src, f.dst} \cap {CAServer, CARepeater, PVAUDP, PVATCP} # {}
                       \/ \E p \in {f.src, f.dst} :
                            <<IF o.proto = "epics.ca" THEN "ca" ELSE "pva", p>> \in announced
  BY DEF ConfirmedEarned
<1>1. PICK udp \in BOOLEAN, conf \in {"confirmed", "strong hint"} :
        \/ o \in decodeCA(f, udp, conf) /\ (conf = "confirmed" => CAPorts(f))
        \/ o \in decodePVA(f, udp, conf) /\ (conf = "confirmed" => PVAPorts(f))
  BY SourcedAll DEF Others, Sourced
<1>2. CASE o \in decodeCA(f, udp, conf) /\ (conf = "confirmed" => CAPorts(f))
  <2>0. o.proto = "epics.ca" /\ Earned(f, o, conf)  BY <1>2, FromCA
  <2>1. conf = "confirmed" /\ Unbroken(f)  BY <2>0 DEF Earned
  <2>2. CAPorts(f)  BY <1>2, <2>1
  <2>3. \/ {f.src, f.dst} \cap {CAServer, CARepeater, PVAUDP, PVATCP} # {}
        \/ \E p \in {f.src, f.dst} : <<"ca", p>> \in announced
    BY <2>2, LearnedPorts, IsOnPort DEF CAPorts, isCATCP
  <2> QED  BY <2>0, <2>1, <2>3 DEF Unbroken
<1>3. CASE o \in decodePVA(f, udp, conf) /\ (conf = "confirmed" => PVAPorts(f))
  <2>0. o.proto = "epics.pva" /\ Earned(f, o, conf)  BY <1>3, FromPVA
  <2>1. conf = "confirmed" /\ Unbroken(f)  BY <2>0 DEF Earned
  <2>2. PVAPorts(f)  BY <1>3, <2>1
  <2>3. \/ {f.src, f.dst} \cap {CAServer, CARepeater, PVAUDP, PVATCP} # {}
        \/ \E p \in {f.src, f.dst} : <<"pva", p>> \in announced
    BY <2>2, LearnedPorts, IsOnPort DEF PVAPorts, isPVATCP
  <2> QED  BY <2>0, <2>1, <2>3 DEF Unbroken
<1> QED  BY <1>1, <1>2, <1>3

\* What the decoder says of a frame is true, whatever frames came before.
THEOREM DecoderIsTrue == DecoderSpec => []DecodedTrue
<1>1. DecoderInv => DecodedTrue
  BY SegmentsDecoded, ConfirmedIsEarned DEF DecoderInv, DecodedTrue
<1> QED  BY <1>1, DecoderBegins, DecoderStep, PTL DEF DecoderSpec
-----------------------------------------------------------------------------
(* The filter of the kernel, for any names in any order and any frames.    *)
(* A program that only goes forward is a function of the place, from the   *)
(* last instruction to the first.  Each kind of block returns, or goes on  *)
(* to the next, as its rule says; so a program decides as its rules do, by *)
(* induction from the last rule.  Nine names take at most 26 instructions  *)
(* each, which jumps of a byte can cross.                                  *)

\* Induction on the naturals, for a set.
LEMMA SetOfAll ==
  ASSUME NEW S, 0 \in S, \A n \in Nat : n \in S => n + 1 \in S
  PROVE  \A n \in Nat : n \in S
<1> DEFINE R == OpToRel(<, Nat)
           T == {n \in Nat : n \notin S}
<1> SUFFICES ASSUME T # {}  PROVE FALSE
  OBVIOUS
<1>1. IsWellFoundedOn(R, Nat)  BY NatLessThanWellFounded
<1>2. \A x, y \in Nat : x < y => <<x, y>> \in R  BY DEF OpToRel
<1> HIDE DEF R
<1>3. PICK x \in T : \A y \in T : ~(<<y, x>> \in R)
  <2>1. T \subseteq Nat  OBVIOUS
  <2> HIDE DEF T
  <2> QED  BY <1>1, <2>1, WFMin
<1>4. x # 0 /\ x \in Nat  OBVIOUS
<1>5. x - 1 \in Nat /\ x - 1 < x /\ (x - 1) + 1 = x  BY <1>4
<1>6. x - 1 \notin T  BY <1>2, <1>3, <1>4, <1>5
<1> QED  BY <1>3, <1>5, <1>6

-----------------------------------------------------------------------------
(* Sequences joined.                                                       *)

\* The sequences joined one after the other: g[i] is the first i of them.
Joins(seqs, n, g) == g = [i \in 1..n |-> IF i = 1 THEN seqs[i] ELSE g[i - 1] \o seqs[i]]

\* There is such a g.
LEMMA JoinsExist ==
  ASSUME NEW seqs  PROVE \A n \in Nat : \E g : Joins(seqs, n, g)
<1> DEFINE S == {n \in Nat : \E g : Joins(seqs, n, g)}
<1>1. 0 \in S
  <2> DEFINE g == [i \in {} |-> <<>>]
  <2>1. Joins(seqs, 0, g)  BY DEF Joins
  <2> QED  BY <2>1, Zenon
<1>2. ASSUME NEW n \in Nat, n \in S  PROVE n + 1 \in S
  <2>1. PICK g : Joins(seqs, n, g)  BY <1>2
  <2>2. \A i \in 1..n : g[i] = IF i = 1 THEN seqs[i] ELSE g[i - 1] \o seqs[i]
    <3> DEFINE rhs == [i \in 1..n |-> IF i = 1 THEN seqs[i] ELSE g[i - 1] \o seqs[i]]
    <3>1. g = rhs  BY <2>1 DEF Joins
    <3>2. \A i \in 1..n : rhs[i] = IF i = 1 THEN seqs[i] ELSE g[i - 1] \o seqs[i]  OBVIOUS
    <3> HIDE DEF rhs
    <3> QED  BY <3>1, <3>2
  <2> DEFINE h == [i \in 1..(n + 1) |-> IF i = 1 THEN seqs[i] ELSE g[i - 1] \o seqs[i]]
  <2>3. \A i \in 1..n : h[i] = g[i]  BY <2>2
  <2>4. ASSUME NEW i \in 1..(n + 1)
        PROVE  h[i] = IF i = 1 THEN seqs[i] ELSE h[i - 1] \o seqs[i]
    <3>1. h[i] = IF i = 1 THEN seqs[i] ELSE g[i - 1] \o seqs[i]  OBVIOUS
    <3>2. CASE i = 1  BY <3>1, <3>2
    <3>3. CASE i # 1
      <4>1. i - 1 \in 1..n  BY <3>3
      <4>2. h[i - 1] = g[i - 1]  BY <2>3, <4>1
      <4> HIDE DEF h
      <4> QED  BY <3>1, <3>3, <4>2
    <3> QED  BY <3>2, <3>3
  <2>5. DOMAIN h = 1..(n + 1) /\ h = [i \in 1..(n + 1) |-> h[i]]  OBVIOUS
  <2> HIDE DEF h
  <2>6. Joins(seqs, n + 1, h)  BY <2>4, <2>5 DEF Joins
  <2>7. n + 1 \in Nat  OBVIOUS
  <2> QED  BY <2>6, <2>7
<1> HIDE DEF S
<1>3. \A n \in Nat : n \in S  BY <1>1, <1>2, SetOfAll
<1> QED  BY <1>3 DEF S

\* What the i-th of them is.
LEMMA JoinsAt ==
  ASSUME NEW seqs, NEW n \in Nat, NEW g, Joins(seqs, n, g), NEW i \in 1..n
  PROVE  g[i] = IF i = 1 THEN seqs[i] ELSE g[i - 1] \o seqs[i]
<1> DEFINE rhs == [j \in 1..n |-> IF j = 1 THEN seqs[j] ELSE g[j - 1] \o seqs[j]]
<1>1. g = rhs  BY DEF Joins
<1>2. rhs[i] = IF i = 1 THEN seqs[i] ELSE g[i - 1] \o seqs[i]  OBVIOUS
<1> HIDE DEF rhs
<1> QED  BY <1>1, <1>2

\* FlattenSeq is what its equation says.
LEMMA Flattened ==
  ASSUME NEW seqs, Len(seqs) \in Nat, Len(seqs) # 0
  PROVE  \E g : Joins(seqs, Len(seqs), g) /\ FlattenSeq(seqs) = g[Len(seqs)]
<1> DEFINE flatten == CHOOSE g : g = [i \in 1..Len(seqs) |-> IF i = 1 THEN seqs[i] ELSE g[i - 1] \o seqs[i]]
<1>1. \E g : g = [i \in 1..Len(seqs) |-> IF i = 1 THEN seqs[i] ELSE g[i - 1] \o seqs[i]]
  BY JoinsExist, Zenon DEF Joins
<1>2. flatten = [i \in 1..Len(seqs) |-> IF i = 1 THEN seqs[i] ELSE flatten[i - 1] \o seqs[i]]
  BY <1>1, Zenon
<1>3. FlattenSeq(seqs) = flatten[Len(seqs)]
  BY Zenon DEF FlattenSeq
<1> HIDE DEF flatten
<1>4. Joins(seqs, Len(seqs), flatten)  BY <1>2, Zenon DEF Joins
<1> QED  BY <1>3, <1>4

\* Two sequences agree on their first n elements.
SameUpTo(s, t, n) == \A i \in 1..n : s[i] = t[i]

\* Two that join the same sequences agree.
LEMMA JoinsAgree ==
  ASSUME NEW s, NEW t, NEW m \in Nat, NEW n \in Nat, NEW g, NEW h, Joins(s, m, g), Joins(t, n, h),
         m <= n, SameUpTo(s, t, m)
  PROVE  SameUpTo(g, h, m)
<1> USE DEF SameUpTo
<1> DEFINE S == {i \in Nat : i \in 1..m => g[i] = h[i]}
<1>1. 0 \in S  OBVIOUS
<1>2. ASSUME NEW i \in Nat, i \in S  PROVE i + 1 \in S
  <2> SUFFICES ASSUME i + 1 \in 1..m  PROVE g[i + 1] = h[i + 1]
    OBVIOUS
  <2>1. i + 1 \in 1..m /\ i + 1 \in 1..n /\ (i + 1) - 1 = i /\ s[i + 1] = t[i + 1]  OBVIOUS
  <2>2. /\ g[i + 1] = IF i + 1 = 1 THEN s[i + 1] ELSE g[(i + 1) - 1] \o s[i + 1]
        /\ h[i + 1] = IF i + 1 = 1 THEN t[i + 1] ELSE h[(i + 1) - 1] \o t[i + 1]
    BY <2>1, JoinsAt
  <2>3. i + 1 # 1 => g[i] = h[i]
    <3> SUFFICES ASSUME i + 1 # 1  PROVE g[i] = h[i]
      OBVIOUS
    <3>1. i \in 1..m  OBVIOUS
    <3> QED  BY <1>2, <3>1
  <2> QED  BY <2>1, <2>2, <2>3
<1> HIDE DEF S
<1>3. \A i \in Nat : i \in S  BY <1>1, <1>2, SetOfAll
<1> QED  BY <1>3 DEF S

\* One more sequence.
LEMMA FlattenAppend ==
  ASSUME NEW A, NEW s \in Seq(Seq(A)), NEW x \in Seq(A)
  PROVE  FlattenSeq(Append(s, x)) = FlattenSeq(s) \o x
<1> DEFINE t == Append(s, x)
           n == Len(s)
<1>1. /\ n \in Nat /\ Len(t) = n + 1 /\ t[n + 1] = x
      /\ \A i \in 1..n : t[i] = s[i]
  OBVIOUS
<1> HIDE DEF t
<1>2. PICK h : Joins(t, n + 1, h) /\ FlattenSeq(t) = h[n + 1]
  BY <1>1, Flattened
<1>3. h[n + 1] = IF n + 1 = 1 THEN t[n + 1] ELSE h[(n + 1) - 1] \o t[n + 1]
  BY <1>1, <1>2, JoinsAt
<1>4. CASE n = 0
  <2>1. s = <<>>  BY <1>4
  <2>2. FlattenSeq(s) = <<>>  BY <1>4, <2>1 DEF FlattenSeq
  <2>3. <<>> \o x = x  OBVIOUS
  <2> QED  BY <1>1, <1>2, <1>3, <1>4, <2>2, <2>3 DEF t
<1>5. CASE n # 0
  <2>1. PICK g : Joins(s, n, g) /\ FlattenSeq(s) = g[n]
    BY <1>1, <1>5, Flattened
  <2>2. h[n] = g[n]
    <3>0. n \in Nat /\ n + 1 \in Nat /\ n <= n + 1 /\ SameUpTo(s, t, n)
      BY <1>1 DEF SameUpTo
    <3> HIDE DEF n
    <3>1. SameUpTo(g, h, n)
      <4>1. Joins(s, n, g) /\ Joins(t, n + 1, h)  BY <1>2, <2>1
      <4> QED  BY <3>0, <4>1, JoinsAgree
    <3> QED  BY <1>1, <1>5, <3>1 DEF SameUpTo
  <2>3. (n + 1) - 1 = n /\ n + 1 # 1  BY <1>1, <1>5
  <2> HIDE DEF n
  <2> QED  BY <1>1, <1>2, <1>3, <2>1, <2>2, <2>3 DEF t
<1> QED  BY <1>4, <1>5

\* What the first i of some sequences make.
Ahead(s, i) == FlattenSeq(SubSeq(s, 1, i))

\* What is where when two sequences are joined.
LEMMA JoinedAt ==
  ASSUME NEW A, NEW s \in Seq(A), NEW t \in Seq(A)
  PROVE  /\ s \o t \in Seq(A) /\ Len(s \o t) = Len(s) + Len(t) /\ Len(s) \in Nat /\ Len(t) \in Nat
         /\ \A p \in 1..Len(s) : (s \o t)[p] = s[p]
         /\ \A p \in 1..Len(t) : (s \o t)[Len(s) + p] = t[p]
OBVIOUS

\* Of no sequences, of all, and of one more.
LEMMA AheadNone == ASSUME NEW A, NEW s \in Seq(Seq(A))  PROVE Ahead(s, 0) = <<>>
<1>1. SubSeq(s, 1, 0) = <<>>  OBVIOUS
<1>2. FlattenSeq(<<>>) = <<>>  BY DEF FlattenSeq
<1> QED  BY <1>1, <1>2 DEF Ahead

LEMMA AheadAll == ASSUME NEW A, NEW s \in Seq(Seq(A))  PROVE Ahead(s, Len(s)) = FlattenSeq(s)
<1>1. SubSeq(s, 1, Len(s)) = s  OBVIOUS
<1> QED  BY <1>1 DEF Ahead

LEMMA AheadNext ==
  ASSUME NEW A, NEW s \in Seq(Seq(A)), NEW i \in Nat, i < Len(s)
  PROVE  Ahead(s, i + 1) = Ahead(s, i) \o s[i + 1]
<1>1. SubSeq(s, 1, i + 1) = Append(SubSeq(s, 1, i), s[i + 1])  OBVIOUS
<1>2. SubSeq(s, 1, i) \in Seq(Seq(A)) /\ s[i + 1] \in Seq(A)  OBVIOUS
<1>3. FlattenSeq(Append(SubSeq(s, 1, i), s[i + 1])) = FlattenSeq(SubSeq(s, 1, i)) \o s[i + 1]
  BY <1>2, FlattenAppend
<1> QED  BY <1>1, <1>3 DEF Ahead

\* It is a sequence of the same elements.
LEMMA AheadTyped ==
  ASSUME NEW A, NEW s \in Seq(Seq(A))
  PROVE  \A i \in Nat : i <= Len(s) => Ahead(s, i) \in Seq(A)
<1> DEFINE S == {i \in Nat : i <= Len(s) => Ahead(s, i) \in Seq(A)}
<1>1. 0 \in S
  <2>1. Ahead(s, 0) = <<>>  BY AheadNone
  <2>2. <<>> \in Seq(A)  OBVIOUS
  <2> QED  BY <2>1, <2>2
<1>2. ASSUME NEW i \in Nat, i \in S  PROVE i + 1 \in S
  <2> SUFFICES ASSUME i + 1 <= Len(s)  PROVE Ahead(s, i + 1) \in Seq(A)
    OBVIOUS
  <2>1. i < Len(s) /\ i <= Len(s)  OBVIOUS
  <2>2. Ahead(s, i) \in Seq(A)  BY <1>2, <2>1
  <2>3. s[i + 1] \in Seq(A)  BY <2>1
  <2>4. Ahead(s, i + 1) = Ahead(s, i) \o s[i + 1]  BY <2>1, AheadNext
  <2>5. Ahead(s, i) \o s[i + 1] \in Seq(A)  BY <2>2, <2>3, JoinedAt
  <2> QED  BY <2>4, <2>5
<1> HIDE DEF S
<1>3. \A i \in Nat : i \in S  BY <1>1, <1>2, SetOfAll
<1> QED  BY <1>3 DEF S

\* What is in front stays there.
LEMMA AheadStays ==
  ASSUME NEW A, NEW s \in Seq(Seq(A)), NEW k \in Nat, k <= Len(s)
  PROVE  \A m \in Nat : k <= m /\ m <= Len(s) =>
           /\ Len(Ahead(s, k)) <= Len(Ahead(s, m))
           /\ \A p \in 1..Len(Ahead(s, k)) : Ahead(s, m)[p] = Ahead(s, k)[p]
<1> DEFINE Kept(m) ==
             /\ Len(Ahead(s, k)) <= Len(Ahead(s, m))
             /\ \A p \in 1..Len(Ahead(s, k)) : Ahead(s, m)[p] = Ahead(s, k)[p]
           S == {m \in Nat : k <= m /\ m <= Len(s) => Kept(m)}
<1>0. Ahead(s, k) \in Seq(A) /\ Len(Ahead(s, k)) \in Nat
  <2>1. Ahead(s, k) \in Seq(A)  BY AheadTyped
  <2> QED  BY <2>1
<1>1. Kept(k)  BY <1>0
<1>2. 0 \in S
  <2>1. k <= 0 => k = 0  OBVIOUS
  <2> HIDE DEF Kept
  <2> QED  BY <1>1, <2>1
<1>3. ASSUME NEW m \in Nat, m \in S  PROVE m + 1 \in S
  <2> SUFFICES ASSUME k <= m + 1, m + 1 <= Len(s)  PROVE Kept(m + 1)
    OBVIOUS
  <2>1. CASE k = m + 1
    <3> HIDE DEF Kept
    <3> QED  BY <1>1, <2>1
  <2>2. CASE k # m + 1
    <3>1. k <= m /\ m <= Len(s) /\ m < Len(s)  BY <2>2
    <3>2. Kept(m)  BY <1>3, <3>1
    <3>3. Ahead(s, m) \in Seq(A) /\ s[m + 1] \in Seq(A)
      <4>1. s[m + 1] \in Seq(A)  BY <3>1
      <4> QED  BY <3>1, <4>1, AheadTyped
    <3>4. Ahead(s, m + 1) = Ahead(s, m) \o s[m + 1]  BY <3>1, AheadNext
    <3>5. /\ Len(Ahead(s, m + 1)) = Len(Ahead(s, m)) + Len(s[m + 1])
          /\ Len(Ahead(s, m)) \in Nat /\ Len(s[m + 1]) \in Nat
          /\ \A p \in 1..Len(Ahead(s, m)) : Ahead(s, m + 1)[p] = Ahead(s, m)[p]
      BY <3>3, <3>4, JoinedAt
    <3>6. \A p \in 1..Len(Ahead(s, k)) : p \in 1..Len(Ahead(s, m))
      BY <1>0, <3>2, <3>5
    <3> QED  BY <1>0, <3>2, <3>5, <3>6
  <2> QED  BY <2>1, <2>2
<1> HIDE DEF S
<1>4. \A m \in Nat : m \in S  BY <1>2, <1>3, SetOfAll
<1> QED  BY <1>4 DEF S

\* The place of an element, and the places there are.
LEMMA FlattenedAt ==
  ASSUME NEW A, NEW s \in Seq(Seq(A)), NEW i \in 1..Len(s)
  PROVE  /\ FlattenSeq(s) \in Seq(A) /\ Len(FlattenSeq(s)) \in Nat
         /\ Len(Ahead(s, i - 1)) \in Nat /\ Len(s[i]) \in Nat
         /\ Len(Ahead(s, i)) = Len(Ahead(s, i - 1)) + Len(s[i])
         /\ Len(Ahead(s, i)) <= Len(FlattenSeq(s))
         /\ \A j \in 1..Len(s[i]) : FlattenSeq(s)[Len(Ahead(s, i - 1)) + j] = s[i][j]
<1>1. /\ i - 1 \in Nat /\ i \in Nat /\ i - 1 < Len(s) /\ i - 1 <= Len(s) /\ i <= Len(s) /\ (i - 1) + 1 = i
      /\ Len(s) \in Nat /\ Len(s) <= Len(s)
  OBVIOUS
<1>2. Ahead(s, i - 1) \in Seq(A) /\ s[i] \in Seq(A) /\ Ahead(s, Len(s)) \in Seq(A)
  <2>1. s[i] \in Seq(A)  OBVIOUS
  <2>2. Ahead(s, i - 1) \in Seq(A)  BY <1>1, AheadTyped
  <2>3. Ahead(s, Len(s)) \in Seq(A)  BY <1>1, AheadTyped
  <2> QED  BY <2>1, <2>2, <2>3
<1>3. Ahead(s, i) = Ahead(s, i - 1) \o s[i]
  <2>1. Ahead(s, (i - 1) + 1) = Ahead(s, i - 1) \o s[(i - 1) + 1]  BY <1>1, AheadNext
  <2> QED  BY <1>1, <2>1
<1>4. /\ Len(Ahead(s, i)) = Len(Ahead(s, i - 1)) + Len(s[i])
      /\ Len(Ahead(s, i - 1)) \in Nat /\ Len(s[i]) \in Nat
      /\ \A j \in 1..Len(s[i]) : Ahead(s, i)[Len(Ahead(s, i - 1)) + j] = s[i][j]
  <2> DEFINE before == Ahead(s, i - 1)
             own == s[i]
  <2>1. before \in Seq(A) /\ own \in Seq(A)  BY <1>2
  <2> HIDE DEF before, own
  <2>2. /\ Len(before \o own) = Len(before) + Len(own) /\ Len(before) \in Nat /\ Len(own) \in Nat
        /\ \A j \in 1..Len(own) : (before \o own)[Len(before) + j] = own[j]
    BY <2>1, JoinedAt
  <2> QED  BY <1>3, <2>2 DEF before, own
<1>5. /\ Len(Ahead(s, i)) <= Len(Ahead(s, Len(s)))
      /\ \A p \in 1..Len(Ahead(s, i)) : Ahead(s, Len(s))[p] = Ahead(s, i)[p]
  BY <1>1, AheadStays
<1>6. Ahead(s, Len(s)) = FlattenSeq(s)  BY AheadAll
<1>7. ASSUME NEW j \in 1..Len(s[i])  PROVE FlattenSeq(s)[Len(Ahead(s, i - 1)) + j] = s[i][j]
  <2>1. Len(Ahead(s, i - 1)) + j \in 1..Len(Ahead(s, i))  BY <1>4
  <2> QED  BY <1>4, <1>5, <1>6, <2>1
<1>8. Len(FlattenSeq(s)) \in Nat /\ FlattenSeq(s) \in Seq(A)  BY <1>2, <1>6
<1> QED  BY <1>4, <1>5, <1>6, <1>7, <1>8

\* The elements of the i-th sequence lie after those ahead of it.
LEMMA Placed ==
  ASSUME NEW A, NEW s \in Seq(Seq(A))
  PROVE  \A p \in 1..Len(FlattenSeq(s)) :
           \E i \in 1..Len(s) : \E j \in 1..Len(s[i]) : p = Len(Ahead(s, i - 1)) + j
<1> DEFINE Found(p) == \E i \in 1..Len(s) : \E j \in 1..Len(s[i]) : p = Len(Ahead(s, i - 1)) + j
           S == {m \in Nat : m <= Len(s) => \A p \in 1..Len(Ahead(s, m)) : Found(p)}
<1>1. 0 \in S
  <2>1. Len(Ahead(s, 0)) = 0  BY AheadNone
  <2> HIDE DEF Found
  <2> QED  BY <2>1
<1>2. ASSUME NEW m \in Nat, m \in S  PROVE m + 1 \in S
  <2> SUFFICES ASSUME m + 1 <= Len(s), NEW p \in 1..Len(Ahead(s, m + 1))  PROVE Found(p)
    OBVIOUS
  <2>1. m + 1 \in 1..Len(s) /\ m <= Len(s) /\ (m + 1) - 1 = m  OBVIOUS
  <2>2. /\ Len(Ahead(s, (m + 1) - 1)) \in Nat /\ Len(s[m + 1]) \in Nat
        /\ Len(Ahead(s, m + 1)) = Len(Ahead(s, (m + 1) - 1)) + Len(s[m + 1])
    BY <2>1, FlattenedAt
  <2>3. CASE p \in 1..Len(Ahead(s, m))
    <3> HIDE DEF Found
    <3> QED  BY <1>2, <2>1, <2>3
  <2>4. CASE p \notin 1..Len(Ahead(s, m))
    <3> DEFINE j == p - Len(Ahead(s, m))
    <3>1. j \in 1..Len(s[m + 1]) /\ p = Len(Ahead(s, (m + 1) - 1)) + j  BY <2>1, <2>2, <2>4
    <3> HIDE DEF j
    <3> QED  BY <2>1, <3>1
  <2> QED  BY <2>3, <2>4
<1> HIDE DEF S
<1>3. \A m \in Nat : m \in S  BY <1>1, <1>2, SetOfAll
<1>4. Len(s) \in Nat /\ Len(s) <= Len(s) /\ Ahead(s, Len(s)) = FlattenSeq(s)  BY AheadAll
<1> HIDE DEF Found
<1>5. \A p \in 1..Len(Ahead(s, Len(s))) : Found(p)  BY <1>3, <1>4 DEF S
<1> QED  BY <1>4, <1>5 DEF Found

\* Only the lengths count for lengths.
SameLengths(s, t) == Len(t) = Len(s) /\ \A i \in 1..Len(s) : Len(t[i]) = Len(s[i])

LEMMA AheadLengths ==
  ASSUME NEW A, NEW s \in Seq(Seq(A)), NEW t \in Seq(Seq(A)), SameLengths(s, t)
  PROVE  \A i \in Nat : i <= Len(s) => Len(Ahead(t, i)) = Len(Ahead(s, i))
<1> DEFINE S == {i \in Nat : i <= Len(s) => Len(Ahead(t, i)) = Len(Ahead(s, i))}
<1> USE DEF SameLengths
<1>1. 0 \in S
  <2>1. Ahead(s, 0) = <<>> /\ Ahead(t, 0) = <<>>  BY AheadNone
  <2> QED  BY <2>1
<1>2. ASSUME NEW i \in Nat, i \in S  PROVE i + 1 \in S
  <2> SUFFICES ASSUME i + 1 <= Len(s)  PROVE Len(Ahead(t, i + 1)) = Len(Ahead(s, i + 1))
    OBVIOUS
  <2>1. i + 1 \in 1..Len(s) /\ i + 1 \in 1..Len(t) /\ (i + 1) - 1 = i /\ i <= Len(s)  OBVIOUS
  <2>2. Len(Ahead(s, i + 1)) = Len(Ahead(s, (i + 1) - 1)) + Len(s[i + 1])  BY <2>1, FlattenedAt
  <2>3. Len(Ahead(t, i + 1)) = Len(Ahead(t, (i + 1) - 1)) + Len(t[i + 1])  BY <2>1, FlattenedAt
  <2>4. Len(Ahead(t, i)) = Len(Ahead(s, i))  BY <1>2, <2>1
  <2> QED  BY <2>1, <2>2, <2>3, <2>4
<1> HIDE DEF S
<1>3. \A i \in Nat : i \in S  BY <1>1, <1>2, SetOfAll
<1> QED  BY <1>3 DEF S

\* Sequences of one element.
LEMMA Singles ==
  ASSUME NEW A, NEW u \in Seq(A), NEW s, s = [i \in 1..Len(u) |-> <<u[i]>>]
  PROVE  FlattenSeq(s) = u
<1> DEFINE S == {i \in Nat : i <= Len(u) => Ahead(s, i) = SubSeq(u, 1, i)}
<1>0. s \in Seq(Seq(A)) /\ Len(s) = Len(u) /\ \A i \in 1..Len(u) : s[i] = <<u[i]>>
  <2>1. \A i \in 1..Len(u) : <<u[i]>> \in Seq(A)  OBVIOUS
  <2> QED  BY <2>1
<1>1. 0 \in S
  <2>1. Ahead(s, 0) = <<>>  BY <1>0, AheadNone
  <2>2. SubSeq(u, 1, 0) = <<>>  OBVIOUS
  <2> QED  BY <2>1, <2>2
<1>2. ASSUME NEW i \in Nat, i \in S  PROVE i + 1 \in S
  <2> SUFFICES ASSUME i + 1 <= Len(u)  PROVE Ahead(s, i + 1) = SubSeq(u, 1, i + 1)
    OBVIOUS
  <2>1. i < Len(s) /\ i <= Len(u) /\ i + 1 \in 1..Len(u)  BY <1>0
  <2>2. Ahead(s, i + 1) = Ahead(s, i) \o s[i + 1]  BY <1>0, <2>1, AheadNext
  <2>3. Ahead(s, i) = SubSeq(u, 1, i) /\ s[i + 1] = <<u[i + 1]>>  BY <1>0, <1>2, <2>1
  <2>4. SubSeq(u, 1, i + 1) = SubSeq(u, 1, i) \o <<u[i + 1]>>  BY <2>1
  <2> QED  BY <2>2, <2>3, <2>4
<1> HIDE DEF S
<1>3. \A i \in Nat : i \in S  BY <1>1, <1>2, SetOfAll
<1>4. Ahead(s, Len(u)) = SubSeq(u, 1, Len(u))
  <2>1. Len(u) \in Nat /\ Len(u) <= Len(u)  OBVIOUS
  <2> QED  BY <1>3, <2>1 DEF S
<1>5. Ahead(s, Len(s)) = FlattenSeq(s)  BY <1>0, AheadAll
<1>6. SubSeq(u, 1, Len(u)) = u  OBVIOUS
<1> QED  BY <1>0, <1>4, <1>5, <1>6

-----------------------------------------------------------------------------
(* The machine.                                                            *)

\* Every way on from an instruction leads to a later one.
Onward(prog, pc) ==
  /\ prog[pc].code \in Jumps => {pc + 1 + prog[pc].jt, pc + 1 + prog[pc].jf} \subseteq (pc + 1)..Len(prog)
  /\ prog[pc].code \notin Jumps \cup {"RetK"} => pc + 1 \in (pc + 1)..Len(prog)
\* A program that only goes forward.
Forward(prog) == Len(prog) \in Nat /\ \A pc \in 1..Len(prog) : Onward(prog, pc)

\* What is returned from the instructions from on.
Runs(prog, f, from, g) == g = [pc \in from..Len(prog) |-> [r \in Registers |-> Result(prog, f, g, pc, r)]]

\* What that is at one of them.
LEMMA RunsAt ==
  ASSUME NEW prog, NEW f, NEW from, NEW g, Runs(prog, f, from, g), NEW pc \in from..Len(prog)
  PROVE  g[pc] = [r \in Registers |-> Result(prog, f, g, pc, r)]
<1> DEFINE rhs == [q \in from..Len(prog) |-> [r \in Registers |-> Result(prog, f, g, q, r)]]
<1>1. g = rhs  BY DEF Runs
<1>2. rhs[pc] = [r \in Registers |-> Result(prog, f, g, pc, r)]  OBVIOUS
<1> HIDE DEF rhs
<1> QED  BY <1>1, <1>2

\* A result rests on those of later instructions.
LEMMA ResultLater ==
  ASSUME NEW prog, Forward(prog), NEW f, NEW pc \in 1..Len(prog), NEW g, NEW h,
         \A q \in (pc + 1)..Len(prog) : g[q] = h[q]
  PROVE  \A r : Result(prog, f, g, pc, r) = Result(prog, f, h, pc, r)
<1> SUFFICES ASSUME NEW r  PROVE Result(prog, f, g, pc, r) = Result(prog, f, h, pc, r)
  OBVIOUS
<1>1. Onward(prog, pc)  BY DEF Forward
<1>2. CASE prog[pc].code = "RetK"  BY <1>2 DEF Result
<1>3. CASE prog[pc].code \in Jumps
  <2> DEFINE q == pc + 1 + (IF Test(prog[pc], r.a) THEN prog[pc].jt ELSE prog[pc].jf)
  <2>1. q \in (pc + 1)..Len(prog)  BY <1>1, <1>3 DEF Onward
  <2>2. "RetK" \notin Jumps  BY DEF Jumps
  <2>3. Result(prog, f, g, pc, r) = g[q][r] /\ Result(prog, f, h, pc, r) = h[q][r]
    BY <1>3, <2>2 DEF Result
  <2> HIDE DEF q
  <2> QED  BY <2>1, <2>3
<1>4. CASE prog[pc].code \notin Jumps \cup {"RetK"}
  <2>1. g[pc + 1] = h[pc + 1]  BY <1>1, <1>4 DEF Onward
  <2> QED  BY <1>4, <2>1 DEF Result
<1> QED  BY <1>2, <1>3, <1>4

\* A forward program has such a function.
LEMMA RunsExist ==
  ASSUME NEW prog, Forward(prog), NEW f
  PROVE  \E g : Runs(prog, f, 1, g)
<1> DEFINE end == Len(prog)
           S == {n \in Nat : n <= end => \E g : Runs(prog, f, end + 1 - n, g)}
<1>0. end \in Nat  BY DEF Forward
<1>1. 0 \in S
  <2> DEFINE g == [pc \in (end + 1)..end |-> [r \in Registers |-> 0]]
  <2>1. (end + 1)..end = {}  BY <1>0
  <2>2. g = [pc \in (end + 1)..end |-> [r \in Registers |-> Result(prog, f, g, pc, r)]]  BY <2>1
  <2>3. end + 1 - 0 = end + 1  BY <1>0
  <2> HIDE DEF g
  <2>4. Runs(prog, f, end + 1 - 0, g)  BY <2>2, <2>3 DEF Runs
  <2> HIDE DEF end
  <2> QED  BY <2>4
<1>2. ASSUME NEW n \in Nat, n \in S  PROVE n + 1 \in S
  <2> SUFFICES ASSUME n + 1 <= end  PROVE \E h : Runs(prog, f, end + 1 - (n + 1), h)
    OBVIOUS
  <2> DEFINE from == end + 1 - n
  <2>1. /\ from \in Nat /\ from >= 2 /\ end + 1 - (n + 1) = from - 1 /\ n <= end
        /\ from - 1 \in 1..end /\ \A q : q \in from..end => q \in (from - 1)..end /\ q \in 1..end
        /\ \A q : q \in (from - 1)..end => q \in 1..end /\ q \in Nat
    BY <1>0
  <2> HIDE DEF end
  <2>2. PICK g : Runs(prog, f, from, g)  BY <1>2, <2>1
  <2> HIDE DEF from
  <2> DEFINE h == [pc \in (from - 1)..end |-> [r \in Registers |-> Result(prog, f, g, pc, r)]]
  <2>3. \A q \in from..end : h[q] = g[q]
    <3> SUFFICES ASSUME NEW q \in from..end  PROVE h[q] = g[q]
      OBVIOUS
    <3>1. h[q] = [r \in Registers |-> Result(prog, f, g, q, r)]  BY <2>1
    <3>2. g[q] = [r \in Registers |-> Result(prog, f, g, q, r)]  BY <2>2, RunsAt DEF end
    <3> QED  BY <3>1, <3>2
  <2>4. ASSUME NEW pc \in (from - 1)..end
        PROVE  h[pc] = [r \in Registers |-> Result(prog, f, h, pc, r)]
    <3>1. h[pc] = [r \in Registers |-> Result(prog, f, g, pc, r)]  OBVIOUS
    <3>2. \A q \in (pc + 1)..end : g[q] = h[q]
      <4>1. \A q \in (pc + 1)..end : q \in from..end  BY <1>0, <2>1
      <4> HIDE DEF h
      <4> QED  BY <2>3, <4>1
    <3> HIDE DEF h
    <3>3. pc \in 1..Len(prog)  BY <2>1 DEF end
    <3>4. \A r : Result(prog, f, g, pc, r) = Result(prog, f, h, pc, r)
      BY <3>2, <3>3, ResultLater DEF end
    <3> QED  BY <3>1, <3>4
  <2>5. h = [pc \in (from - 1)..end |-> h[pc]]  OBVIOUS
  <2> HIDE DEF h
  <2>6. h = [pc \in (from - 1)..end |-> [r \in Registers |-> Result(prog, f, h, pc, r)]]
    BY <2>4, <2>5
  <2>7. Runs(prog, f, from - 1, h)  BY <2>6 DEF Runs, end
  <2> QED  BY <2>1, <2>7 DEF from
<1> HIDE DEF S
<1>3. \A n \in Nat : n \in S  BY <1>1, <1>2, SetOfAll
<1>4. end <= end /\ end + 1 - end = 1  BY <1>0
<1>5. \E g : Runs(prog, f, end + 1 - end, g)
  BY <1>0, <1>3, <1>4 DEF S
<1> QED  BY <1>4, <1>5

\* What is returned from an instruction.
LEMMA Machine ==
  ASSUME NEW prog, Forward(prog), NEW f, NEW pc \in 1..Len(prog), NEW r \in Registers
  PROVE  Returned(prog, f)[pc][r] = Result(prog, f, Returned(prog, f), pc, r)
<1> DEFINE returned == CHOOSE g : g = [q \in 1..Len(prog) |-> [x \in Registers |-> Result(prog, f, g, q, x)]]
<1>1. \E g : g = [q \in 1..Len(prog) |-> [x \in Registers |-> Result(prog, f, g, q, x)]]
  <2>1. \E g : Runs(prog, f, 1, g)  BY RunsExist
  <2> QED  BY <2>1, Zenon DEF Runs
<1>2. returned = [q \in 1..Len(prog) |-> [x \in Registers |-> Result(prog, f, returned, q, x)]]
  BY <1>1, Zenon
<1>3. Returned(prog, f) = returned  BY Zenon DEF Returned
<1> HIDE DEF returned
<1>4. Runs(prog, f, 1, returned)  BY <1>2, Zenon DEF Runs
<1>5. returned[pc] = [x \in Registers |-> Result(prog, f, returned, pc, x)]  BY <1>4, RunsAt
<1>6. returned[pc][r] = Result(prog, f, returned, pc, r)  BY <1>5
<1> QED  BY <1>3, <1>6

-----------------------------------------------------------------------------
(* Blocks, linked.                                                         *)

\* The instructions that the blocks are made of.
Codes == Jumps \cup {"RetK", "LdHalfAbs", "LdByteAbs", "LdHalfInd", "LdxMshByte"}
Instr == [code : Codes, jt : Int, jf : Int, k : Int]

\* A block jumps to its own later instructions, to the next block, or accepts.
Fit(b) ==
  /\ b \in Seq(Instr)
  /\ \A j \in 1..Len(b) :
       /\ b[j].code \in Jumps => {b[j].jt, b[j].jf} \subseteq {targetAccept, targetNext} \cup j..Len(b)
       /\ b[j].code \notin Jumps => b[j].jt = 0 /\ b[j].jf = 0 /\ b[j].code # "RetK"

\* A jump from pc stays in a program of total instructions and two returns.
Within(i, pc, span) ==
  /\ i \in Instr
  /\ i.code \in Jumps => {i.jt, i.jf} \subseteq 0..(span + 1 - pc)
  /\ i.code \notin Jumps => i.jt = 0 /\ i.jf = 0 /\ i.code # "RetK"

\* Where a block lies: after st instructions, and before next.
Lies(b, st, span, next) ==
  /\ st \in Nat /\ span \in Nat /\ st + Len(b) <= span
  /\ next \in {st + Len(b), span + 1}

\* A resolved target lies within the program, and not before the jump.
LEMMA Resolved ==
  ASSUME NEW t \in Int, NEW n \in Nat, NEW j \in 1..n, t \in {targetAccept, targetNext} \cup j..n,
         NEW st \in Nat, NEW span \in Nat, st + n <= span, NEW next, next \in {st + n, span + 1}
  PROVE  /\ resolve(t, st, span, next) \in Int
         /\ resolve(t, st, span, next) - (st + j) \in 0..(span + 1 - (st + j))
<1>1. CASE t = targetAccept
  <2>1. resolve(t, st, span, next) = span  BY <1>1 DEF resolve, targetAccept, targetNext
  <2> QED  BY <2>1
<1>2. CASE t = targetNext
  <2>1. resolve(t, st, span, next) = next  BY <1>2 DEF resolve, targetAccept, targetNext
  <2> QED  BY <2>1
<1>3. CASE t \in j..n
  <2>1. resolve(t, st, span, next) = st + t  BY <1>3 DEF resolve, targetAccept, targetNext
  <2> QED  BY <1>3, <2>1
<1> QED  BY <1>1, <1>2, <1>3

\* A jump with other targets.
Redirected(i, t, u) == [i EXCEPT !.jt = t, !.jf = u]

\* Its targets, and all else as before.
LEMMA RedirectedIs ==
  ASSUME NEW i \in Instr, NEW t \in Int, NEW u \in Int
  PROVE  /\ Redirected(i, t, u) \in Instr /\ Redirected(i, t, u).jt = t /\ Redirected(i, t, u).jf = u
         /\ Redirected(i, t, u).code = i.code /\ Redirected(i, t, u).k = i.k
BY DEF Instr, Redirected

\* A linked block only jumps forward, and not past the end.
LEMMA LinkedWithin ==
  ASSUME NEW b, Fit(b), NEW st, NEW span, NEW next, Lies(b, st, span, next)
  PROVE  /\ Linked(b, st, span, next) \in Seq(Instr) /\ Len(Linked(b, st, span, next)) = Len(b)
         /\ \A j \in 1..Len(b) : Within(Linked(b, st, span, next)[j], st + j, span)
<1>0. b \in Seq(Instr) /\ Len(b) \in Nat /\ DOMAIN b = 1..Len(b)  BY DEF Fit
<1> DEFINE l == Linked(b, st, span, next)
<1>1. ASSUME NEW j \in 1..Len(b)  PROVE Within(l[j], st + j, span)
  <2>1. l[j] = IF b[j].code \in Jumps
               THEN [b[j] EXCEPT !.jt = resolve(b[j].jt, st, span, next) - (st + j),
                                 !.jf = resolve(b[j].jf, st, span, next) - (st + j)]
               ELSE b[j]
    BY <1>0 DEF Linked
  <2>2. b[j] \in Instr  BY <1>0
  <2>3. CASE b[j].code \in Jumps
    <3>1. /\ b[j].jt \in Int /\ b[j].jt \in {targetAccept, targetNext} \cup j..Len(b)
          /\ b[j].jf \in Int /\ b[j].jf \in {targetAccept, targetNext} \cup j..Len(b)
      BY <2>2, <2>3 DEF Fit, Instr
    <3>2. st \in Nat /\ span \in Nat /\ st + Len(b) <= span /\ next \in {st + Len(b), span + 1}
      BY DEF Lies
    <3> DEFINE t == resolve(b[j].jt, st, span, next) - (st + j)
               u == resolve(b[j].jf, st, span, next) - (st + j)
    <3>3. t \in 0..(span + 1 - (st + j))  BY <1>0, <3>1, <3>2, Resolved
    <3>4. u \in 0..(span + 1 - (st + j))  BY <1>0, <3>1, <3>2, Resolved
    <3>5. l[j] = [b[j] EXCEPT !.jt = t, !.jf = u]  BY <2>1, <2>3
    <3> HIDE DEF t, u, l
    <3>6. t \in Int /\ u \in Int  BY <3>1, <3>3, <3>4
    <3>7. l[j] \in Instr /\ l[j].jt = t /\ l[j].jf = u /\ l[j].code \in Jumps
      <4>1. l[j] = Redirected(b[j], t, u)  BY <3>5 DEF Redirected
      <4> QED  BY <2>2, <2>3, <3>6, <4>1, RedirectedIs
    <3> QED  BY <3>3, <3>4, <3>7 DEF Within
  <2>4. CASE b[j].code \notin Jumps
    <3>1. l[j] = b[j]  BY <2>1, <2>4
    <3> QED  BY <2>2, <2>4, <3>1 DEF Within, Fit
  <2> QED  BY <2>3, <2>4
<1>2. l = [j \in 1..Len(b) |-> l[j]]  BY <1>0 DEF Linked
<1> HIDE DEF l
<1>3. \A j \in 1..Len(b) : l[j] \in Instr  BY <1>1 DEF Within
<1>4. l \in Seq(Instr) /\ Len(l) = Len(b)  BY <1>0, <1>2, <1>3
<1> QED  BY <1>1, <1>4 DEF l

\* The place of block i in the program.
Start(blocks, i) == Len(Ahead(blocks, i - 1))
\* How many instructions some blocks have, and where the one after the i-th starts.
Total(blocks) == Len(FlattenSeq(blocks))
After(blocks, i) == IF i < Len(blocks) THEN Start(blocks, i + 1) ELSE Total(blocks) + 1

\* Each of some blocks lies within their program.
LEMMA BlockLies ==
  ASSUME NEW blocks \in Seq(Seq(Instr)), NEW i \in 1..Len(blocks)
  PROVE  Lies(blocks[i], Start(blocks, i), Total(blocks), After(blocks, i))
<1>1. /\ Total(blocks) \in Nat /\ Start(blocks, i) \in Nat /\ Len(blocks[i]) \in Nat
      /\ Len(Ahead(blocks, i)) = Start(blocks, i) + Len(blocks[i])
      /\ Len(Ahead(blocks, i)) <= Total(blocks)
  BY FlattenedAt DEF Start, Total
<1>2. (i + 1) - 1 = i  OBVIOUS
<1>3. After(blocks, i) \in {Len(Ahead(blocks, i)), Total(blocks) + 1}  BY <1>2 DEF After, Start
<1> QED  BY <1>1, <1>3 DEF Lies

\* Blocks that can be linked, and the i-th of them, linked.
Blocks(blocks) == blocks \in Seq(Seq(Instr)) /\ \A i \in 1..Len(blocks) : Fit(blocks[i])
LinkedAt(blocks, i) == Linked(blocks[i], Start(blocks, i), Total(blocks), After(blocks, i))

\* The program of some blocks: each of them linked, and the two returns.
LEMMA LinkedAll ==
  ASSUME NEW blocks, Blocks(blocks), NEW prog, prog = link(blocks)
  PROVE  /\ prog \in Seq(Instr) /\ Total(blocks) \in Nat /\ Len(prog) = Total(blocks) + 2
         /\ prog[Total(blocks) + 1] = Ret(AcceptLength) /\ prog[Total(blocks) + 2] = Ret(0)
         /\ \A i \in 1..Len(blocks) : \A j \in 1..Len(blocks[i]) :
              prog[Start(blocks, i) + j] = LinkedAt(blocks, i)[j]
         /\ \A pc \in 1..Total(blocks) : Within(prog[pc], pc, Total(blocks))
<1>0. blocks \in Seq(Seq(Instr)) /\ Len(blocks) \in Nat /\ DOMAIN blocks = 1..Len(blocks)  BY DEF Blocks
<1> DEFINE span == Total(blocks)
           linked == [i \in 1..Len(blocks) |-> LinkedAt(blocks, i)]
           body == FlattenSeq(linked)
           returns == <<Ret(AcceptLength), Ret(0)>>
<1>1. prog = body \o returns
  <2>1. linked = [i \in DOMAIN blocks |->
                    Linked(blocks[i], Start(blocks, i), span,
                           IF i < Len(blocks) THEN Start(blocks, i + 1) ELSE span + 1)]
    BY <1>0 DEF LinkedAt, After
  <2> HIDE DEF linked
  <2>2. link(blocks) = FlattenSeq(linked) \o returns
    BY <2>1 DEF link, Start, Total, Ahead
  <2> QED  BY <2>2
<1>2. \A i \in 1..Len(blocks) :
        /\ linked[i] = LinkedAt(blocks, i)
        /\ linked[i] \in Seq(Instr) /\ Len(linked[i]) = Len(blocks[i])
        /\ \A j \in 1..Len(blocks[i]) : Within(linked[i][j], Start(blocks, i) + j, span)
  <2> SUFFICES ASSUME NEW i \in 1..Len(blocks)
               PROVE  /\ LinkedAt(blocks, i) \in Seq(Instr) /\ Len(LinkedAt(blocks, i)) = Len(blocks[i])
                      /\ \A j \in 1..Len(blocks[i]) : Within(LinkedAt(blocks, i)[j], Start(blocks, i) + j, span)
    OBVIOUS
  <2>1. Fit(blocks[i])  BY DEF Blocks
  <2>2. Lies(blocks[i], Start(blocks, i), span, After(blocks, i))  BY <1>0, BlockLies
  <2> QED  BY <2>1, <2>2, LinkedWithin DEF LinkedAt
<1>3. linked \in Seq(Seq(Instr)) /\ Len(linked) = Len(blocks)
  <2>1. linked = [i \in 1..Len(blocks) |-> linked[i]]  OBVIOUS
  <2> HIDE DEF linked
  <2> QED  BY <1>0, <1>2, <2>1
<1> HIDE DEF linked
<1>4. \A i \in Nat : i <= Len(blocks) => Len(Ahead(linked, i)) = Len(Ahead(blocks, i))
  <2>1. SameLengths(blocks, linked)  BY <1>2, <1>3 DEF SameLengths
  <2> QED  BY <1>0, <1>3, <2>1, AheadLengths
<1>5. body \in Seq(Instr) /\ Len(body) = span /\ span \in Nat
  <2>1. Ahead(linked, Len(blocks)) = FlattenSeq(linked)  BY <1>3, AheadAll
  <2>2. Ahead(blocks, Len(blocks)) = FlattenSeq(blocks)  BY <1>0, AheadAll
  <2>3. Ahead(linked, Len(blocks)) \in Seq(Instr)  BY <1>0, <1>3, AheadTyped
  <2>4. Len(Ahead(linked, Len(blocks))) = Len(Ahead(blocks, Len(blocks)))  BY <1>0, <1>4
  <2> HIDE DEF body
  <2>5. body \in Seq(Instr) /\ Len(body) = span  BY <2>1, <2>2, <2>3, <2>4 DEF body, Total
  <2> QED  BY <2>5
<1>6. returns \in Seq(Instr) /\ Len(returns) = 2 /\ returns[1] = Ret(AcceptLength) /\ returns[2] = Ret(0)
  <2>1. AcceptLength \in Int  BY DEF AcceptLength
  <2>2. Ret(AcceptLength) \in Instr /\ Ret(0) \in Instr  BY <2>1 DEF Ret, Instr, Codes
  <2> QED  BY <2>2
<1>7. /\ prog \in Seq(Instr) /\ Len(prog) = span + 2
      /\ \A p \in 1..span : prog[p] = body[p]
      /\ prog[span + 1] = Ret(AcceptLength) /\ prog[span + 2] = Ret(0)
  <2> HIDE DEF body, returns, span
  <2>1. /\ body \o returns \in Seq(Instr) /\ Len(body \o returns) = Len(body) + Len(returns)
        /\ \A p \in 1..Len(body) : (body \o returns)[p] = body[p]
        /\ \A p \in 1..Len(returns) : (body \o returns)[Len(body) + p] = returns[p]
    BY <1>5, <1>6, JoinedAt
  <2> QED  BY <1>1, <1>5, <1>6, <2>1
<1>8. ASSUME NEW i \in 1..Len(blocks), NEW j \in 1..Len(blocks[i])
      PROVE  Start(blocks, i) + j \in 1..span /\ prog[Start(blocks, i) + j] = linked[i][j]
  <2>1. i \in 1..Len(linked) /\ j \in 1..Len(linked[i])  BY <1>2, <1>3
  <2>2. body[Len(Ahead(linked, i - 1)) + j] = linked[i][j]  BY <1>3, <2>1, FlattenedAt
  <2>3. Len(Ahead(linked, i - 1)) = Start(blocks, i)
    <3>1. i - 1 \in Nat /\ i - 1 <= Len(blocks)  BY <1>0
    <3> QED  BY <1>4, <3>1 DEF Start
  <2>4. Lies(blocks[i], Start(blocks, i), span, After(blocks, i))  BY <1>0, BlockLies
  <2>5. Start(blocks, i) + j \in 1..span  BY <1>0, <2>4 DEF Lies
  <2> HIDE DEF body, span
  <2> QED  BY <1>7, <2>2, <2>3, <2>5
<1>9. ASSUME NEW pc \in 1..span  PROVE Within(prog[pc], pc, span)
  <2>0. \A p \in 1..Len(FlattenSeq(blocks)) :
          \E i \in 1..Len(blocks) : \E j \in 1..Len(blocks[i]) : p = Len(Ahead(blocks, i - 1)) + j
    BY <1>0, Placed
  <2>1. PICK i \in 1..Len(blocks) : \E j \in 1..Len(blocks[i]) : pc = Start(blocks, i) + j
    BY <2>0 DEF Start, Total
  <2>3. PICK j \in 1..Len(blocks[i]) : pc = Start(blocks, i) + j
    BY <2>1
  <2> QED  BY <1>2, <1>8, <2>3
<1> HIDE DEF body, returns
<1> QED  BY <1>2, <1>5, <1>7, <1>8, <1>9

\* What link makes is forward, and in range when it is short enough.
LEMMA LinkedForward ==
  ASSUME NEW blocks, Blocks(blocks), NEW prog, prog = link(blocks)
  PROVE  Forward(prog) /\ (Total(blocks) <= maxJump => InRange(prog))
<1> DEFINE span == Total(blocks)
<1>1. /\ prog \in Seq(Instr) /\ span \in Nat /\ Len(prog) = span + 2
      /\ prog[span + 1] = Ret(AcceptLength) /\ prog[span + 2] = Ret(0)
      /\ \A pc \in 1..span : Within(prog[pc], pc, span)
  BY LinkedAll
<1> HIDE DEF span
<1>2. ASSUME NEW pc \in 1..Len(prog)
      PROVE  \/ pc \in 1..span /\ Within(prog[pc], pc, span)
             \/ prog[pc].code = "RetK" /\ prog[pc].jt = 0 /\ prog[pc].jf = 0
  BY <1>1 DEF Ret
<1>3. ASSUME NEW pc \in 1..Len(prog)  PROVE Onward(prog, pc)
  <2>1. "RetK" \notin Jumps  BY DEF Jumps
  <2>2. CASE prog[pc].code = "RetK"  BY <2>1, <2>2 DEF Onward
  <2>3. CASE pc \in 1..span /\ Within(prog[pc], pc, span)
    <3>1. pc + 1 \in (pc + 1)..Len(prog)  BY <1>1, <2>3
    <3>2. ASSUME prog[pc].code \in Jumps
          PROVE  {pc + 1 + prog[pc].jt, pc + 1 + prog[pc].jf} \subseteq (pc + 1)..Len(prog)
      <4>1. prog[pc].jt \in 0..(span + 1 - pc) /\ prog[pc].jf \in 0..(span + 1 - pc)
        BY <2>3, <3>2 DEF Within
      <4> QED  BY <1>1, <2>3, <4>1
    <3> QED  BY <3>1, <3>2 DEF Onward
  <2> QED  BY <1>2, <2>2, <2>3
<1>4. ASSUME span <= maxJump, NEW pc \in 1..Len(prog)
      PROVE  {prog[pc].jt, prog[pc].jf} \subseteq 0..maxJump
  <2>1. CASE prog[pc].jt = 0 /\ prog[pc].jf = 0  BY <2>1 DEF maxJump
  <2>2. CASE pc \in 1..span /\ prog[pc].jt \in 0..(span + 1 - pc) /\ prog[pc].jf \in 0..(span + 1 - pc)
    <3>1. maxJump \in Nat  BY DEF maxJump
    <3>2. span + 1 - pc <= maxJump /\ span + 1 - pc \in Int  BY <1>1, <1>4, <2>2, <3>1
    <3> QED  BY <2>2, <3>1, <3>2
  <2> QED  BY <1>2, <2>1, <2>2 DEF Within
<1>5. DOMAIN prog = 1..Len(prog) /\ Len(prog) \in Nat  BY <1>1
<1> QED  BY <1>3, <1>4, <1>5 DEF Forward, InRange, span

-----------------------------------------------------------------------------
(* What a block does.                                                      *)

\* What the kernel returns from the instruction pc on.
From(prog, f, pc, r) == Returned(prog, f)[pc][r]

\* Block b lies in a program after st instructions.
Lay(prog, b, st, span, next) ==
  /\ Forward(prog) /\ Fit(b) /\ Lies(b, st, span, next) /\ Len(prog) = span + 2
  /\ prog[span + 1] = Ret(AcceptLength) /\ prog[span + 2] = Ret(0)
  /\ \A j \in 1..Len(b) : prog[st + j] = Linked(b, st, span, next)[j]

\* What a return does, the program's accepting return, an instruction of
\* a block, and a load.
LEMMA ReturnDoes ==
  ASSUME NEW prog, Forward(prog), NEW f, NEW pc \in 1..Len(prog), NEW k, prog[pc] = Ret(k),
         NEW r \in Registers
  PROVE  From(prog, f, pc, r) = k
<1>1. From(prog, f, pc, r) = Result(prog, f, Returned(prog, f), pc, r)  BY Machine DEF From
<1>2. prog[pc].code = "RetK" /\ prog[pc].k = k  BY DEF Ret
<1> QED  BY <1>1, <1>2 DEF Result

LEMMA AcceptDoes ==
  ASSUME NEW prog, NEW b, NEW st, NEW span, NEW next, Lay(prog, b, st, span, next), NEW f,
         NEW r \in Registers
  PROVE  From(prog, f, span + 1, r) = AcceptLength
<1>1. span + 1 \in 1..Len(prog) /\ prog[span + 1] = Ret(AcceptLength) /\ Forward(prog)
  BY DEF Lay, Lies
<1> QED  BY <1>1, ReturnDoes

LEMMA Laid ==
  ASSUME NEW prog, NEW b, NEW st, NEW span, NEW next, Lay(prog, b, st, span, next),
         NEW j \in 1..Len(b)
  PROVE  /\ b[j] \in Instr /\ st \in Nat /\ st + j \in 1..Len(prog) /\ prog[st + j] \in Instr
         /\ prog[st + j].code = b[j].code /\ prog[st + j].k = b[j].k
         /\ b[j].code \in Jumps =>
              /\ prog[st + j].jt = resolve(b[j].jt, st, span, next) - (st + j)
              /\ prog[st + j].jf = resolve(b[j].jf, st, span, next) - (st + j)
         /\ b[j].code \in Jumps => b[j].jt \in Int /\ b[j].jf \in Int
<1>0. /\ b \in Seq(Instr) /\ Len(b) \in Nat /\ DOMAIN b = 1..Len(b) /\ Len(prog) = span + 2
      /\ st \in Nat /\ span \in Nat /\ st + Len(b) <= span /\ next \in {st + Len(b), span + 1}
      /\ prog[st + j] = Linked(b, st, span, next)[j]
  BY DEF Lay, Fit, Lies
<1>1. b[j] \in Instr  BY <1>0
<1>2. st + j \in 1..Len(prog)  BY <1>0
<1>3. Linked(b, st, span, next)[j] =
        IF b[j].code \in Jumps
        THEN Redirected(b[j], resolve(b[j].jt, st, span, next) - (st + j),
                              resolve(b[j].jf, st, span, next) - (st + j))
        ELSE b[j]
  BY <1>0 DEF Linked, Redirected
<1>4. CASE b[j].code \in Jumps
  <2> DEFINE t == resolve(b[j].jt, st, span, next) - (st + j)
             u == resolve(b[j].jf, st, span, next) - (st + j)
  <2>1. /\ b[j].jt \in Int /\ b[j].jt \in {targetAccept, targetNext} \cup j..Len(b)
        /\ b[j].jf \in Int /\ b[j].jf \in {targetAccept, targetNext} \cup j..Len(b)
    BY <1>1, <1>4 DEF Fit, Lay, Instr
  <2>2. t \in Int
    <3>1. t \in 0..(span + 1 - (st + j))  BY <1>0, <2>1, Resolved
    <3> HIDE DEF t
    <3> QED  BY <3>1
  <2>3. u \in Int
    <3>1. u \in 0..(span + 1 - (st + j))  BY <1>0, <2>1, Resolved
    <3> HIDE DEF u
    <3> QED  BY <3>1
  <2> HIDE DEF t, u
  <2>4. prog[st + j] = Redirected(b[j], t, u)  BY <1>0, <1>3, <1>4 DEF t, u
  <2>5. /\ prog[st + j] \in Instr /\ prog[st + j].code = b[j].code /\ prog[st + j].k = b[j].k
        /\ prog[st + j].jt = t /\ prog[st + j].jf = u
    BY <1>1, <2>2, <2>3, <2>4, RedirectedIs
  <2> QED  BY <1>0, <1>1, <1>2, <1>4, <2>1, <2>5 DEF t, u
<1>5. CASE b[j].code \notin Jumps
  <2>1. prog[st + j] = b[j]  BY <1>0, <1>3, <1>5
  <2> QED  BY <1>0, <1>1, <1>2, <1>5, <2>1
<1> QED  BY <1>4, <1>5

\* Where a symbolic target is, from 1.
LEMMA JumpDoes ==
  ASSUME NEW prog, NEW b, NEW st, NEW span, NEW next, Lay(prog, b, st, span, next),
         NEW j \in 1..Len(b), b[j].code \in Jumps, NEW f, NEW r \in Registers
  PROVE  From(prog, f, st + j, r) =
           From(prog, f, resolve(IF Test(b[j], r.a) THEN b[j].jt ELSE b[j].jf, st, span, next) + 1, r)
<1>1. /\ st \in Nat /\ st + j \in 1..Len(prog) /\ j \in Nat
      /\ prog[st + j].code = b[j].code /\ prog[st + j].k = b[j].k
      /\ prog[st + j].jt = resolve(b[j].jt, st, span, next) - (st + j)
      /\ prog[st + j].jf = resolve(b[j].jf, st, span, next) - (st + j)
      /\ b[j].jt \in Int /\ b[j].jf \in Int
  BY Laid
<1>2. From(prog, f, st + j, r) = Result(prog, f, Returned(prog, f), st + j, r)
  BY <1>1, Machine DEF From, Lay
<1>3. "RetK" \notin Jumps  BY DEF Jumps
<1>4. Test(prog[st + j], r.a) = Test(b[j], r.a)  BY <1>1 DEF Test
<1>5. Result(prog, f, Returned(prog, f), st + j, r) =
        From(prog, f, st + j + 1 + (IF Test(b[j], r.a) THEN prog[st + j].jt ELSE prog[st + j].jf), r)
  BY <1>1, <1>3, <1>4 DEF Result, From
<1>6. b[j].jt \in {targetAccept, targetNext} \cup j..Len(b) /\ b[j].jf \in {targetAccept, targetNext} \cup j..Len(b)
  BY DEF Lay, Fit
<1>7. Len(b) \in Nat /\ span \in Nat /\ st + Len(b) <= span /\ next \in {st + Len(b), span + 1}
  BY DEF Lay, Fit, Lies
<1>8. resolve(b[j].jt, st, span, next) \in Int /\ resolve(b[j].jf, st, span, next) \in Int
  BY <1>1, <1>6, <1>7, Resolved
<1>9. CASE Test(b[j], r.a)
  <2>1. st + j + 1 + (resolve(b[j].jt, st, span, next) - (st + j)) = resolve(b[j].jt, st, span, next) + 1
    BY <1>1, <1>8
  <2> QED  BY <1>1, <1>2, <1>5, <1>9, <2>1
<1>10. CASE ~Test(b[j], r.a)
  <2>1. st + j + 1 + (resolve(b[j].jf, st, span, next) - (st + j)) = resolve(b[j].jf, st, span, next) + 1
    BY <1>1, <1>8
  <2> QED  BY <1>1, <1>2, <1>5, <1>10, <2>1
<1> QED  BY <1>9, <1>10

LEMMA LoadDoes ==
  ASSUME NEW prog, NEW b, NEW st, NEW span, NEW next, Lay(prog, b, st, span, next),
         NEW j \in 1..Len(b), b[j].code \notin Jumps, NEW f, NEW r \in Registers
  PROVE  From(prog, f, st + j, r) =
           IF Place(b[j], r) + Width(b[j].code) > f.len THEN 0
           ELSE From(prog, f, st + j + 1, Loaded(b[j], r, f))
<1>1. /\ st + j \in 1..Len(prog) /\ prog[st + j].code = b[j].code /\ prog[st + j].k = b[j].k
  BY Laid
<1>2. From(prog, f, st + j, r) = Result(prog, f, Returned(prog, f), st + j, r)
  BY <1>1, Machine DEF From, Lay
<1>3. b[j].code # "RetK"  BY DEF Lay, Fit
<1>4. Place(prog[st + j], r) = Place(b[j], r)  BY <1>1 DEF Place
<1>5. Loaded(prog[st + j], r, f) = Loaded(b[j], r, f)  BY <1>1, <1>4 DEF Loaded
<1> QED  BY <1>1, <1>2, <1>3, <1>4, <1>5 DEF Result, From

\* What the symbolic targets are.
LEMMA Targets ==
  ASSUME NEW st, NEW span, NEW next
  PROVE  /\ resolve(targetAccept, st, span, next) = span
         /\ resolve(targetNext, st, span, next) = next
         /\ \A n \in Nat : resolve(n, st, span, next) = st + n
BY DEF resolve, targetAccept, targetNext

\* The types of a frame are different numbers.
LEMMA TypesDiffer ==
  /\ TypeIPv4 \in Nat /\ TypeIPv6 \in Nat /\ TypeVLAN \in Nat /\ TypeARP \in Nat /\ TypeLLDP \in Nat
  /\ 0 \notin {TypeIPv4, TypeIPv6, TypeVLAN, TypeARP, TypeLLDP}
  /\ TypeIPv4 \notin {TypeIPv6, TypeVLAN, TypeARP, TypeLLDP} /\ TypeIPv6 \notin {TypeVLAN, TypeARP, TypeLLDP}
  /\ TypeVLAN \notin {TypeARP, TypeLLDP} /\ TypeARP # TypeLLDP
BY DEF TypeIPv4, TypeIPv6, TypeVLAN, TypeARP, TypeLLDP

\* The fields of a frame are numbers, and tell IPv4 from IPv6.
LEMMA Seen ==
  ASSUME NEW f, Typed(f)
  PROVE  /\ f.len \in Nat /\ f.hl \in Nat /\ f.hl >= 20 /\ f.frag \in Nat /\ f.proto \in Nat
         /\ f.src \in Nat /\ f.dst \in Nat /\ f.ether \in Nat /\ SeenType(f) \in Nat
         /\ SeenType(f) = TypeIPv4 => f.ether = TypeIPv4 /\ ~f.ext
         /\ SeenType(f) = TypeIPv6 => f.ether = TypeIPv6
<1>1. /\ f.len \in Nat /\ f.hl \in Nat /\ f.hl >= 20 /\ f.frag \in Nat /\ f.proto \in Nat
      /\ f.src \in Nat /\ f.dst \in Nat /\ f.ether \in Nat
      /\ f.ext => f.ether = TypeIPv6
  BY DEF Typed
<1>2. SeenType(f) = TypeVLAN \/ SeenType(f) = f.ether  BY DEF SeenType
<1> QED  BY <1>1, <1>2, TypesDiffer

\* What is where in a frame.
LEMMA Found ==
  ASSUME NEW f, Typed(f)
  PROVE  /\ \A c : At(f, c, 12) = SeenType(f)
         /\ SeenType(f) = TypeIPv4 =>
              /\ At(f, "LdHalfAbs", 20) = f.frag
              /\ \A c : At(f, c, 23) = f.proto
              /\ \A c : At(f, c, f.hl + 14) = f.src
              /\ \A c : At(f, c, f.hl + 16) = f.dst
         /\ SeenType(f) = TypeIPv6 =>
              At(f, "LdByteAbs", 20) = IF f.ext THEN DestOpts ELSE f.proto
         /\ \A c, k : At(f, c, k) \in Int
<1>1. /\ f.hl \in Nat /\ f.hl >= 20 /\ f.frag \in Nat /\ f.proto \in Nat
      /\ f.src \in Nat /\ f.dst \in Nat /\ SeenType(f) \in Nat
  BY Seen
<1>2. DestOpts \in Int  BY DEF DestOpts
<1>3. TypeIPv4 # TypeIPv6  BY TypesDiffer
<1>4. ASSUME NEW c  PROVE At(f, c, 12) = SeenType(f)  BY <1>1 DEF At
<1>5. ASSUME SeenType(f) = TypeIPv4
      PROVE  /\ At(f, "LdHalfAbs", 20) = f.frag
             /\ \A c : At(f, c, 23) = f.proto
             /\ \A c : At(f, c, f.hl + 14) = f.src
             /\ \A c : At(f, c, f.hl + 16) = f.dst
  <2>1. At(f, "LdHalfAbs", 20) = f.frag  BY <1>1, <1>3, <1>5 DEF At
  <2>2. ASSUME NEW c  PROVE At(f, c, 23) = f.proto  BY <1>1, <1>3, <1>5 DEF At
  <2>3. ASSUME NEW c  PROVE At(f, c, f.hl + 14) = f.src  BY <1>1, <1>3, <1>5 DEF At
  <2>4. ASSUME NEW c  PROVE At(f, c, f.hl + 16) = f.dst  BY <1>1, <1>3, <1>5 DEF At
  <2> QED  BY <2>1, <2>2, <2>3, <2>4
<1>6. ASSUME SeenType(f) = TypeIPv6
      PROVE  At(f, "LdByteAbs", 20) = IF f.ext THEN DestOpts ELSE f.proto
  BY <1>1, <1>3, <1>6 DEF At
<1>7. ASSUME NEW c, NEW k  PROVE At(f, c, k) \in Int  BY <1>1, <1>2 DEF At
<1> QED  BY <1>4, <1>5, <1>6, <1>7

\* A load and a jump.
LEMMA Look ==
  ASSUME NEW prog, NEW b, NEW st, NEW span, NEW next, Lay(prog, b, st, span, next),
         NEW j \in Nat, j \in 1..Len(b), j + 1 \in 1..Len(b), NEW k \in Nat, NEW i,
         b[j].code \in {"LdHalfAbs", "LdByteAbs", "LdHalfInd"}, b[j].code \notin Jumps,
         b[j + 1] = i, i.code \in Jumps,
         NEW f, Typed(f), NEW r \in Registers, Place(b[j], r) = k
  PROVE  IF k + Width(b[j].code) > f.len
         THEN From(prog, f, st + j, r) = 0
         ELSE LET v == At(f, b[j].code, k) IN
                \E q \in Registers :
                  /\ q.a = v /\ q.x = r.x
                  /\ From(prog, f, st + j, r)
                       = From(prog, f, resolve(IF Test(i, v) THEN i.jt ELSE i.jf, st, span, next) + 1, q)
<1> DEFINE v == At(f, b[j].code, k)
           q == Loaded(b[j], r, f)
<1>1. From(prog, f, st + j, r) = IF k + Width(b[j].code) > f.len THEN 0 ELSE From(prog, f, st + j + 1, q)
  BY LoadDoes
<1>2. q = [r EXCEPT !.a = v]  BY DEF Loaded
<1>3. v \in Int  BY Found
<1> HIDE DEF q, v
<1>4. q \in Registers /\ q.a = v /\ q.x = r.x  BY <1>2, <1>3 DEF Registers
<1>5. From(prog, f, st + (j + 1), q)
        = From(prog, f, resolve(IF Test(i, q.a) THEN i.jt ELSE i.jf, st, span, next) + 1, q)
  BY <1>4, JumpDoes
<1>6. st + (j + 1) = st + j + 1  BY DEF Lay, Lies
<1> QED  BY <1>1, <1>4, <1>5, <1>6 DEF v

\* The fields of a load and of a jump.
LEMMA LoadIs ==
  ASSUME NEW c, NEW k
  PROVE  Load(c, k).code = c /\ Load(c, k).k = k /\ Load(c, k).jt = 0 /\ Load(c, k).jf = 0
BY DEF Load
LEMMA JumpIs ==
  ASSUME NEW c, NEW k, NEW jt, NEW jf
  PROVE  LET i == Jump(c, k, jt, jf) IN i.code = c /\ i.k = k /\ i.jt = jt /\ i.jf = jf
BY DEF Jump

\* A load from a fixed place, and whether it is a value.
LEMMA Compare ==
  ASSUME NEW prog, NEW b, NEW st, NEW span, NEW next, Lay(prog, b, st, span, next),
         NEW j \in Nat, j \in 1..Len(b), j + 1 \in 1..Len(b), NEW k \in Nat,
         NEW c, c \in {"LdHalfAbs", "LdByteAbs"}, NEW v, NEW jt, NEW jf,
         b[j] = Load(c, k), b[j + 1] = Jump("JeqK", v, jt, jf), NEW f, Typed(f), NEW r \in Registers
  PROVE  IF k + Width(c) > f.len
         THEN From(prog, f, st + j, r) = 0
         ELSE \E q \in Registers :
                From(prog, f, st + j, r)
                  = From(prog, f, resolve(IF At(f, c, k) = v THEN jt ELSE jf, st, span, next) + 1, q)
<1> DEFINE i == Jump("JeqK", v, jt, jf)
<1>1. b[j].code = c /\ c \notin Jumps /\ Place(b[j], r) = k  BY LoadIs DEF Place, Jumps
<1>2. i.code = "JeqK" /\ i.k = v /\ i.jt = jt /\ i.jf = jf /\ i.code \in Jumps /\ b[j + 1] = i
  BY JumpIs DEF Jumps
<1> HIDE DEF i
<1>3. \A a : Test(i, a) <=> a = v  BY <1>2 DEF Test
<1>4. b[j].code \in {"LdHalfAbs", "LdByteAbs", "LdHalfInd"}  BY <1>1
<1>5. IF k + Width(b[j].code) > f.len
      THEN From(prog, f, st + j, r) = 0
      ELSE LET w == At(f, b[j].code, k) IN
             \E q \in Registers :
               /\ q.a = w /\ q.x = r.x
               /\ From(prog, f, st + j, r)
                    = From(prog, f, resolve(IF Test(i, w) THEN i.jt ELSE i.jf, st, span, next) + 1, q)
  BY <1>1, <1>2, <1>4, Look
<1> QED  BY <1>1, <1>2, <1>3, <1>5

\* What a block says of a frame: its rule is matched, or a load is past the
\* end of it, or the next block is asked.
Outcome(prog, next, rule, f, pc, r) ==
  \/ From(prog, f, pc, r) = AcceptLength /\ Matches(rule, f)
  \/ From(prog, f, pc, r) = 0 /\ (f.len < 14 \/ Runt(f))
  \/ ~Matches(rule, f) /\ \E q \in Registers : From(prog, f, pc, r) = From(prog, f, next + 1, q)

\* The type is looked at first.
LEMMA TypeLook ==
  ASSUME NEW prog, NEW b, NEW st, NEW span, NEW next, Lay(prog, b, st, span, next),
         2 <= Len(b), NEW t, NEW jt,
         b[1] = Load("LdHalfAbs", 12), b[2] = Jump("JeqK", t, jt, targetNext),
         NEW f, Typed(f), NEW r \in Registers
  PROVE  IF f.len < 14
         THEN From(prog, f, st + 1, r) = 0
         ELSE \E q \in Registers :
                From(prog, f, st + 1, r)
                  = From(prog, f, (IF SeenType(f) = t THEN resolve(jt, st, span, next) ELSE next) + 1, q)
<1>1. Len(b) \in Nat  BY DEF Lay, Fit
<1>2. 1 \in 1..Len(b) /\ 1 + 1 \in 1..Len(b) /\ 1 + 1 = 2  BY <1>1
<1>3. IF 12 + Width("LdHalfAbs") > f.len
      THEN From(prog, f, st + 1, r) = 0
      ELSE \E q \in Registers :
             From(prog, f, st + 1, r)
               = From(prog, f, resolve(IF At(f, "LdHalfAbs", 12) = t THEN jt ELSE targetNext, st, span, next) + 1, q)
  BY <1>2, Compare
<1>4. Width("LdHalfAbs") = 2  BY DEF Width
<1>5. At(f, "LdHalfAbs", 12) = SeenType(f)  BY Found
<1>6. resolve(targetNext, st, span, next) = next  BY Targets
<1>7. f.len \in Nat  BY Seen
<1> QED  BY <1>3, <1>4, <1>5, <1>6, <1>7

\* Then the protocol.
LEMMA ProtoLook ==
  ASSUME NEW prog, NEW b, NEW st, NEW span, NEW next, Lay(prog, b, st, span, next),
         4 <= Len(b), NEW p, NEW jt, NEW k \in Nat,
         b[3] = Load("LdByteAbs", k), b[4] = Jump("JeqK", p, jt, targetNext),
         NEW f, Typed(f), NEW r \in Registers
  PROVE  IF f.len <= k
         THEN From(prog, f, st + 3, r) = 0
         ELSE \E q \in Registers :
                From(prog, f, st + 3, r)
                  = From(prog, f, (IF At(f, "LdByteAbs", k) = p THEN resolve(jt, st, span, next) ELSE next) + 1, q)
<1>1. Len(b) \in Nat  BY DEF Lay, Fit
<1>2. 3 \in 1..Len(b) /\ 3 + 1 \in 1..Len(b) /\ 3 + 1 = 4  BY <1>1
<1>3. IF k + Width("LdByteAbs") > f.len
      THEN From(prog, f, st + 3, r) = 0
      ELSE \E q \in Registers :
             From(prog, f, st + 3, r)
               = From(prog, f, resolve(IF At(f, "LdByteAbs", k) = p THEN jt ELSE targetNext, st, span, next) + 1, q)
  BY <1>2, Compare
<1>4. Width("LdByteAbs") = 1  BY DEF Width
<1>6. resolve(targetNext, st, span, next) = next  BY Targets
<1>7. f.len \in Nat  BY Seen
<1> QED  BY <1>3, <1>4, <1>6, <1>7

\* A block that checks the type only does what its rule says.
LEMMA TypeBlock ==
  ASSUME NEW prog, NEW b, NEW st, NEW span, NEW next, Lay(prog, b, st, span, next), Len(b) = 2,
         NEW t, t \in {TypeIPv4, TypeIPv6, TypeARP, TypeLLDP},
         b[1] = Load("LdHalfAbs", 12), b[2] = Jump("JeqK", t, targetAccept, targetNext),
         NEW f, Typed(f), NEW r \in Registers
  PROVE  Outcome(prog, next, Rule(t, 0, 0), f, st + 1, r)
<1>1. IF f.len < 14
      THEN From(prog, f, st + 1, r) = 0
      ELSE \E q \in Registers :
             From(prog, f, st + 1, r)
               = From(prog, f, (IF SeenType(f) = t THEN resolve(targetAccept, st, span, next) ELSE next) + 1, q)
  BY TypeLook
<1>2. resolve(targetAccept, st, span, next) = span  BY Targets
<1>3. \A q \in Registers : From(prog, f, span + 1, q) = AcceptLength  BY AcceptDoes
<1>4. f.len >= 14 /\ SeenType(f) = t => Matches(Rule(t, 0, 0), f)  BY DEF Matches, Rule
<1>5. SeenType(f) # t => ~Matches(Rule(t, 0, 0), f)  BY TypesDiffer DEF Matches, Rule
<1>6. f.len \in Nat  BY Seen
<1> QED  BY <1>1, <1>2, <1>3, <1>4, <1>5, <1>6 DEF Outcome

\* A block begins with the type, in t, and the protocol, p at k.
Begins(b, t, k, p, jt) ==
  /\ k \in Nat /\ 4 <= Len(b)
  /\ b[1] = Load("LdHalfAbs", 12) /\ b[2] = Jump("JeqK", t, 2, targetNext)
  /\ b[3] = Load("LdByteAbs", k) /\ b[4] = Jump("JeqK", p, jt, targetNext)

\* What the head of a block does: it returns, goes on to the next block, or
\* takes the last jump of the head.
LEMMA HeadLook ==
  ASSUME NEW prog, NEW b, NEW st, NEW span, NEW next, Lay(prog, b, st, span, next),
         NEW t, NEW k, NEW p, NEW jt, Begins(b, t, k, p, jt), NEW f, Typed(f), NEW r \in Registers
  PROVE  IF f.len < 14 THEN From(prog, f, st + 1, r) = 0
         ELSE IF SeenType(f) # t
         THEN \E q \in Registers : From(prog, f, st + 1, r) = From(prog, f, next + 1, q)
         ELSE IF f.len <= k THEN From(prog, f, st + 1, r) = 0
         ELSE \E q \in Registers :
                From(prog, f, st + 1, r)
                  = From(prog, f, (IF At(f, "LdByteAbs", k) = p THEN resolve(jt, st, span, next) ELSE next) + 1, q)
<1>1. IF f.len < 14
      THEN From(prog, f, st + 1, r) = 0
      ELSE \E q \in Registers :
             From(prog, f, st + 1, r)
               = From(prog, f, (IF SeenType(f) = t THEN resolve(2, st, span, next) ELSE next) + 1, q)
  <2>1. 2 <= Len(b)  BY DEF Lay, Fit, Begins
  <2> QED  BY <2>1, TypeLook DEF Begins
<1>2. resolve(2, st, span, next) + 1 = st + 3
  <2>0. st \in Nat  BY DEF Lay, Lies
  <2>1. resolve(2, st, span, next) = st + 2  BY DEF resolve, targetAccept, targetNext
  <2> QED  BY <2>0, <2>1
<1>3. CASE f.len < 14  BY <1>1, <1>3
<1>4. CASE ~(f.len < 14)
  <2>1. PICK q \in Registers :
          From(prog, f, st + 1, r)
            = From(prog, f, (IF SeenType(f) = t THEN resolve(2, st, span, next) ELSE next) + 1, q)
    BY <1>1, <1>4
  <2>2. IF f.len <= k
        THEN From(prog, f, st + 3, q) = 0
        ELSE \E w \in Registers :
               From(prog, f, st + 3, q)
                 = From(prog, f, (IF At(f, "LdByteAbs", k) = p THEN resolve(jt, st, span, next) ELSE next) + 1, w)
    BY ProtoLook DEF Begins
  <2>3. CASE SeenType(f) # t  BY <1>4, <2>1, <2>3
  <2>4. CASE SeenType(f) = t
    <3>1. From(prog, f, st + 1, r) = From(prog, f, st + 3, q)  BY <1>2, <2>1, <2>4
    <3> QED  BY <1>4, <2>2, <2>4, <3>1
  <2> QED  BY <2>3, <2>4
<1> QED  BY <1>3, <1>4

\* A protocol of IPv4, whatever the ports.
LEMMA ProtoBlock4 ==
  ASSUME NEW prog, NEW b, NEW st, NEW span, NEW next, Lay(prog, b, st, span, next),
         NEW p, p # 0, Begins(b, TypeIPv4, 23, p, targetAccept),
         NEW f, Typed(f), NEW r \in Registers
  PROVE  Outcome(prog, next, Rule(TypeIPv4, p, 0), f, st + 1, r)
<1> DEFINE rule == Rule(TypeIPv4, p, 0)
<1>1. IF f.len < 14 THEN From(prog, f, st + 1, r) = 0
      ELSE IF SeenType(f) # TypeIPv4
      THEN \E q \in Registers : From(prog, f, st + 1, r) = From(prog, f, next + 1, q)
      ELSE IF f.len <= 23 THEN From(prog, f, st + 1, r) = 0
      ELSE \E q \in Registers :
             From(prog, f, st + 1, r)
               = From(prog, f, (IF At(f, "LdByteAbs", 23) = p THEN resolve(targetAccept, st, span, next) ELSE next) + 1, q)
  BY HeadLook
<1>2. resolve(targetAccept, st, span, next) = span  BY Targets
<1>3. \A q \in Registers : From(prog, f, span + 1, q) = AcceptLength  BY AcceptDoes
<1>4. /\ f.len \in Nat
      /\ SeenType(f) = TypeIPv4 => ~f.ext
  BY Seen
<1>5. SeenType(f) # TypeIPv4 => ~Matches(rule, f)  BY TypesDiffer DEF Matches, Rule
<1>6. ASSUME SeenType(f) = TypeIPv4
      PROVE  /\ At(f, "LdByteAbs", 23) = f.proto
             /\ f.len >= 14 => (Matches(rule, f) <=> f.len > 23 /\ p = f.proto)
             /\ f.len <= 23 => Runt(f)
  <2>1. At(f, "LdByteAbs", 23) = f.proto  BY <1>6, Found
  <2>2. ProtoOffset(f) = 23  BY <1>6 DEF ProtoOffset
  <2>3. f.len >= 14 => (Matches(rule, f) <=> f.len > 23 /\ p = f.proto)
    BY <1>4, <1>6, <2>2 DEF Matches, Rule
  <2>4. f.len <= 23 => Runt(f)  BY <1>6, <2>2 DEF Runt
  <2> QED  BY <2>1, <2>3, <2>4
<1> SUFFICES Outcome(prog, next, rule, f, st + 1, r)
  OBVIOUS
<1> HIDE DEF rule
<1>7. CASE f.len < 14  BY <1>1, <1>7 DEF Outcome
<1>8. CASE ~(f.len < 14) /\ SeenType(f) # TypeIPv4  BY <1>1, <1>5, <1>8 DEF Outcome
<1>9. CASE ~(f.len < 14) /\ SeenType(f) = TypeIPv4 /\ f.len <= 23  BY <1>1, <1>6, <1>9 DEF Outcome
<1>10. CASE ~(f.len < 14) /\ SeenType(f) = TypeIPv4 /\ ~(f.len <= 23)
  <2>1. PICK q \in Registers :
          From(prog, f, st + 1, r) = From(prog, f, (IF f.proto = p THEN span ELSE next) + 1, q)
    BY <1>1, <1>2, <1>6, <1>10
  <2>2. CASE f.proto = p
    <3>1. From(prog, f, st + 1, r) = AcceptLength  BY <1>3, <2>1, <2>2
    <3>2. Matches(rule, f)  BY <1>4, <1>6, <1>10, <2>2
    <3> QED  BY <3>1, <3>2 DEF Outcome
  <2>3. CASE f.proto # p
    <3>1. ~Matches(rule, f)  BY <1>4, <1>6, <1>10, <2>3
    <3> QED  BY <2>1, <2>3, <3>1 DEF Outcome
  <2> QED  BY <2>2, <2>3
<1> QED  BY <1>7, <1>8, <1>9, <1>10

\* A protocol of IPv6, which is not that of an extension header.
LEMMA ProtoBlock6 ==
  ASSUME NEW prog, NEW b, NEW st, NEW span, NEW next, Lay(prog, b, st, span, next),
         NEW p, p \notin {0, DestOpts}, Begins(b, TypeIPv6, 20, p, targetAccept),
         NEW f, Typed(f), NEW r \in Registers
  PROVE  Outcome(prog, next, Rule(TypeIPv6, p, 0), f, st + 1, r)
<1> DEFINE rule == Rule(TypeIPv6, p, 0)
<1>1. IF f.len < 14 THEN From(prog, f, st + 1, r) = 0
      ELSE IF SeenType(f) # TypeIPv6
      THEN \E q \in Registers : From(prog, f, st + 1, r) = From(prog, f, next + 1, q)
      ELSE IF f.len <= 20 THEN From(prog, f, st + 1, r) = 0
      ELSE \E q \in Registers :
             From(prog, f, st + 1, r)
               = From(prog, f, (IF At(f, "LdByteAbs", 20) = p THEN resolve(targetAccept, st, span, next) ELSE next) + 1, q)
  BY HeadLook
<1>2. resolve(targetAccept, st, span, next) = span  BY Targets
<1>3. \A q \in Registers : From(prog, f, span + 1, q) = AcceptLength  BY AcceptDoes
<1>4. f.len \in Nat  BY Seen
<1>5. SeenType(f) # TypeIPv6 => ~Matches(rule, f)  BY TypesDiffer DEF Matches, Rule
<1>6. ASSUME SeenType(f) = TypeIPv6
      PROVE  /\ At(f, "LdByteAbs", 20) = p <=> ~f.ext /\ p = f.proto
             /\ f.len >= 14 => (Matches(rule, f) <=> f.len > 20 /\ ~f.ext /\ p = f.proto)
             /\ f.len <= 20 => Runt(f)
  <2>1. At(f, "LdByteAbs", 20) = IF f.ext THEN DestOpts ELSE f.proto  BY <1>6, Found
  <2>2. ProtoOffset(f) = 20  BY <1>6, TypesDiffer DEF ProtoOffset
  <2>3. f.len >= 14 => (Matches(rule, f) <=> f.len > 20 /\ ~f.ext /\ p = f.proto)
    BY <1>4, <1>6, <2>2 DEF Matches, Rule
  <2>4. f.len <= 20 => Runt(f)  BY <1>6, <2>2 DEF Runt
  <2> QED  BY <2>1, <2>3, <2>4
<1> SUFFICES Outcome(prog, next, rule, f, st + 1, r)
  OBVIOUS
<1> HIDE DEF rule
<1>7. CASE f.len < 14  BY <1>1, <1>7 DEF Outcome
<1>8. CASE ~(f.len < 14) /\ SeenType(f) # TypeIPv6  BY <1>1, <1>5, <1>8 DEF Outcome
<1>9. CASE ~(f.len < 14) /\ SeenType(f) = TypeIPv6 /\ f.len <= 20  BY <1>1, <1>6, <1>9 DEF Outcome
<1>10. CASE ~(f.len < 14) /\ SeenType(f) = TypeIPv6 /\ ~(f.len <= 20)
  <2>1. PICK q \in Registers :
          From(prog, f, st + 1, r)
            = From(prog, f, (IF At(f, "LdByteAbs", 20) = p THEN span ELSE next) + 1, q)
    BY <1>1, <1>2, <1>10
  <2>2. CASE At(f, "LdByteAbs", 20) = p
    <3>1. From(prog, f, st + 1, r) = AcceptLength  BY <1>3, <2>1, <2>2
    <3>2. Matches(rule, f)  BY <1>4, <1>6, <1>10, <2>2
    <3> QED  BY <3>1, <3>2 DEF Outcome
  <2>3. CASE At(f, "LdByteAbs", 20) # p
    <3>1. ~Matches(rule, f)  BY <1>4, <1>6, <1>10, <2>3
    <3> QED  BY <2>1, <2>3, <3>1 DEF Outcome
  <2> QED  BY <2>2, <2>3
<1> QED  BY <1>7, <1>8, <1>9, <1>10

\* The ports of a packet that is not a later fragment.
Ports(b, port) ==
  /\ Len(b) = 11
  /\ b[5] = Load("LdHalfAbs", 20) /\ b[6] = Jump("JsetK", ipv4FragMask, targetNext, 6)
  /\ b[7] = Load("LdxMshByte", 14)
  /\ b[8] = Load("LdHalfInd", 14) /\ b[9] = Jump("JeqK", port, targetAccept, 9)
  /\ b[10] = Load("LdHalfInd", 16) /\ b[11] = Jump("JeqK", port, targetAccept, targetNext)

\* The part of a block from j on looks at what is at k, and jumps as i says.
Looks(b, j, c, k, i, r) ==
  /\ j \in Nat /\ j \in 1..Len(b) /\ j + 1 \in 1..Len(b) /\ k \in Nat
  /\ b[j].code = c /\ c \in {"LdHalfAbs", "LdByteAbs", "LdHalfInd"}
  /\ b[j + 1] = i /\ i.code \in Jumps /\ Place(b[j], r) = k

\* A load at j, the jump behind it, and where they lead.
Looked(prog, b, st, span, next, j, c, k, i, f, r) ==
  IF k + Width(c) > f.len
  THEN From(prog, f, st + j, r) = 0
  ELSE \E q \in Registers :
         /\ q.x = r.x
         /\ From(prog, f, st + j, r)
              = From(prog, f, resolve(IF Test(i, At(f, c, k)) THEN i.jt ELSE i.jf, st, span, next) + 1, q)

\* They do what they say.
LEMMA LooksDoes ==
  ASSUME NEW prog, NEW b, NEW st, NEW span, NEW next, Lay(prog, b, st, span, next),
         NEW j, NEW c, NEW k, NEW i, NEW f, Typed(f), NEW r \in Registers, Looks(b, j, c, k, i, r)
  PROVE  Looked(prog, b, st, span, next, j, c, k, i, f, r)
<1>1. /\ j \in Nat /\ j \in 1..Len(b) /\ j + 1 \in 1..Len(b) /\ k \in Nat
      /\ b[j].code \in {"LdHalfAbs", "LdByteAbs", "LdHalfInd"} /\ b[j].code \notin Jumps /\ b[j].code = c
      /\ b[j + 1] = i /\ i.code \in Jumps /\ Place(b[j], r) = k
  BY DEF Looks, Jumps
<1>2. IF k + Width(b[j].code) > f.len
      THEN From(prog, f, st + j, r) = 0
      ELSE LET w == At(f, b[j].code, k) IN
             \E q \in Registers :
               /\ q.a = w /\ q.x = r.x
               /\ From(prog, f, st + j, r)
                    = From(prog, f, resolve(IF Test(i, w) THEN i.jt ELSE i.jf, st, span, next) + 1, q)
  BY <1>1, Look
<1> QED  BY <1>1, <1>2 DEF Looked

\* The fragment's offset.
LEMMA OffsetLook ==
  ASSUME NEW prog, NEW b, NEW st, NEW span, NEW next, Lay(prog, b, st, span, next),
         NEW port, Ports(b, port), NEW f, Typed(f), SeenType(f) = TypeIPv4, f.len > 23, NEW r \in Registers
  PROVE  \E q \in Registers :
           From(prog, f, st + 5, r) = From(prog, f, IF Offset(f) # 0 THEN next + 1 ELSE st + 7, q)
<1> DEFINE i == Jump("JsetK", ipv4FragMask, targetNext, 6)
<1>1. i.code = "JsetK" /\ i.k = ipv4FragMask /\ i.jt = targetNext /\ i.jf = 6 /\ i.code \in Jumps
  BY JumpIs DEF Jumps
<1> HIDE DEF i
<1>2. Looks(b, 5, "LdHalfAbs", 20, i, r)
  <2>1. b[5].code = "LdHalfAbs" /\ b[5].k = 20 /\ b[6] = i  BY LoadIs DEF Ports, i
  <2> QED  BY <1>1, <2>1 DEF Looks, Place, Ports
<1>3. At(f, "LdHalfAbs", 20) = f.frag /\ f.len \in Nat  BY Found, Seen
<1>4. Test(i, f.frag) <=> Offset(f) # 0  BY <1>1 DEF Test, Offset
<1>5. Looked(prog, b, st, span, next, 5, "LdHalfAbs", 20, i, f, r)  BY <1>2, LooksDoes
<1>6. ~(20 + Width("LdHalfAbs") > f.len)  BY <1>3 DEF Width
<1>7. PICK q \in Registers :
        From(prog, f, st + 5, r)
          = From(prog, f, resolve(IF Test(i, f.frag) THEN i.jt ELSE i.jf, st, span, next) + 1, q)
  BY <1>3, <1>5, <1>6 DEF Looked
<1>8. st \in Nat /\ resolve(targetNext, st, span, next) = next  BY Targets DEF Lay, Lies
<1>9. resolve(6, st, span, next) = st + 6  BY DEF resolve, targetAccept, targetNext
<1>10. resolve(6, st, span, next) + 1 = st + 7  BY <1>8, <1>9
<1> QED  BY <1>1, <1>4, <1>7, <1>8, <1>10

\* Where the ports are.
LEMMA HeaderLook ==
  ASSUME NEW prog, NEW b, NEW st, NEW span, NEW next, Lay(prog, b, st, span, next),
         NEW port, Ports(b, port), NEW f, Typed(f), f.len > 23, NEW r \in Registers
  PROVE  \E q \in Registers : q.x = f.hl /\ From(prog, f, st + 7, r) = From(prog, f, st + 8, q)
<1>1. b[7].code = "LdxMshByte" /\ b[7].k = 14 /\ 7 \in 1..Len(b)  BY LoadIs DEF Ports
<1>2. b[7].code \notin Jumps  BY <1>1 DEF Jumps
<1>3. From(prog, f, st + 7, r) =
        IF Place(b[7], r) + Width(b[7].code) > f.len THEN 0
        ELSE From(prog, f, st + 7 + 1, Loaded(b[7], r, f))
  BY <1>1, <1>2, LoadDoes
<1>4. Place(b[7], r) = 14 /\ Width(b[7].code) = 1  BY <1>1 DEF Place, Width
<1>5. f.len \in Nat /\ f.hl \in Nat /\ st \in Nat  BY Seen DEF Lay, Lies
<1>6. From(prog, f, st + 7, r) = From(prog, f, st + 7 + 1, Loaded(b[7], r, f))  BY <1>3, <1>4, <1>5
<1>7. st + 7 + 1 = st + 8  BY <1>5
<1>8. Loaded(b[7], r, f) \in Registers /\ Loaded(b[7], r, f).x = f.hl  BY <1>1, <1>5 DEF Loaded, Registers
<1> QED  BY <1>6, <1>7, <1>8

\* A port, at n after the Ethernet header.
PortAt(b, j, n, port, jf) ==
  /\ j \in Nat /\ j \in 1..Len(b) /\ j + 1 \in 1..Len(b) /\ n \in Nat
  /\ b[j] = Load("LdHalfInd", n) /\ b[j + 1] = Jump("JeqK", port, targetAccept, jf)

\* They compare a port.
LEMMA PortLook ==
  ASSUME NEW prog, NEW b, NEW st, NEW span, NEW next, Lay(prog, b, st, span, next),
         NEW port, NEW j, NEW n, NEW jf, PortAt(b, j, n, port, jf),
         NEW f, Typed(f), NEW r \in Registers, r.x = f.hl
  PROVE  IF f.hl + n + 2 > f.len
         THEN From(prog, f, st + j, r) = 0
         ELSE \E q \in Registers :
                /\ q.x = f.hl
                /\ From(prog, f, st + j, r)
                     = From(prog, f, (IF At(f, "LdHalfInd", f.hl + n) = port THEN span
                                      ELSE resolve(jf, st, span, next)) + 1, q)
<1> DEFINE i == Jump("JeqK", port, targetAccept, jf)
           v == At(f, "LdHalfInd", f.hl + n)
<1>1. i.code = "JeqK" /\ i.k = port /\ i.jt = targetAccept /\ i.jf = jf /\ i.code \in Jumps
  BY JumpIs DEF Jumps
<1>2. b[j + 1] = i /\ n \in Nat  BY DEF PortAt
<1> HIDE DEF i, v
<1>3. f.hl \in Nat  BY Seen
<1>4. b[j].code = "LdHalfInd" /\ b[j].k = n  BY LoadIs DEF PortAt
<1>5. Place(b[j], r) = f.hl + n /\ f.hl + n \in Nat  BY <1>2, <1>3, <1>4 DEF Place
<1>6. Looks(b, j, "LdHalfInd", f.hl + n, i, r)  BY <1>1, <1>2, <1>4, <1>5 DEF Looks, PortAt
<1>7. Looked(prog, b, st, span, next, j, "LdHalfInd", f.hl + n, i, f, r)  BY <1>6, LooksDoes
<1>8. Width("LdHalfInd") = 2  BY DEF Width
<1>9. Test(i, v) <=> v = port  BY <1>1 DEF Test
<1>10. resolve(targetAccept, st, span, next) = span  BY Targets
<1> QED  BY <1>1, <1>7, <1>8, <1>9, <1>10 DEF v, Looked

\* The ports, of a packet that has them.
LEMMA PortsLook ==
  ASSUME NEW prog, NEW b, NEW st, NEW span, NEW next, Lay(prog, b, st, span, next),
         NEW port, Ports(b, port), NEW f, Typed(f), SeenType(f) = TypeIPv4, f.len > 23, Offset(f) = 0,
         NEW r \in Registers
  PROVE  \/ From(prog, f, st + 7, r) = AcceptLength /\ HasPort(f, port)
         \/ From(prog, f, st + 7, r) = 0 /\ Runt(f)
         \/ ~HasPort(f, port) /\ \E q \in Registers : From(prog, f, st + 7, r) = From(prog, f, next + 1, q)
<1>1. /\ f.len \in Nat /\ f.hl \in Nat /\ f.src \in Nat /\ f.dst \in Nat /\ st \in Nat
      /\ Len(b) = 11
      /\ b[8] = Load("LdHalfInd", 14) /\ b[8 + 1] = Jump("JeqK", port, targetAccept, 9)
      /\ b[10] = Load("LdHalfInd", 16) /\ b[10 + 1] = Jump("JeqK", port, targetAccept, targetNext)
  BY Seen DEF Lay, Lies, Ports
<1>2. \A q \in Registers : From(prog, f, span + 1, q) = AcceptLength  BY AcceptDoes
<1>3. At(f, "LdHalfInd", f.hl + 14) = f.src /\ At(f, "LdHalfInd", f.hl + 16) = f.dst  BY Found
<1>4. f.len < 18 + f.hl => Runt(f)  BY DEF Runt
<1>5. HasPort(f, port) <=> \/ port = f.src /\ 16 + f.hl <= f.len
                           \/ port = f.dst /\ 18 + f.hl <= f.len
  BY DEF HasPort
<1>6. PICK q \in Registers : q.x = f.hl /\ From(prog, f, st + 7, r) = From(prog, f, st + 8, q)
  BY HeaderLook
<1>7. IF f.hl + 14 + 2 > f.len
      THEN From(prog, f, st + 8, q) = 0
      ELSE \E w \in Registers :
             /\ w.x = f.hl
             /\ From(prog, f, st + 8, q)
                  = From(prog, f, (IF At(f, "LdHalfInd", f.hl + 14) = port THEN span
                                   ELSE resolve(9, st, span, next)) + 1, w)
  <2>1. PortAt(b, 8, 14, port, 9)  BY <1>1 DEF PortAt
  <2> QED  BY <1>6, <2>1, PortLook
<1>8. resolve(9, st, span, next) + 1 = st + 10
  <2>1. resolve(9, st, span, next) = st + 9  BY DEF resolve, targetAccept, targetNext
  <2> QED  BY <1>1, <2>1
<1>9. CASE f.hl + 14 + 2 > f.len
  <2>1. From(prog, f, st + 7, r) = 0  BY <1>6, <1>7, <1>9
  <2>2. Runt(f)  BY <1>1, <1>4, <1>9
  <2> QED  BY <2>1, <2>2
<1>10. CASE ~(f.hl + 14 + 2 > f.len)
  <2>1. PICK w \in Registers :
          /\ w.x = f.hl
          /\ From(prog, f, st + 8, q) = From(prog, f, IF f.src = port THEN span + 1 ELSE st + 10, w)
    BY <1>3, <1>7, <1>8, <1>10
  <2>2. CASE f.src = port
    <3>1. From(prog, f, st + 7, r) = AcceptLength  BY <1>2, <1>6, <2>1, <2>2
    <3>2. HasPort(f, port)  BY <1>1, <1>5, <1>10, <2>2
    <3> QED  BY <3>1, <3>2
  <2>3. CASE f.src # port
    <3>1. From(prog, f, st + 7, r) = From(prog, f, st + 10, w)  BY <1>6, <2>1, <2>3
    <3>2. IF f.hl + 16 + 2 > f.len
          THEN From(prog, f, st + 10, w) = 0
          ELSE \E u \in Registers :
                 /\ u.x = f.hl
                 /\ From(prog, f, st + 10, w)
                      = From(prog, f, (IF At(f, "LdHalfInd", f.hl + 16) = port THEN span
                                       ELSE resolve(targetNext, st, span, next)) + 1, u)
      <4>1. PortAt(b, 10, 16, port, targetNext)  BY <1>1 DEF PortAt
      <4> QED  BY <2>1, <4>1, PortLook
    <3>3. resolve(targetNext, st, span, next) = next  BY Targets
    <3>4. CASE f.hl + 16 + 2 > f.len
      <4>1. Runt(f)  BY <1>1, <1>4, <3>4
      <4> QED  BY <3>1, <3>2, <3>4, <4>1
    <3>5. CASE ~(f.hl + 16 + 2 > f.len)
      <4>1. PICK u \in Registers :
              From(prog, f, st + 10, w) = From(prog, f, IF f.dst = port THEN span + 1 ELSE next + 1, u)
        BY <1>3, <3>2, <3>3, <3>5
      <4>2. CASE f.dst = port
        <5>1. From(prog, f, st + 7, r) = AcceptLength  BY <1>2, <3>1, <4>1, <4>2
        <5>2. HasPort(f, port)  BY <1>1, <1>5, <3>5, <4>2
        <5> QED  BY <5>1, <5>2
      <4>3. CASE f.dst # port
        <5>1. ~HasPort(f, port)  BY <1>5, <2>3, <4>3
        <5> QED  BY <3>1, <4>1, <4>3, <5>1
      <4> QED  BY <4>2, <4>3
    <3> QED  BY <3>4, <3>5
  <2> QED  BY <2>2, <2>3
<1> QED  BY <1>9, <1>10

\* A port of a protocol of IPv4.
LEMMA PortBlock ==
  ASSUME NEW prog, NEW b, NEW st, NEW span, NEW next, Lay(prog, b, st, span, next),
         NEW p, p # 0, Begins(b, TypeIPv4, 23, p, 4), NEW port, port # 0, Ports(b, port),
         NEW f, Typed(f), NEW r \in Registers
  PROVE  Outcome(prog, next, Rule(TypeIPv4, p, port), f, st + 1, r)
<1> DEFINE rule == Rule(TypeIPv4, p, port)
<1>1. IF f.len < 14 THEN From(prog, f, st + 1, r) = 0
      ELSE IF SeenType(f) # TypeIPv4
      THEN \E q \in Registers : From(prog, f, st + 1, r) = From(prog, f, next + 1, q)
      ELSE IF f.len <= 23 THEN From(prog, f, st + 1, r) = 0
      ELSE \E q \in Registers :
             From(prog, f, st + 1, r)
               = From(prog, f, (IF At(f, "LdByteAbs", 23) = p THEN resolve(4, st, span, next) ELSE next) + 1, q)
  BY HeadLook
<1>2. resolve(4, st, span, next) + 1 = st + 5
  <2>0. st \in Nat  BY DEF Lay, Lies
  <2>1. resolve(4, st, span, next) = st + 4  BY DEF resolve, targetAccept, targetNext
  <2> QED  BY <2>0, <2>1
<1>4. /\ f.len \in Nat
      /\ SeenType(f) = TypeIPv4 => ~f.ext
  BY Seen
<1>5. SeenType(f) # TypeIPv4 => ~Matches(rule, f)  BY TypesDiffer DEF Matches, Rule
<1>6. ASSUME SeenType(f) = TypeIPv4
      PROVE  /\ At(f, "LdByteAbs", 23) = f.proto
             /\ f.len >= 14 => (Matches(rule, f) <=> f.len > 23 /\ p = f.proto /\ HasPort(f, port))
             /\ f.len <= 23 => Runt(f)
  <2>1. At(f, "LdByteAbs", 23) = f.proto  BY <1>6, Found
  <2>2. ProtoOffset(f) = 23  BY <1>6 DEF ProtoOffset
  <2>3. f.len >= 14 => (Matches(rule, f) <=> f.len > 23 /\ p = f.proto /\ HasPort(f, port))
    BY <1>4, <1>6, <2>2 DEF Matches, Rule
  <2>4. f.len <= 23 => Runt(f)  BY <1>6, <2>2 DEF Runt
  <2> QED  BY <2>1, <2>3, <2>4
<1>7. HasPort(f, port) => Offset(f) = 0  BY DEF HasPort
<1> SUFFICES Outcome(prog, next, rule, f, st + 1, r)
  OBVIOUS
<1> HIDE DEF rule
<1>8. CASE f.len < 14  BY <1>1, <1>8 DEF Outcome
<1>9. CASE ~(f.len < 14) /\ SeenType(f) # TypeIPv4  BY <1>1, <1>5, <1>9 DEF Outcome
<1>10. CASE ~(f.len < 14) /\ SeenType(f) = TypeIPv4 /\ f.len <= 23  BY <1>1, <1>6, <1>10 DEF Outcome
<1>11. CASE ~(f.len < 14) /\ SeenType(f) = TypeIPv4 /\ ~(f.len <= 23)
  <2>0. f.len >= 14 /\ f.len > 23  BY <1>4, <1>11
  <2>1. PICK q \in Registers :
          From(prog, f, st + 1, r) = From(prog, f, IF f.proto = p THEN st + 5 ELSE next + 1, q)
    BY <1>1, <1>2, <1>6, <1>11
  <2>2. CASE f.proto # p
    <3>1. ~Matches(rule, f)  BY <1>6, <1>11, <2>0, <2>2
    <3> QED  BY <2>1, <2>2, <3>1 DEF Outcome
  <2>3. CASE f.proto = p
    <3>1. Matches(rule, f) <=> HasPort(f, port)  BY <1>6, <1>11, <2>0, <2>3
    <3>2. PICK w \in Registers :
            From(prog, f, st + 5, q) = From(prog, f, IF Offset(f) # 0 THEN next + 1 ELSE st + 7, w)
      BY <1>11, <2>0, OffsetLook
    <3>3. CASE Offset(f) # 0
      <4>1. ~Matches(rule, f)  BY <1>7, <3>1, <3>3
      <4> QED  BY <2>1, <2>3, <3>2, <3>3, <4>1 DEF Outcome
    <3>4. CASE Offset(f) = 0
      <4>1. From(prog, f, st + 1, r) = From(prog, f, st + 7, w)  BY <2>1, <2>3, <3>2, <3>4
      <4>2. \/ From(prog, f, st + 7, w) = AcceptLength /\ HasPort(f, port)
            \/ From(prog, f, st + 7, w) = 0 /\ Runt(f)
            \/ ~HasPort(f, port) /\ \E u \in Registers : From(prog, f, st + 7, w) = From(prog, f, next + 1, u)
        BY <1>11, <2>0, <3>4, PortsLook
      <4> QED  BY <3>1, <4>1, <4>2 DEF Outcome
    <3> QED  BY <3>3, <3>4
  <2> QED  BY <2>2, <2>3
<1> QED  BY <1>8, <1>9, <1>10, <1>11

\* The rules that filterFor makes: a type, a protocol, or a port of one.
FilterRule(r) ==
  \/ \E t \in {TypeIPv4, TypeIPv6, TypeARP, TypeLLDP} : r = Rule(t, 0, 0)
  \/ \E p \in Nat \ {0} : r = Rule(TypeIPv4, p, 0)
  \/ \E p \in Nat \ {0}, q \in Nat \ {0} : r = Rule(TypeIPv4, p, q)
  \/ \E p \in Nat \ {0, DestOpts} : r = Rule(TypeIPv6, p, 0)

\* The block of a rule, which is of one family.
BlockOf(r) ==
  IF r.ipProto = 0 THEN EtherIs(r.etherType, targetAccept)
  ELSE IF r.etherType = TypeIPv4 THEN ipv4Block(r) ELSE ipv6Block(r)

\* Instruction i can be the j-th of a block of n.
Fits(i, j, n) ==
  /\ i \in Instr
  /\ i.code \in Jumps => {i.jt, i.jf} \subseteq {targetAccept, targetNext} \cup j..n
  /\ i.code \notin Jumps => i.jt = 0 /\ i.jf = 0 /\ i.code # "RetK"

\* Loads and jumps that do, and a block of nothing else.
LEMMA LoadFits ==
  ASSUME NEW c, c \in {"LdHalfAbs", "LdByteAbs", "LdHalfInd", "LdxMshByte"}, NEW k \in Nat, NEW j, NEW n
  PROVE  Load(c, k) \in Instr /\ Fits(Load(c, k), j, n)
<1>1. c \notin Jumps /\ c # "RetK" /\ c \in Codes  BY DEF Jumps, Codes
<1>2. Load(c, k) \in Instr  BY <1>1 DEF Load, Instr
<1> QED  BY <1>1, <1>2, LoadIs DEF Fits

LEMMA JumpFits ==
  ASSUME NEW c \in Jumps, NEW k \in Nat, NEW j \in Nat, NEW n \in Nat, NEW t, NEW u,
         {t, u} \subseteq {targetAccept, targetNext} \cup j..n
  PROVE  Jump(c, k, t, u) \in Instr /\ Fits(Jump(c, k, t, u), j, n)
<1>1. t \in Int /\ u \in Int  BY DEF targetAccept, targetNext
<1>2. Jump(c, k, t, u) \in Instr  BY <1>1 DEF Jump, Instr, Codes
<1> QED  BY <1>2, JumpIs DEF Fits

LEMMA AllFit ==
  ASSUME NEW b \in Seq(Instr), \A j \in 1..Len(b) : Fits(b[j], j, Len(b))
  PROVE  Fit(b)
BY DEF Fit, Fits

\* The instructions of a check of the type.
LEMMA EtherBlock ==
  ASSUME NEW t \in Nat, NEW jt, jt \in {targetAccept, 2}, NEW b, b = EtherIs(t, jt)
  PROVE  /\ b \in Seq(Instr) /\ Len(b) = 2
         /\ b[1] = Load("LdHalfAbs", 12) /\ b[2] = Jump("JeqK", t, jt, targetNext)
         /\ \A n \in Nat : n >= 2 => Fits(b[1], 1, n) /\ Fits(b[2], 2, n)
<1> DEFINE i == Load("LdHalfAbs", 12)
           j == Jump("JeqK", t, jt, targetNext)
<1>1. \A n : i \in Instr /\ Fits(i, 1, n)  BY LoadFits
<1>2. ASSUME NEW n \in Nat, n >= 2  PROVE j \in Instr /\ Fits(j, 2, n)
  <2>1. "JeqK" \in Jumps  BY DEF Jumps
  <2>2. {jt, targetNext} \subseteq {targetAccept, targetNext} \cup 2..n  BY <1>2
  <2> QED  BY <1>2, <2>1, <2>2, JumpFits
<1>3. b = <<i, j>>  BY DEF EtherIs
<1>4. i \in Instr /\ j \in Instr  BY <1>1, <1>2
<1> HIDE DEF i, j
<1>5. b \in Seq(Instr) /\ Len(b) = 2 /\ b[1] = i /\ b[2] = j  BY <1>3, <1>4
<1> QED  BY <1>1, <1>2, <1>5 DEF i, j

\* The head of a block for a protocol.
Head4(t, k, p, jt) == EtherIs(t, 2) \o <<Load("LdByteAbs", k), Jump("JeqK", p, jt, targetNext)>>

\* The instructions of the head.
LEMMA HeadBlock ==
  ASSUME NEW t \in Nat, NEW k \in Nat, NEW p \in Nat, NEW jt, jt \in {targetAccept, 4},
         NEW b, b = Head4(t, k, p, jt)
  PROVE  /\ b \in Seq(Instr) /\ Len(b) = 4 /\ Begins(b, t, k, p, jt)
         /\ \A n \in Nat : n >= 4 => \A j \in 1..4 : Fits(b[j], j, n)
<1> DEFINE s == EtherIs(t, 2)
           i == Load("LdByteAbs", k)
           j == Jump("JeqK", p, jt, targetNext)
           u == <<i, j>>
<1>1. /\ s \in Seq(Instr) /\ Len(s) = 2
      /\ s[1] = Load("LdHalfAbs", 12) /\ s[2] = Jump("JeqK", t, 2, targetNext)
      /\ \A n \in Nat : n >= 2 => Fits(s[1], 1, n) /\ Fits(s[2], 2, n)
  BY EtherBlock
<1>2. \A n : i \in Instr /\ Fits(i, 3, n)  BY LoadFits
<1>3. ASSUME NEW n \in Nat, n >= 4  PROVE j \in Instr /\ Fits(j, 4, n)
  <2>1. "JeqK" \in Jumps  BY DEF Jumps
  <2>2. {jt, targetNext} \subseteq {targetAccept, targetNext} \cup 4..n  BY <1>3
  <2> QED  BY <1>3, <2>1, <2>2, JumpFits
<1>4. i \in Instr /\ j \in Instr  BY <1>2, <1>3
<1>5. b = s \o u  BY DEF Head4
<1> HIDE DEF s, i, j
<1>6. u \in Seq(Instr) /\ Len(u) = 2 /\ u[1] = i /\ u[2] = j  BY <1>4
<1> HIDE DEF u
<1>7. /\ s \o u \in Seq(Instr) /\ Len(s \o u) = Len(s) + Len(u)
      /\ \A q \in 1..Len(s) : (s \o u)[q] = s[q]
      /\ \A q \in 1..Len(u) : (s \o u)[Len(s) + q] = u[q]
  <2>1. s \in Seq(Instr) /\ u \in Seq(Instr)  BY <1>1, <1>6
  <2> QED  BY <2>1, JoinedAt
<1>8. /\ b \in Seq(Instr) /\ Len(b) = 4
      /\ b[1] = s[1] /\ b[2] = s[2] /\ b[3] = i /\ b[4] = j
  <2>1. Len(s) = 2 /\ Len(u) = 2  BY <1>1, <1>6
  <2>2. b[1] = s[1] /\ b[2] = s[2]  BY <1>5, <1>7, <2>1
  <2>3. b[2 + 1] = u[1] /\ b[2 + 2] = u[2]  BY <1>5, <1>7, <2>1
  <2>4. b \in Seq(Instr) /\ Len(b) = 4
    <3>1. s \o u \in Seq(Instr) /\ Len(s \o u) = Len(s) + Len(u)  BY <1>7
    <3>2. Len(s) + Len(u) = 4  BY <2>1
    <3> QED  BY <1>5, <3>1, <3>2, Zenon
  <2>5. 2 + 1 = 3 /\ 2 + 2 = 4 /\ u[1] = i /\ u[2] = j  BY <1>6
  <2> QED  BY <2>2, <2>3, <2>4, <2>5
<1>9. Begins(b, t, k, p, jt)  BY <1>1, <1>8 DEF Begins, i, j
<1>10. ASSUME NEW n \in Nat, n >= 4, NEW m \in 1..4  PROVE Fits(b[m], m, n)
  <2>1. m = 1 \/ m = 2 \/ m = 3 \/ m = 4  OBVIOUS
  <2>2. Fits(b[1], 1, n) /\ Fits(b[2], 2, n)  BY <1>1, <1>8, <1>10
  <2>3. Fits(b[3], 3, n) /\ Fits(b[4], 4, n)  BY <1>2, <1>3, <1>8, <1>10
  <2> QED  BY <2>1, <2>2, <2>3
<1> QED  BY <1>8, <1>9, <1>10

\* A sequence of seven.
LEMMA Seven ==
  ASSUME NEW A, NEW a \in A, NEW b \in A, NEW c \in A, NEW d \in A, NEW e \in A, NEW g \in A, NEW h \in A,
         NEW u, u = <<a, b, c, d, e, g, h>>
  PROVE  u \in Seq(A) /\ Len(u) = 7
OBVIOUS

\* The tail of a block for a port, after four instructions.
LEMMA TailBlock ==
  ASSUME NEW r, r.port \in Nat \ {0}, NEW u, u = PortIs(r, 4)
  PROVE  /\ u \in Seq(Instr) /\ Len(u) = 7
         /\ u[1] = Load("LdHalfAbs", 20) /\ u[2] = Jump("JsetK", ipv4FragMask, targetNext, 6)
         /\ u[3] = Load("LdxMshByte", 14)
         /\ u[4] = Load("LdHalfInd", 14) /\ u[5] = Jump("JeqK", r.port, targetAccept, 9)
         /\ u[6] = Load("LdHalfInd", 16) /\ u[7] = Jump("JeqK", r.port, targetAccept, targetNext)
         /\ \A m \in 1..7 : Fits(u[m], 4 + m, 11)
<1> DEFINE a == Load("LdHalfAbs", 20)
           b == Jump("JsetK", ipv4FragMask, targetNext, 6)
           c == Load("LdxMshByte", 14)
           d == Load("LdHalfInd", 14)
           e == Jump("JeqK", r.port, targetAccept, 9)
           g == Load("LdHalfInd", 16)
           h == Jump("JeqK", r.port, targetAccept, targetNext)
<1>1. u = <<a, b, c, d, e, g, h>>
  <2>1. 4 + 2 = 6 /\ 4 + 5 = 9  OBVIOUS
  <2> QED  BY <2>1 DEF PortIs
<1>2. "JsetK" \in Jumps /\ "JeqK" \in Jumps /\ ipv4FragMask \in Nat  BY DEF Jumps, ipv4FragMask
<1>3. a \in Instr /\ Fits(a, 5, 11)  BY LoadFits
<1>4. b \in Instr /\ Fits(b, 6, 11)
  <2>1. {targetNext, 6} \subseteq {targetAccept, targetNext} \cup 6..11  OBVIOUS
  <2> QED  BY <1>2, <2>1, JumpFits
<1>5. c \in Instr /\ Fits(c, 7, 11)  BY LoadFits
<1>6. d \in Instr /\ Fits(d, 8, 11)  BY LoadFits
<1>7. e \in Instr /\ Fits(e, 9, 11)
  <2>1. {targetAccept, 9} \subseteq {targetAccept, targetNext} \cup 9..11  OBVIOUS
  <2> QED  BY <1>2, <2>1, JumpFits
<1>8. g \in Instr /\ Fits(g, 10, 11)  BY LoadFits
<1>9. h \in Instr /\ Fits(h, 11, 11)
  <2>1. {targetAccept, targetNext} \subseteq {targetAccept, targetNext} \cup 11..11  OBVIOUS
  <2> QED  BY <1>2, <2>1, JumpFits
<1> HIDE DEF a, b, c, d, e, g, h
<1>10. u \in Seq(Instr) /\ Len(u) = 7
  <2>1. /\ a \in Instr /\ b \in Instr /\ c \in Instr /\ d \in Instr
        /\ e \in Instr /\ g \in Instr /\ h \in Instr
    BY <1>3, <1>4, <1>5, <1>6, <1>7, <1>8, <1>9
  <2> QED  BY <1>1, <2>1, Seven
<1>11. u[1] = a /\ u[2] = b /\ u[3] = c /\ u[4] = d /\ u[5] = e /\ u[6] = g /\ u[7] = h
  BY <1>1
<1>12. ASSUME NEW m \in 1..7  PROVE Fits(u[m], 4 + m, 11)
  <2>1. m = 1 \/ m = 2 \/ m = 3 \/ m = 4 \/ m = 5 \/ m = 6 \/ m = 7  OBVIOUS
  <2>2. 4 + 1 = 5 /\ 4 + 2 = 6 /\ 4 + 3 = 7 /\ 4 + 4 = 8 /\ 4 + 5 = 9 /\ 4 + 6 = 10 /\ 4 + 7 = 11
    OBVIOUS
  <2>3. CASE m = 1  BY <1>3, <1>11, <2>2, <2>3
  <2>4. CASE m = 2  BY <1>4, <1>11, <2>2, <2>4
  <2>5. CASE m = 3  BY <1>5, <1>11, <2>2, <2>5
  <2>6. CASE m = 4  BY <1>6, <1>11, <2>2, <2>6
  <2>7. CASE m = 5  BY <1>7, <1>11, <2>2, <2>7
  <2>8. CASE m = 6  BY <1>8, <1>11, <2>2, <2>8
  <2>9. CASE m = 7  BY <1>9, <1>11, <2>2, <2>9
  <2> QED  BY <2>1, <2>3, <2>4, <2>5, <2>6, <2>7, <2>8, <2>9
<1> QED  BY <1>10, <1>11, <1>12 DEF a, b, c, d, e, g, h

\* The block of a rule with a port.
LEMMA PortBlockIs ==
  ASSUME NEW p \in Nat \ {0}, NEW port \in Nat \ {0}, NEW b, b = BlockOf(Rule(TypeIPv4, p, port))
  PROVE  Begins(b, TypeIPv4, 23, p, 4) /\ Ports(b, port) /\ Fit(b)
<1> DEFINE r == Rule(TypeIPv4, p, port)
           s == Head4(TypeIPv4, 23, p, 4)
           u == PortIs(r, 4)
<1>1. r.ipProto = p /\ r.port = port /\ r.etherType = TypeIPv4 /\ r.port \in Nat \ {0}  BY DEF Rule
<1>2. /\ s \in Seq(Instr) /\ Len(s) = 4 /\ Begins(s, TypeIPv4, 23, p, 4)
      /\ \A n \in Nat : n >= 4 => \A j \in 1..4 : Fits(s[j], j, n)
  <2>1. p \in Nat /\ TypeIPv4 \in Nat /\ 23 \in Nat /\ 4 \in {targetAccept, 4}  BY TypesDiffer
  <2> QED  BY <2>1, HeadBlock
<1> HIDE DEF r
<1>3. /\ u \in Seq(Instr) /\ Len(u) = 7
      /\ u[1] = Load("LdHalfAbs", 20) /\ u[2] = Jump("JsetK", ipv4FragMask, targetNext, 6)
      /\ u[3] = Load("LdxMshByte", 14)
      /\ u[4] = Load("LdHalfInd", 14) /\ u[5] = Jump("JeqK", port, targetAccept, 9)
      /\ u[6] = Load("LdHalfInd", 16) /\ u[7] = Jump("JeqK", port, targetAccept, targetNext)
      /\ \A m \in 1..7 : Fits(u[m], 4 + m, 11)
  BY <1>1, TailBlock
<1>4. b = s \o u
  <2>1. ProtoIs(r, 23, 2) = <<Load("LdByteAbs", 23), Jump("JeqK", p, 4, targetNext)>>
    <3>1. 2 + 2 = 4  OBVIOUS
    <3> QED  BY <1>1, <3>1 DEF ProtoIs
  <2>2. EtherIs(TypeIPv4, 2) \o ProtoIs(r, 23, 2) = s  BY <2>1 DEF Head4
  <2>3. b = ipv4Block(r)  BY <1>1 DEF BlockOf, r
  <2> HIDE DEF s
  <2> QED  BY <1>2, <2>2, <2>3 DEF ipv4Block
<1> HIDE DEF s, u
<1>5. /\ s \o u \in Seq(Instr) /\ Len(s \o u) = Len(s) + Len(u)
      /\ \A q \in 1..Len(s) : (s \o u)[q] = s[q]
      /\ \A q \in 1..Len(u) : (s \o u)[Len(s) + q] = u[q]
  <2>1. s \in Seq(Instr) /\ u \in Seq(Instr)  BY <1>2, <1>3
  <2> QED  BY <2>1, JoinedAt
<1>6. Len(s) = 4 /\ Len(u) = 7  BY <1>2, <1>3
<1>7. b \in Seq(Instr) /\ Len(b) = 11
  <2>1. s \o u \in Seq(Instr) /\ Len(s \o u) = Len(s) + Len(u)  BY <1>5
  <2>2. Len(s) + Len(u) = 11  BY <1>6
  <2> QED  BY <1>4, <2>1, <2>2, Zenon
<1>8. ASSUME NEW m \in 1..4  PROVE b[m] = s[m]
  BY <1>4, <1>5, <1>6
<1>9. ASSUME NEW m \in 1..7  PROVE b[4 + m] = u[m]
  BY <1>4, <1>5, <1>6
<1>10. Begins(b, TypeIPv4, 23, p, 4)
  <2>1. b[1] = s[1] /\ b[2] = s[2] /\ b[3] = s[3] /\ b[4] = s[4]  BY <1>8
  <2> QED  BY <1>2, <1>7, <2>1 DEF Begins
<1>11. Ports(b, port)
  <2>1. /\ b[4 + 1] = u[1] /\ b[4 + 2] = u[2] /\ b[4 + 3] = u[3] /\ b[4 + 4] = u[4]
        /\ b[4 + 5] = u[5] /\ b[4 + 6] = u[6] /\ b[4 + 7] = u[7]
    BY <1>9
  <2>2. 4 + 1 = 5 /\ 4 + 2 = 6 /\ 4 + 3 = 7 /\ 4 + 4 = 8 /\ 4 + 5 = 9 /\ 4 + 6 = 10 /\ 4 + 7 = 11
    OBVIOUS
  <2> QED  BY <1>3, <1>7, <2>1, <2>2 DEF Ports
<1>12. ASSUME NEW j \in 1..11  PROVE Fits(b[j], j, 11)
  <2>1. CASE j \in 1..4  BY <1>2, <1>8, <2>1
  <2>2. CASE j \notin 1..4
    <3>1. j - 4 \in 1..7 /\ 4 + (j - 4) = j  BY <2>2
    <3>2. Fits(u[j - 4], 4 + (j - 4), 11) /\ b[4 + (j - 4)] = u[j - 4]  BY <1>3, <1>9, <3>1
    <3> QED  BY <3>1, <3>2
  <2> QED  BY <2>1, <2>2
<1>13. Fit(b)  BY <1>7, <1>12, AllFit
<1> QED  BY <1>10, <1>11, <1>13

\* Nothing appended.
LEMMA AppendNone == ASSUME NEW s \in Seq(Instr)  PROVE s \o <<>> = s
OBVIOUS

\* A sequence of one.
LEMMA OnlyOne == ASSUME NEW x  PROVE <<x>> \o <<>> = <<x>> /\ <<>> \o <<x>> = <<x>>
OBVIOUS

\* The block of a rule with a type only, and of one with a protocol.
LEMMA TypeBlockIs ==
  ASSUME NEW t, t \in {TypeIPv4, TypeIPv6, TypeARP, TypeLLDP}, NEW b, b = BlockOf(Rule(t, 0, 0))
  PROVE  /\ Len(b) = 2 /\ b[1] = Load("LdHalfAbs", 12) /\ b[2] = Jump("JeqK", t, targetAccept, targetNext)
         /\ Fit(b)
<1>1. t \in Nat /\ targetAccept \in {targetAccept, 2}  BY TypesDiffer
<1>2. b = EtherIs(t, targetAccept)  BY DEF BlockOf, Rule
<1>3. /\ b \in Seq(Instr) /\ Len(b) = 2
      /\ b[1] = Load("LdHalfAbs", 12) /\ b[2] = Jump("JeqK", t, targetAccept, targetNext)
      /\ \A n \in Nat : n >= 2 => Fits(b[1], 1, n) /\ Fits(b[2], 2, n)
  BY <1>1, <1>2, EtherBlock
<1>4. Fits(b[1], 1, 2) /\ Fits(b[2], 2, 2)  BY <1>3
<1>5. \A j \in 1..Len(b) : j = 1 \/ j = 2
  <2>1. Len(b) = 2  BY <1>3
  <2>2. \A j \in 1..2 : j = 1 \/ j = 2  OBVIOUS
  <2> QED  BY <2>1, <2>2
<1>6. \A j \in 1..Len(b) : Fits(b[j], j, Len(b))  BY <1>3, <1>4, <1>5
<1>7. Fit(b)  BY <1>3, <1>6, AllFit
<1> QED  BY <1>3, <1>7

LEMMA ProtoBlockIs ==
  ASSUME NEW p \in Nat \ {0}, NEW t, NEW k, <<t, k>> \in {<<TypeIPv4, 23>>, <<TypeIPv6, 20>>},
         NEW b, b = BlockOf(Rule(t, p, 0))
  PROVE  Begins(b, t, k, p, targetAccept) /\ Fit(b) /\ Len(b) = 4
<1> DEFINE r == Rule(t, p, 0)
           s == Head4(t, k, p, targetAccept)
<1>1. r.ipProto = p /\ r.port = 0 /\ r.etherType = t  BY DEF Rule
<1>2. /\ s \in Seq(Instr) /\ Len(s) = 4 /\ Begins(s, t, k, p, targetAccept)
      /\ \A n \in Nat : n >= 4 => \A j \in 1..4 : Fits(s[j], j, n)
  <2>1. p \in Nat /\ t \in Nat /\ k \in Nat /\ targetAccept \in {targetAccept, 4}  BY TypesDiffer
  <2> QED  BY <2>1, HeadBlock
<1>3. ProtoIs(r, k, 2) = <<Load("LdByteAbs", k), Jump("JeqK", p, targetAccept, targetNext)>>
  BY <1>1 DEF ProtoIs
<1>4. EtherIs(t, 2) \o ProtoIs(r, k, 2) = s  BY <1>3 DEF Head4
<1>5. b = BlockOf(r)  OBVIOUS
<1> HIDE DEF r, s
<1>6. b = s
  <2>1. CASE t = TypeIPv4
    <3>1. k = 23  BY <2>1, TypesDiffer
    <3>2. b = ipv4Block(r)  BY <1>1, <1>5, <2>1 DEF BlockOf
    <3>3. ipv4Block(r) = s \o PortIs(r, Len(s))  BY <1>4, <2>1, <3>1 DEF ipv4Block
    <3>4. PortIs(r, Len(s)) = <<>>  BY <1>1 DEF PortIs
    <3>5. s \o <<>> = s  BY <1>2, AppendNone
    <3> QED  BY <3>2, <3>3, <3>4, <3>5
  <2>2. CASE t = TypeIPv6
    <3>1. k = 20  BY <2>2, TypesDiffer
    <3>2. b = ipv6Block(r)  BY <1>1, <1>5, <2>2, TypesDiffer DEF BlockOf
    <3>3. EtherIs(TypeIPv6, 2) \o ProtoIs(r, 20, 2) = s  BY <1>4, <2>2, <3>1
    <3>4. ipv6Block(r) = EtherIs(TypeIPv6, 2) \o ProtoIs(r, 20, 2)  BY <1>1, Zenon DEF ipv6Block
    <3> QED  BY <3>2, <3>3, <3>4
  <2> QED  BY <2>1, <2>2
<1>7. Fit(b)
  <2>1. Len(s) = 4 /\ \A j \in 1..4 : Fits(s[j], j, 4)  BY <1>2
  <2>2. \A j \in 1..Len(s) : Fits(s[j], j, Len(s))  BY <2>1
  <2>3. Fit(s)  BY <1>2, <2>2, AllFit
  <2> QED  BY <1>6, <2>3
<1> QED  BY <1>2, <1>6, <1>7

\* A rule that filterFor makes has one block.
LEMMA BlocksOne ==
  ASSUME NEW r, r.ipProto # 0, r.etherType \in {TypeIPv4, TypeIPv6}
  PROVE  blocksFor(r) = <<BlockOf(r)>>
<1>1. blocksFor(r) = (IF r.etherType \in {0, TypeIPv4} THEN <<ipv4Block(r)>> ELSE <<>>)
                       \o (IF r.etherType \in {0, TypeIPv6} THEN <<ipv6Block(r)>> ELSE <<>>)
  BY Zenon DEF blocksFor
<1>2. CASE r.etherType = TypeIPv4
  <2>0. r.etherType \in {0, TypeIPv4} /\ r.etherType \notin {0, TypeIPv6}  BY <1>2, TypesDiffer
  <2>1. blocksFor(r) = <<ipv4Block(r)>> \o <<>>  BY <1>1, <2>0, Zenon
  <2>2. BlockOf(r) = ipv4Block(r)  BY <1>2 DEF BlockOf
  <2> QED  BY <2>1, <2>2, OnlyOne
<1>3. CASE r.etherType = TypeIPv6
  <2>0. r.etherType \notin {0, TypeIPv4} /\ r.etherType \in {0, TypeIPv6}  BY <1>3, TypesDiffer
  <2>1. blocksFor(r) = <<>> \o <<ipv6Block(r)>>  BY <1>1, <2>0, Zenon
  <2>2. BlockOf(r) = ipv6Block(r)  BY <2>0 DEF BlockOf
  <2> QED  BY <2>1, <2>2, OnlyOne
<1> QED  BY <1>2, <1>3

\* One block for each of these rules.
LEMMA RuleBlock ==
  ASSUME NEW r, FilterRule(r)
  PROVE  /\ Fit(BlockOf(r)) /\ Len(BlockOf(r)) \in 2..11
         /\ Len(BlockOf(r)) <= 4 \/ r.port # 0
         /\ blocksFor(r) = <<BlockOf(r)>>
<1>1. CASE \E t \in {TypeIPv4, TypeIPv6, TypeARP, TypeLLDP} : r = Rule(t, 0, 0)
  <2>1. PICK t \in {TypeIPv4, TypeIPv6, TypeARP, TypeLLDP} : r = Rule(t, 0, 0)  BY <1>1
  <2>2. r.ipProto = 0 /\ r.port = 0  BY <2>1 DEF Rule
  <2>3. blocksFor(r) = <<BlockOf(r)>>  BY <2>2 DEF blocksFor, BlockOf
  <2>4. Fit(BlockOf(r)) /\ Len(BlockOf(r)) = 2  BY <2>1, TypeBlockIs
  <2> QED  BY <2>3, <2>4
<1>2. CASE \E p \in Nat \ {0} : r = Rule(TypeIPv4, p, 0)
  <2>1. PICK p \in Nat \ {0} : r = Rule(TypeIPv4, p, 0)  BY <1>2
  <2>2. r.ipProto # 0 /\ r.port = 0 /\ r.etherType = TypeIPv4  BY <2>1 DEF Rule
  <2>3. blocksFor(r) = <<BlockOf(r)>>  BY <2>2, BlocksOne
  <2>4. Fit(BlockOf(r)) /\ Len(BlockOf(r)) = 4  BY <2>1, ProtoBlockIs
  <2> QED  BY <2>3, <2>4
<1>3. CASE \E p \in Nat \ {0}, q \in Nat \ {0} : r = Rule(TypeIPv4, p, q)
  <2>1. PICK p \in Nat \ {0}, q \in Nat \ {0} : r = Rule(TypeIPv4, p, q)  BY <1>3
  <2>2. r.ipProto # 0 /\ r.port # 0 /\ r.etherType = TypeIPv4  BY <2>1 DEF Rule
  <2>3. blocksFor(r) = <<BlockOf(r)>>  BY <2>2, BlocksOne
  <2>4. Fit(BlockOf(r)) /\ Ports(BlockOf(r), q)  BY <2>1, PortBlockIs
  <2>5. Len(BlockOf(r)) = 11  BY <2>4 DEF Ports
  <2> QED  BY <2>2, <2>3, <2>4, <2>5
<1>4. CASE \E p \in Nat \ {0, DestOpts} : r = Rule(TypeIPv6, p, 0)
  <2>1. PICK p \in Nat \ {0, DestOpts} : r = Rule(TypeIPv6, p, 0)  BY <1>4
  <2>2. r.ipProto # 0 /\ r.port = 0 /\ r.etherType = TypeIPv6  BY <2>1 DEF Rule
  <2>3. blocksFor(r) = <<BlockOf(r)>>  BY <2>2, BlocksOne
  <2>4. Fit(BlockOf(r)) /\ Len(BlockOf(r)) = 4  BY <2>1, ProtoBlockIs
  <2> QED  BY <2>3, <2>4
<1> QED  BY <1>1, <1>2, <1>3, <1>4 DEF FilterRule

\* Its block decides a rule, for every frame.
LEMMA BlockDecides ==
  ASSUME NEW r, FilterRule(r), NEW prog, NEW st, NEW span, NEW next, Lay(prog, BlockOf(r), st, span, next),
         NEW f, Typed(f), NEW q \in Registers
  PROVE  Outcome(prog, next, r, f, st + 1, q)
<1>1. CASE \E t \in {TypeIPv4, TypeIPv6, TypeARP, TypeLLDP} : r = Rule(t, 0, 0)
  <2>1. PICK t \in {TypeIPv4, TypeIPv6, TypeARP, TypeLLDP} : r = Rule(t, 0, 0)  BY <1>1
  <2> DEFINE b == BlockOf(r)
  <2>2. /\ Len(b) = 2 /\ b[1] = Load("LdHalfAbs", 12) /\ b[2] = Jump("JeqK", t, targetAccept, targetNext)
    BY <2>1, TypeBlockIs
  <2>3. Lay(prog, b, st, span, next)  OBVIOUS
  <2> HIDE DEF b
  <2>4. Outcome(prog, next, Rule(t, 0, 0), f, st + 1, q)  BY <2>2, <2>3, TypeBlock
  <2> QED  BY <2>1, <2>4
<1>2. CASE \E p \in Nat \ {0} : r = Rule(TypeIPv4, p, 0)
  <2>1. PICK p \in Nat \ {0} : r = Rule(TypeIPv4, p, 0)  BY <1>2
  <2>2. Begins(BlockOf(r), TypeIPv4, 23, p, targetAccept)  BY <2>1, ProtoBlockIs
  <2> QED  BY <2>1, <2>2, ProtoBlock4
<1>3. CASE \E p \in Nat \ {0}, port \in Nat \ {0} : r = Rule(TypeIPv4, p, port)
  <2>1. PICK p \in Nat \ {0}, port \in Nat \ {0} : r = Rule(TypeIPv4, p, port)  BY <1>3
  <2>2. Begins(BlockOf(r), TypeIPv4, 23, p, 4) /\ Ports(BlockOf(r), port)  BY <2>1, PortBlockIs
  <2> QED  BY <2>1, <2>2, PortBlock
<1>4. CASE \E p \in Nat \ {0, DestOpts} : r = Rule(TypeIPv6, p, 0)
  <2>1. PICK p \in Nat \ {0, DestOpts} : r = Rule(TypeIPv6, p, 0)  BY <1>4
  <2>2. Begins(BlockOf(r), TypeIPv6, 20, p, targetAccept)  BY <2>1, ProtoBlockIs
  <2> QED  BY <2>1, <2>2, ProtoBlock6
<1> QED  BY <1>1, <1>2, <1>3, <1>4 DEF FilterRule

-----------------------------------------------------------------------------
(* Programs of rules.                                                      *)

\* The rules of the filter, and their blocks.
KnownRules == {r \in [etherType : Nat, ipProto : Nat, port : Nat] : FilterRule(r)}
FilterRules(rs) == rs \in Seq(KnownRules)
BlocksOf(rs) == [i \in 1..Len(rs) |-> BlockOf(rs[i])]

\* Each is one that filterFor makes.
LEMMA FilterRulesAre ==
  ASSUME NEW rs, FilterRules(rs)
  PROVE  /\ Len(rs) \in Nat /\ DOMAIN rs = 1..Len(rs) /\ (rs # <<>> => Len(rs) # 0)
         /\ \A i \in 1..Len(rs) : FilterRule(rs[i])
<1>1. \A i \in 1..Len(rs) : rs[i] \in KnownRules  BY DEF FilterRules
<1>2. \A i \in 1..Len(rs) : FilterRule(rs[i])  BY <1>1 DEF KnownRules
<1> QED  BY <1>2 DEF FilterRules

\* Their program is that of their blocks.
LEMMA AssembleIs ==
  ASSUME NEW rs, FilterRules(rs), rs # <<>>
  PROVE  /\ Blocks(BlocksOf(rs)) /\ Len(BlocksOf(rs)) = Len(rs) /\ Len(rs) \in Nat \ {0}
         /\ Assemble(rs) = link(BlocksOf(rs))
<1> DEFINE u == BlocksOf(rs)
           s == [i \in 1..Len(rs) |-> <<BlockOf(rs[i])>>]
<1>0. Len(rs) \in Nat /\ Len(rs) # 0 /\ DOMAIN rs = 1..Len(rs)
  BY FilterRulesAre
<1>1. ASSUME NEW i \in 1..Len(rs)
      PROVE  /\ Fit(BlockOf(rs[i])) /\ BlockOf(rs[i]) \in Seq(Instr)
             /\ blocksFor(rs[i]) = <<BlockOf(rs[i])>>
  <2>1. FilterRule(rs[i])  BY FilterRulesAre
  <2>2. Fit(BlockOf(rs[i])) /\ blocksFor(rs[i]) = <<BlockOf(rs[i])>>  BY <2>1, RuleBlock
  <2> QED  BY <2>2 DEF Fit
<1>2. u \in Seq(Seq(Instr)) /\ Len(u) = Len(rs) /\ \A i \in 1..Len(rs) : u[i] = BlockOf(rs[i])
  BY <1>0, <1>1 DEF BlocksOf
<1> HIDE DEF u
<1>3. Blocks(u)  BY <1>1, <1>2 DEF Blocks
<1>4. s = [i \in 1..Len(u) |-> <<u[i]>>]  BY <1>2
<1>5. FlattenSeq(s) = u  BY <1>2, <1>4, Singles
<1>6. [i \in DOMAIN rs |-> blocksFor(rs[i])] = s  BY <1>0, <1>1
<1> HIDE DEF s
<1>7. Assemble(rs) = link(u)  BY <1>5, <1>6 DEF Assemble
<1> QED  BY <1>0, <1>2, <1>3, <1>7 DEF u

\* Each block lies in the program where link puts it.
LEMMA ProgramLay ==
  ASSUME NEW blocks, Blocks(blocks), NEW prog, prog = link(blocks), NEW i \in 1..Len(blocks)
  PROVE  Lay(prog, blocks[i], Start(blocks, i), Total(blocks), After(blocks, i))
<1>1. Forward(prog)  BY LinkedForward
<1>2. blocks \in Seq(Seq(Instr)) /\ Fit(blocks[i])  BY DEF Blocks
<1>3. Lies(blocks[i], Start(blocks, i), Total(blocks), After(blocks, i))  BY <1>2, BlockLies
<1>4. /\ Len(prog) = Total(blocks) + 2
      /\ prog[Total(blocks) + 1] = Ret(AcceptLength) /\ prog[Total(blocks) + 2] = Ret(0)
      /\ \A j \in 1..Len(blocks[i]) : prog[Start(blocks, i) + j] = LinkedAt(blocks, i)[j]
  BY LinkedAll
<1> QED  BY <1>1, <1>2, <1>3, <1>4 DEF Lay, LinkedAt

\* What the rules from the i-th on say of a frame.
Verdict(prog, rs, f, pc, i, q) ==
  \/ From(prog, f, pc, q) = AcceptLength /\ \E m \in i..Len(rs) : Matches(rs[m], f)
  \/ From(prog, f, pc, q) = 0 /\ (Runt(f) \/ \A m \in i..Len(rs) : ~Matches(rs[m], f))

\* The verdict from a rule on follows from that of the rules after it.
LEMMA VerdictOf ==
  ASSUME NEW rs, Len(rs) \in Nat, NEW prog, NEW f, f.len \in Nat, NEW pc, NEW next, NEW i \in 1..Len(rs), NEW q,
         Outcome(prog, next, rs[i], f, pc, q),
         \A w \in Registers : Verdict(prog, rs, f, next + 1, i + 1, w)
  PROVE  Verdict(prog, rs, f, pc, i, q)
<1>1. f.len < 14 => \A m \in i..Len(rs) : ~Matches(rs[m], f)  BY DEF Matches
<1>2. i \in i..Len(rs) /\ \A m \in i..Len(rs) : m = i \/ m \in (i + 1)..Len(rs)  OBVIOUS
<1>3. \A m \in (i + 1)..Len(rs) : m \in i..Len(rs)  OBVIOUS
<1>4. CASE From(prog, f, pc, q) = AcceptLength /\ Matches(rs[i], f)  BY <1>2, <1>4 DEF Verdict
<1>5. CASE From(prog, f, pc, q) = 0 /\ (f.len < 14 \/ Runt(f))  BY <1>1, <1>5 DEF Verdict
<1>6. CASE ~Matches(rs[i], f) /\ \E w \in Registers : From(prog, f, pc, q) = From(prog, f, next + 1, w)
  <2>1. PICK w \in Registers : From(prog, f, pc, q) = From(prog, f, next + 1, w)  BY <1>6
  <2>2. Verdict(prog, rs, f, next + 1, i + 1, w)  OBVIOUS
  <2> QED  BY <1>2, <1>3, <1>6, <2>1, <2>2 DEF Verdict
<1> QED  BY <1>4, <1>5, <1>6 DEF Outcome

\* A program decides as its rules say: by induction from the last rule.
LEMMA ProgramDecides ==
  ASSUME NEW rs, FilterRules(rs), rs # <<>>, NEW prog, prog = Assemble(rs), NEW f, Typed(f)
  PROVE  \A q \in Registers : Verdict(prog, rs, f, 1, 1, q)
<1> DEFINE u == BlocksOf(rs)
           n == Len(rs)
           Claim(i) == \A q \in Registers : Verdict(prog, rs, f, Start(u, i) + 1, i, q)
           S == {k \in Nat : k < n => Claim(n - k)}
<1>1. /\ Blocks(u) /\ Len(u) = n /\ n \in Nat \ {0} /\ prog = link(u)
      /\ \A i \in 1..n : u[i] = BlockOf(rs[i]) /\ FilterRule(rs[i])
  BY AssembleIs, FilterRulesAre DEF BlocksOf
<1>2. f.len \in Nat  BY Seen
<1> HIDE DEF u
<1>3. ASSUME NEW i \in 1..n, \A w \in Registers : Verdict(prog, rs, f, After(u, i) + 1, i + 1, w)
      PROVE  Claim(i)
  <2> SUFFICES ASSUME NEW q \in Registers  PROVE Verdict(prog, rs, f, Start(u, i) + 1, i, q)
    OBVIOUS
  <2>1. Lay(prog, u[i], Start(u, i), Total(u), After(u, i))  BY <1>1, ProgramLay
  <2>2. Lay(prog, BlockOf(rs[i]), Start(u, i), Total(u), After(u, i))  BY <1>1, <2>1
  <2>3. Outcome(prog, After(u, i), rs[i], f, Start(u, i) + 1, q)  BY <1>1, <2>2, BlockDecides
  <2> QED  BY <1>1, <1>2, <1>3, <2>3, VerdictOf
<1>4. 0 \in S
  <2>1. n \in 1..n /\ n - 0 = n  BY <1>1
  <2>2. After(u, n) + 1 = Total(u) + 2 /\ prog[Total(u) + 2] = Ret(0) /\ Total(u) + 2 \in 1..Len(prog)
    <3>1. Total(u) \in Nat /\ prog[Total(u) + 2] = Ret(0) /\ Len(prog) = Total(u) + 2  BY <1>1, LinkedAll
    <3>2. After(u, n) = Total(u) + 1  BY <1>1 DEF After
    <3> QED  BY <3>1, <3>2
  <2>3. Forward(prog)  BY <1>1, LinkedForward
  <2>4. \A w \in Registers : From(prog, f, Total(u) + 2, w) = 0  BY <2>2, <2>3, ReturnDoes
  <2>5. (n + 1)..n = {}  BY <1>1
  <2>6. \A w \in Registers : Verdict(prog, rs, f, After(u, n) + 1, n + 1, w)
    BY <2>2, <2>4, <2>5 DEF Verdict
  <2>7. Claim(n)  BY <1>3, <2>1, <2>6
  <2> HIDE DEF Claim, n
  <2> QED  BY <2>1, <2>7
<1>5. ASSUME NEW k \in Nat, k \in S  PROVE k + 1 \in S
  <2> SUFFICES ASSUME k + 1 < n  PROVE Claim(n - (k + 1))
    OBVIOUS
  <2> DEFINE i == n - (k + 1)
  <2>1. i \in 1..n /\ i < n /\ i + 1 = n - k /\ k < n  BY <1>1
  <2>2. Claim(n - k)
    <3> HIDE DEF Claim, n
    <3> QED  BY <1>5, <2>1
  <2> HIDE DEF i
  <2>3. After(u, i) = Start(u, i + 1)  BY <1>1, <2>1 DEF After
  <2>4. \A w \in Registers : Verdict(prog, rs, f, After(u, i) + 1, i + 1, w)  BY <2>1, <2>2, <2>3
  <2>5. Claim(i)  BY <1>3, <2>1, <2>4
  <2> QED  BY <2>5 DEF i
<1> HIDE DEF S
<1>6. \A k \in Nat : k \in S  BY <1>4, <1>5, SetOfAll
<1>7. n - 1 \in Nat /\ n - 1 < n /\ n - (n - 1) = 1  BY <1>1
<1>8. Claim(1)
  <2> HIDE DEF Claim, n
  <2>1. n - 1 \in S  BY <1>6, <1>7
  <2>2. n - 1 < n => Claim(n - (n - 1))  BY <2>1 DEF S
  <2> QED  BY <1>7, <2>2
<1>9. Start(u, 1) + 1 = 1
  <2>1. Start(u, 1) = Len(Ahead(u, 0))
    <3>1. 1 - 1 = 0  OBVIOUS
    <3> QED  BY <3>1 DEF Start
  <2>2. Ahead(u, 0) = <<>>  BY <1>1, AheadNone DEF Blocks
  <2> QED  BY <2>1, <2>2
<1> QED  BY <1>8, <1>9

\* The program accepts what its rules match, but for runts.
THEOREM AssembleExact ==
  ASSUME NEW rs, FilterRules(rs), rs # <<>>, NEW f, Typed(f)
  PROVE  LET match == \E i \in DOMAIN rs : Matches(rs[i], f) IN
           /\ Accepts(Assemble(rs), f) => match
           /\ match => Accepts(Assemble(rs), f) \/ Runt(f)
<1> DEFINE prog == Assemble(rs)
           q == [a |-> 0, x |-> 0]
<1>1. q \in Registers  BY DEF Registers
<1>2. Verdict(prog, rs, f, 1, 1, q)  BY <1>1, ProgramDecides
<1>3. DOMAIN rs = 1..Len(rs)  BY FilterRulesAre
<1>4. AcceptLength # 0  BY DEF AcceptLength
<1>5. Accepts(prog, f) <=> From(prog, f, 1, q) # 0  BY DEF Accepts, From
<1> HIDE DEF prog, q
<1>6. /\ Accepts(prog, f) => \E i \in DOMAIN rs : Matches(rs[i], f)
      /\ (\E i \in DOMAIN rs : Matches(rs[i], f)) => Accepts(prog, f) \/ Runt(f)
  BY <1>2, <1>3, <1>4, <1>5 DEF Verdict
<1> QED  BY <1>6 DEF prog

\* How many instructions some rules take.
Size(rs) == Total(BlocksOf(rs))

\* No rules take none.
LEMMA SizeNone == FilterRules(<<>>) /\ Size(<<>>) = 0
<1>1. <<>> \in Seq(KnownRules) /\ BlocksOf(<<>>) = <<>>  BY DEF BlocksOf
<1>2. FlattenSeq(<<>>) = <<>>  BY DEF FlattenSeq
<1> QED  BY <1>1, <1>2 DEF FilterRules, Size, Total

\* What is where in a longer sequence.
LEMMA AppendIs ==
  ASSUME NEW A, NEW s \in Seq(A), NEW x \in A
  PROVE  Append(s, x) = [i \in 1..(Len(s) + 1) |-> IF i = Len(s) + 1 THEN x ELSE s[i]]
<1> DEFINE u == Append(s, x)
<1>1. u \in Seq(A) /\ Len(u) = Len(s) + 1 /\ u[Len(s) + 1] = x /\ Len(s) \in Nat
  OBVIOUS
<1>2. \A i \in 1..Len(s) : u[i] = s[i]  OBVIOUS
<1> HIDE DEF u
<1>3. u = [i \in 1..(Len(s) + 1) |-> u[i]]  BY <1>1
<1>4. \A i \in 1..(Len(s) + 1) : u[i] = IF i = Len(s) + 1 THEN x ELSE s[i]  BY <1>1, <1>2
<1> QED  BY <1>3, <1>4 DEF u

\* One more rule takes the instructions of its block.
LEMMA SizeNext ==
  ASSUME NEW rs, FilterRules(rs), NEW r \in KnownRules
  PROVE  /\ FilterRules(Append(rs, r)) /\ Size(rs) \in Nat
         /\ Size(Append(rs, r)) = Size(rs) + Len(BlockOf(r)) /\ Len(BlockOf(r)) \in Nat
<1>1. rs \in Seq(KnownRules)  BY DEF FilterRules
<1>2. \A q \in KnownRules : BlockOf(q) \in Seq(Instr)  BY RuleBlock DEF KnownRules, Fit
<1>3. BlocksOf(rs) \in Seq(Seq(Instr))
  <2>1. Len(rs) \in Nat /\ \A i \in 1..Len(rs) : rs[i] \in KnownRules  BY <1>1
  <2> QED  BY <1>2, <2>1 DEF BlocksOf
<1>4. BlocksOf(Append(rs, r)) = Append(BlocksOf(rs), BlockOf(r))
  <2> DEFINE s == BlocksOf(rs)
             t == Append(rs, r)
  <2>1. Len(rs) \in Nat /\ Len(s) = Len(rs) /\ \A i \in 1..Len(rs) : s[i] = BlockOf(rs[i])
    BY <1>1 DEF BlocksOf
  <2>2. /\ Len(t) = Len(rs) + 1 /\ t[Len(rs) + 1] = r
        /\ \A i \in 1..Len(rs) : t[i] = rs[i]
    BY <1>1
  <2>3. Append(s, BlockOf(r)) = [i \in 1..(Len(rs) + 1) |-> IF i = Len(rs) + 1 THEN BlockOf(r) ELSE s[i]]
    <3>1. s \in Seq(Seq(Instr)) /\ BlockOf(r) \in Seq(Instr)  BY <1>2, <1>3
    <3> HIDE DEF s
    <3>2. Append(s, BlockOf(r)) = [i \in 1..(Len(s) + 1) |-> IF i = Len(s) + 1 THEN BlockOf(r) ELSE s[i]]
      BY <3>1, AppendIs
    <3> QED  BY <2>1, <3>2
  <2> HIDE DEF s, t
  <2>4. \A i \in 1..(Len(rs) + 1) : BlockOf(t[i]) = IF i = Len(rs) + 1 THEN BlockOf(r) ELSE s[i]
    BY <2>1, <2>2
  <2>5. BlocksOf(t) = [i \in 1..(Len(rs) + 1) |-> BlockOf(t[i])]  BY <2>2 DEF BlocksOf
  <2>6. BlocksOf(t) = Append(s, BlockOf(r))  BY <2>3, <2>4, <2>5
  <2> QED  BY <2>6 DEF s, t
<1>5. FlattenSeq(Append(BlocksOf(rs), BlockOf(r))) = FlattenSeq(BlocksOf(rs)) \o BlockOf(r)
  BY <1>2, <1>3, FlattenAppend
<1>6. FlattenSeq(BlocksOf(rs)) \in Seq(Instr)
  <2>1. Len(BlocksOf(rs)) \in Nat /\ Len(BlocksOf(rs)) <= Len(BlocksOf(rs))  BY <1>3
  <2>2. Ahead(BlocksOf(rs), Len(BlocksOf(rs))) \in Seq(Instr)  BY <1>3, <2>1, AheadTyped
  <2> QED  BY <1>3, <2>2, AheadAll
<1>7. /\ Len(FlattenSeq(BlocksOf(rs)) \o BlockOf(r)) = Len(FlattenSeq(BlocksOf(rs))) + Len(BlockOf(r))
      /\ Len(FlattenSeq(BlocksOf(rs))) \in Nat /\ Len(BlockOf(r)) \in Nat
  BY <1>2, <1>6, JoinedAt
<1>8. FilterRules(Append(rs, r))  BY <1>1 DEF FilterRules
<1> QED  BY <1>4, <1>5, <1>7, <1>8 DEF Size, Total

\* A few elements joined are appended one by one.
LEMMA Steps ==
  ASSUME NEW A, NEW s \in Seq(A), NEW a \in A, NEW b \in A, NEW c \in A
  PROVE  /\ s \o <<a>> = Append(s, a)
         /\ s \o <<a, b>> = Append(Append(s, a), b)
         /\ s \o <<a, b, c>> = Append(Append(Append(s, a), b), c)
OBVIOUS

\* The rules of a name: none, or some of at most 26 instructions.
LEMMA RulesOfName ==
  ASSUME NEW n, n \in DOMAIN displays
  PROVE  \/ n = "frame" /\ protocolRules[n] = <<>>
         \/ n # "frame" /\ \E a \in KnownRules : protocolRules[n] = <<a>>
         \/ n # "frame" /\ \E a, b \in KnownRules : protocolRules[n] = <<a, b>>
         \/ n # "frame" /\ \E a, b, c \in KnownRules : c.port = 0 /\ protocolRules[n] = <<a, b, c>>
<1>1. n \in {"frame", "arp", "lldp", "ipv4", "dhcp", "ipv6", "ndp", "tcp", "ca", "pva"}  BY DEF displays
<1>2. ASSUME NEW t, t \in {TypeIPv4, TypeIPv6, TypeARP, TypeLLDP}  PROVE Rule(t, 0, 0) \in KnownRules
  <2>1. t \in Nat  BY <1>2, TypesDiffer
  <2> QED  BY <1>2, <2>1 DEF KnownRules, FilterRule, Rule
<1>3. AllTCP \in KnownRules /\ AllTCP.port = 0
  <2>1. TCP \in Nat \ {0} /\ TypeIPv4 \in Nat  BY TypesDiffer DEF TCP
  <2> QED  BY <2>1 DEF AllTCP, KnownRules, FilterRule, Rule
<1>4. ASSUME NEW q \in Nat \ {0}  PROVE OnUDP(q) \in KnownRules
  <2>1. UDP \in Nat \ {0} /\ TypeIPv4 \in Nat  BY TypesDiffer DEF UDP
  <2> QED  BY <2>1 DEF OnUDP, KnownRules, FilterRule, Rule
<1>5. Rule(TypeIPv6, ICMPv6, 0) \in KnownRules
  <2>1. ICMPv6 \in Nat \ {0, DestOpts} /\ TypeIPv6 \in Nat  BY TypesDiffer DEF ICMPv6, DestOpts
  <2> QED  BY <2>1 DEF KnownRules, FilterRule, Rule
<1>6. {ServerPort, ClientPort, CAServer, CARepeater, PVAUDP} \subseteq Nat \ {0}
  BY DEF ServerPort, ClientPort, CAServer, CARepeater, PVAUDP
<1>7. CASE n = "frame"  BY <1>7 DEF protocolRules
<1>8. CASE n = "arp"  BY <1>2, <1>8 DEF protocolRules
<1>9. CASE n = "lldp"  BY <1>2, <1>9 DEF protocolRules
<1>10. CASE n = "ipv4"  BY <1>2, <1>10 DEF protocolRules
<1>11. CASE n = "dhcp"  BY <1>4, <1>6, <1>11 DEF protocolRules
<1>12. CASE n = "ipv6"  BY <1>2, <1>12 DEF protocolRules
<1>13. CASE n = "ndp"  BY <1>5, <1>13 DEF protocolRules
<1>14. CASE n = "tcp"  BY <1>3, <1>14 DEF protocolRules
<1>15. CASE n = "ca"  BY <1>3, <1>4, <1>6, <1>15 DEF protocolRules
<1>16. CASE n = "pva"  BY <1>3, <1>4, <1>6, <1>16 DEF protocolRules
<1> QED  BY <1>1, <1>7, <1>8, <1>9, <1>10, <1>11, <1>12, <1>13, <1>14, <1>15, <1>16

\* All rules of a name are among some rules.
Covers(rs, n) == \A j \in 1..Len(protocolRules[n]) : \E i \in 1..Len(rs) : rs[i] = protocolRules[n][j]

\* The rules of a name take at most 26 instructions, and none for frame.
LEMMA Extended ==
  ASSUME NEW rs, FilterRules(rs), NEW n, n \in DOMAIN displays, NEW t, t = rs \o protocolRules[n]
  PROVE  /\ FilterRules(t) /\ Size(rs) \in Nat /\ Size(t) \in Nat
         /\ Size(t) <= Size(rs) + 26 /\ (n = "frame" => Size(t) = Size(rs))
<1>0. rs \in Seq(KnownRules)  BY DEF FilterRules
<1>1. \A r \in KnownRules : Len(BlockOf(r)) <= 11 /\ Len(BlockOf(r)) \in Nat /\ (r.port = 0 => Len(BlockOf(r)) <= 4)
  <2> SUFFICES ASSUME NEW r \in KnownRules
               PROVE  Len(BlockOf(r)) <= 11 /\ Len(BlockOf(r)) \in Nat /\ (r.port = 0 => Len(BlockOf(r)) <= 4)
    OBVIOUS
  <2>1. FilterRule(r)  BY DEF KnownRules
  <2>2. Len(BlockOf(r)) \in 2..11 /\ (Len(BlockOf(r)) <= 4 \/ r.port # 0)  BY <2>1, RuleBlock
  <2> DEFINE l == Len(BlockOf(r))
  <2>3. l \in 2..11  BY <2>2
  <2>4. r.port = 0 => l <= 4  BY <2>2
  <2> HIDE DEF l
  <2>5. l <= 11 /\ l \in Nat  BY <2>3
  <2> QED  BY <2>4, <2>5 DEF l
<1>2. \E a : a \in KnownRules
  <2>1. AllTCP \in KnownRules
    <3>1. TCP \in Nat \ {0} /\ TypeIPv4 \in Nat  BY TypesDiffer DEF TCP
    <3> QED  BY <3>1 DEF AllTCP, KnownRules, FilterRule, Rule
  <2> QED  BY <2>1
<1>3. Size(rs) \in Nat  BY <1>2, SizeNext
<1>4. CASE n = "frame" /\ protocolRules[n] = <<>>
  <2>1. t = rs  BY <1>0, <1>4
  <2> QED  BY <1>3, <2>1
<1>5. CASE n # "frame" /\ \E a \in KnownRules : protocolRules[n] = <<a>>
  <2>1. PICK a \in KnownRules : protocolRules[n] = <<a>>  BY <1>5
  <2>2. t = Append(rs, a)  BY <1>0, <2>1, Steps
  <2>3. FilterRules(t) /\ Size(t) = Size(rs) + Len(BlockOf(a))  BY <2>2, SizeNext
  <2> QED  BY <1>1, <1>3, <1>5, <2>3
<1>6. CASE n # "frame" /\ \E a, b \in KnownRules : protocolRules[n] = <<a, b>>
  <2>1. PICK a \in KnownRules, b \in KnownRules : protocolRules[n] = <<a, b>>  BY <1>6
  <2> DEFINE u == Append(rs, a)
  <2>2. t = Append(u, b)  BY <1>0, <2>1, Steps
  <2>3. FilterRules(u) /\ Size(u) = Size(rs) + Len(BlockOf(a))  BY SizeNext
  <2> HIDE DEF u
  <2>4. FilterRules(t) /\ Size(t) = Size(u) + Len(BlockOf(b))  BY <2>2, <2>3, SizeNext
  <2> QED  BY <1>1, <1>3, <1>6, <2>3, <2>4
<1>7. CASE n # "frame" /\ \E a, b, c \in KnownRules : c.port = 0 /\ protocolRules[n] = <<a, b, c>>
  <2>1. PICK a \in KnownRules, b \in KnownRules, c \in KnownRules : c.port = 0 /\ protocolRules[n] = <<a, b, c>>
    BY <1>7
  <2> DEFINE u == Append(rs, a)
             v == Append(u, b)
  <2>2. t = Append(v, c)  BY <1>0, <2>1, Steps
  <2>3. FilterRules(u) /\ Size(u) = Size(rs) + Len(BlockOf(a))  BY SizeNext
  <2> HIDE DEF u
  <2>4. FilterRules(v) /\ Size(v) = Size(u) + Len(BlockOf(b))  BY <2>3, SizeNext
  <2> HIDE DEF v
  <2>5. FilterRules(t) /\ Size(t) = Size(v) + Len(BlockOf(c))  BY <2>2, <2>4, SizeNext
  <2> DEFINE p == Len(BlockOf(a))
             q == Len(BlockOf(b))
             w == Len(BlockOf(c))
  <2>6. p \in Nat /\ p <= 11 /\ q \in Nat /\ q <= 11 /\ w \in Nat /\ w <= 4  BY <1>1, <2>1
  <2>7. Size(t) = Size(rs) + p + q + w  BY <2>3, <2>4, <2>5
  <2> HIDE DEF p, q, w
  <2>8. Size(t) \in Nat /\ Size(t) <= Size(rs) + 26  BY <1>3, <2>6, <2>7
  <2> QED  BY <1>3, <1>7, <2>5, <2>8
<1> QED  BY <1>4, <1>5, <1>6, <1>7, RulesOfName

\* With the rules of a name added, its rules are there, and no others lost.
LEMMA CoversMore ==
  ASSUME NEW rs, FilterRules(rs), NEW n, n \in DOMAIN displays, NEW t, t = rs \o protocolRules[n]
  PROVE  Covers(t, n) /\ \A m : Covers(rs, m) => Covers(t, m)
<1> DEFINE k == protocolRules[n]
<1>1. rs \in Seq(KnownRules) /\ k \in Seq(KnownRules)
  <2> HIDE DEF k
  <2>1. CASE k = <<>>  BY <2>1 DEF FilterRules
  <2>2. CASE \E a \in KnownRules : k = <<a>>  BY <2>2 DEF FilterRules
  <2>3. CASE \E a, b \in KnownRules : k = <<a, b>>  BY <2>3 DEF FilterRules
  <2>4. CASE \E a, b, c \in KnownRules : k = <<a, b, c>>  BY <2>4 DEF FilterRules
  <2> QED  BY <2>1, <2>2, <2>3, <2>4, RulesOfName DEF k
<1>2. t = rs \o k  OBVIOUS
<1>3. /\ Len(rs \o k) = Len(rs) + Len(k) /\ Len(rs) \in Nat /\ Len(k) \in Nat
      /\ \A p \in 1..Len(rs) : (rs \o k)[p] = rs[p]
      /\ \A p \in 1..Len(k) : (rs \o k)[Len(rs) + p] = k[p]
  <2> HIDE DEF k
  <2> QED  BY <1>1, JoinedAt
<1>4. Covers(t, n)
  <2> SUFFICES ASSUME NEW j \in 1..Len(k)  PROVE \E i \in 1..Len(t) : t[i] = k[j]
    BY DEF Covers
  <2> HIDE DEF k
  <2>1. Len(rs) + j \in 1..Len(t)  BY <1>2, <1>3
  <2>2. t[Len(rs) + j] = k[j]  BY <1>2, <1>3
  <2> QED  BY <2>1, <2>2
<1>5. ASSUME NEW m, Covers(rs, m)  PROVE Covers(t, m)
  <2>1. \A i \in 1..Len(rs) : i \in 1..Len(t) /\ t[i] = rs[i]
    <3> HIDE DEF k
    <3>1. \A i \in 1..Len(rs) : t[i] = rs[i]  BY <1>2, <1>3
    <3>2. Len(rs) <= Len(t) /\ Len(t) \in Nat  BY <1>2, <1>3
    <3> QED  BY <1>3, <3>1, <3>2
  <2> QED  BY <1>5, <2>1 DEF Covers
<1> QED  BY <1>4, <1>5

\* A set of at most m elements.
AtMost(S, m) == m \in Nat /\ IsFiniteSet(S) /\ Cardinality(S) <= m

\* One more element.
LEMMA OneMore ==
  ASSUME NEW S, NEW m, AtMost(S, m), NEW x, NEW T, T = S \cup {x}
  PROVE  AtMost(T, m + 1)
<1>1. Cardinality(S) \in Nat  BY FS_CardinalityType DEF AtMost
<1>2. IsFiniteSet(S \cup {x}) /\ (Cardinality(S \cup {x}) = Cardinality(S) \/ Cardinality(S \cup {x}) = Cardinality(S) + 1)
  BY FS_AddElement DEF AtMost
<1> QED  BY <1>1, <1>2 DEF AtMost

\* There are nine names besides frame.
LEMMA NamesCounted ==
  ASSUME NEW ns, ns \subseteq DOMAIN displays
  PROVE  /\ IsFiniteSet(ns \ {"frame"}) /\ Cardinality(ns \ {"frame"}) \in Nat
         /\ Cardinality(ns \ {"frame"}) <= 9
<1> DEFINE a == {"arp"}
           b == a \cup {"lldp"}
           c == b \cup {"ipv4"}
           d == c \cup {"dhcp"}
           e == d \cup {"ipv6"}
           g == e \cup {"ndp"}
           h == g \cup {"tcp"}
           i == h \cup {"ca"}
           j == i \cup {"pva"}
<1>0. ns \ {"frame"} \subseteq j  BY DEF displays
<1> HIDE DEF j
<1>20. j = i \cup {"pva"}  BY DEF j
<1> HIDE DEF i
<1>19. i = h \cup {"ca"}  BY DEF i
<1> HIDE DEF h
<1>18. h = g \cup {"tcp"}  BY DEF h
<1> HIDE DEF g
<1>17. g = e \cup {"ndp"}  BY DEF g
<1> HIDE DEF e
<1>16. e = d \cup {"ipv6"}  BY DEF e
<1> HIDE DEF d
<1>15. d = c \cup {"dhcp"}  BY DEF d
<1> HIDE DEF c
<1>14. c = b \cup {"ipv4"}  BY DEF c
<1> HIDE DEF b
<1>13. b = a \cup {"lldp"}  BY DEF b
<1>1. AtMost(a, 1)
  <2>1. Cardinality({"arp"}) = 1 /\ IsFiniteSet({"arp"})  BY FS_Singleton
  <2> QED  BY <2>1 DEF AtMost, a
<1> HIDE DEF a
<1>2. AtMost(b, 1 + 1)  BY <1>1, <1>13, OneMore
<1>3. AtMost(c, 1 + 1 + 1)  BY <1>2, <1>14, OneMore
<1>4. AtMost(d, 1 + 1 + 1 + 1)  BY <1>3, <1>15, OneMore
<1>5. AtMost(e, 1 + 1 + 1 + 1 + 1)  BY <1>4, <1>16, OneMore
<1>6. AtMost(g, 1 + 1 + 1 + 1 + 1 + 1)  BY <1>5, <1>17, OneMore
<1>7. AtMost(h, 1 + 1 + 1 + 1 + 1 + 1 + 1)  BY <1>6, <1>18, OneMore
<1>8. AtMost(i, 1 + 1 + 1 + 1 + 1 + 1 + 1 + 1)  BY <1>7, <1>19, OneMore
<1>9. AtMost(j, 1 + 1 + 1 + 1 + 1 + 1 + 1 + 1 + 1)  BY <1>8, <1>20, OneMore
<1>11. Cardinality(j) <= 9 /\ IsFiniteSet(j)
  <2>1. 1 + 1 + 1 + 1 + 1 + 1 + 1 + 1 + 1 = 9  OBVIOUS
  <2> QED  BY <1>9, <2>1 DEF AtMost
<1>10. /\ IsFiniteSet(ns \ {"frame"}) /\ Cardinality(ns \ {"frame"}) <= Cardinality(j)
       /\ Cardinality(j) \in Nat /\ Cardinality(ns \ {"frame"}) \in Nat
  <2>1. IsFiniteSet(ns \ {"frame"}) /\ Cardinality(ns \ {"frame"}) <= Cardinality(j)
    BY <1>0, <1>11, FS_Subset
  <2> QED  BY <1>11, <2>1, FS_CardinalityType
<1> QED  BY <1>10, <1>11

\* A new name is one more, unless it is frame.
LEMMA NameAdded ==
  ASSUME NEW ns, ns \subseteq DOMAIN displays, NEW n, n \notin ns
  PROVE  /\ n = "frame" => (ns \cup {n}) \ {"frame"} = ns \ {"frame"}
         /\ n # "frame" => Cardinality((ns \cup {n}) \ {"frame"}) = Cardinality(ns \ {"frame"}) + 1
<1>1. ASSUME n # "frame"  PROVE Cardinality((ns \cup {n}) \ {"frame"}) = Cardinality(ns \ {"frame"}) + 1
  <2>1. (ns \cup {n}) \ {"frame"} = (ns \ {"frame"}) \cup {n} /\ n \notin ns \ {"frame"}  BY <1>1
  <2>2. IsFiniteSet(ns \ {"frame"})  BY NamesCounted
  <2> QED  BY <2>1, <2>2, FS_AddElement
<1> QED  BY <1>1

-----------------------------------------------------------------------------
(* The filter's state.                                                     *)

\* Rules for some names: they say what the names ask for, and fit.
RulesFor(rs, ns) ==
  /\ FilterRules(rs) /\ Size(rs) \in Nat /\ Size(rs) <= 26 * Cardinality(ns \ {"frame"})
  /\ \A n \in ns : Covers(rs, n)

\* Before the socket is open the rules are those of the names, and after it
\* the program is made of such rules, or there is none.
FilterInv ==
  /\ names \subseteq DOMAIN displays
  /\ ~open => kernel = <<>> /\ RulesFor(rules, names)
  /\ open => kernel = <<>> \/ (KernelFilter /\ \E rs : RulesFor(rs, names) /\ kernel = Assemble(rs))

\* The invariant holds at first.
LEMMA FilterBegins == DecoderInit => FilterInv
<1> SUFFICES ASSUME DecoderInit  PROVE FilterInv
  OBVIOUS
<1>1. names = {} /\ rules = <<>> /\ open = FALSE /\ kernel = <<>>  BY DEF DecoderInit
<1>2. {} \ {"frame"} = {} /\ Cardinality({}) = 0  BY FS_EmptySet
<1>3. FilterRules(<<>>) /\ Size(<<>>) = 0  BY SizeNone
<1>4. RulesFor(<<>>, {})  BY <1>2, <1>3 DEF RulesFor
<1> QED  BY <1>1, <1>4 DEF FilterInv

\* Rules for some names and those of one more are rules for all of them.
LEMMA RulesGrow ==
  ASSUME NEW ns, ns \subseteq DOMAIN displays, NEW rs, RulesFor(rs, ns), NEW n \in DOMAIN displays, n \notin ns
  PROVE  RulesFor(rs \o protocolRules[n], ns \cup {n})
<1> DEFINE t == rs \o protocolRules[n]
           m == Cardinality(ns \ {"frame"})
           k == Cardinality((ns \cup {n}) \ {"frame"})
<1>1. /\ FilterRules(t) /\ Size(rs) \in Nat /\ Size(t) \in Nat
      /\ Size(t) <= Size(rs) + 26 /\ (n = "frame" => Size(t) = Size(rs))
  BY Extended DEF RulesFor
<1>2. Covers(t, n) /\ \A w : Covers(rs, w) => Covers(t, w)  BY CoversMore DEF RulesFor
<1>3. m \in Nat /\ Size(rs) <= 26 * m  BY NamesCounted DEF RulesFor
<1>4. IF n = "frame" THEN k = m ELSE k = m + 1  BY NameAdded
<1> HIDE DEF t, m, k
<1>5. Size(t) <= 26 * k
  <2>1. CASE n = "frame"  BY <1>1, <1>3, <1>4, <2>1
  <2>2. CASE n # "frame"  BY <1>1, <1>3, <1>4, <2>2
  <2> QED  BY <2>1, <2>2
<1>6. \A w \in ns \cup {n} : Covers(t, w)  BY <1>2 DEF RulesFor
<1> QED  BY <1>1, <1>5, <1>6 DEF RulesFor, t, k

\* Every step preserves the invariant.
LEMMA FilterStep == FilterInv /\ [DecoderNext]_passageVars => FilterInv'
<1> SUFFICES ASSUME FilterInv, [DecoderNext]_passageVars  PROVE FilterInv'
  OBVIOUS
<1>1. ASSUME NEW n \in Names, Pick(n)  PROVE FilterInv'
  <2>1. /\ ~open /\ n \notin names /\ names' = names \cup {n} /\ rules' = rules \o protocolRules[n]
        /\ open' = open /\ kernel' = kernel
    BY <1>1 DEF Pick
  <2>2. n \in DOMAIN displays  BY NamesKnown
  <2>3. RulesFor(rules, names) /\ kernel = <<>> /\ names \subseteq DOMAIN displays  BY <2>1 DEF FilterInv
  <2>4. RulesFor(rules \o protocolRules[n], names \cup {n})  BY <2>1, <2>2, <2>3, RulesGrow
  <2>5. RulesFor(rules', names')  BY <2>1, <2>4
  <2>6. names' \subseteq DOMAIN displays  BY <2>1, <2>2, <2>3
  <2>7. ~open' /\ kernel' = <<>>  BY <2>1, <2>3
  <2> QED  BY <2>5, <2>6, <2>7 DEF FilterInv
<1>2. ASSUME OpenLive  PROVE FilterInv'
  <2>1. /\ ~open /\ open' = TRUE /\ names' = names
        /\ kernel' = IF KernelFilter THEN Assemble(rules) ELSE <<>>
    BY <1>2 DEF OpenLive
  <2>2. RulesFor(rules, names) /\ names \subseteq DOMAIN displays  BY <2>1 DEF FilterInv
  <2>3. KernelFilter' = KernelFilter  BY <2>1 DEF KernelFilter
  <2>4. kernel' = <<>> \/ (KernelFilter /\ \E rs : RulesFor(rs, names') /\ kernel' = Assemble(rs))
    <3>1. CASE KernelFilter
      <4>1. kernel' = Assemble(rules) /\ RulesFor(rules, names')  BY <2>1, <2>2, <3>1
      <4> QED  BY <3>1, <4>1
    <3>2. CASE ~KernelFilter
      <4>1. kernel' = <<>>  BY <2>1, <3>2
      <4> QED  BY <4>1
    <3> QED  BY <3>1, <3>2
  <2>5. open' /\ names' \subseteq DOMAIN displays  BY <2>1, <2>2
  <2> QED  BY <2>3, <2>4, <2>5 DEF FilterInv
<1>3. ASSUME OpenFile  PROVE FilterInv'
  <2>1. open' = TRUE /\ kernel' = <<>> /\ names' = names  BY <1>3 DEF OpenFile
  <2>2. names \subseteq DOMAIN displays  BY DEF FilterInv
  <2>3. open' /\ kernel' = <<>> /\ names' \subseteq DOMAIN displays  BY <2>1, <2>2
  <2> QED  BY <2>3 DEF FilterInv, KernelFilter
<1>4. ASSUME UNCHANGED filterVars  PROVE FilterInv'
  <2>1. names' = names /\ rules' = rules /\ open' = open /\ kernel' = kernel  BY <1>4 DEF filterVars
  <2>2. KernelFilter' = KernelFilter  BY <2>1 DEF KernelFilter
  <2> QED  BY <2>1, <2>2 DEF FilterInv
<1>5. ASSUME NEW f \in Frames, Packet(f)  PROVE FilterInv'
  BY <1>4, <1>5 DEF Packet
<1>6. ASSUME UNCHANGED passageVars  PROVE FilterInv'
  BY <1>4, <1>6 DEF passageVars
<1> QED  BY <1>1, <1>2, <1>3, <1>5, <1>6 DEF DecoderNext

-----------------------------------------------------------------------------
(* What is shown.                                                          *)

\* The protocol of an observation, by what made it.
LEMMA PlainProto == \A p, c : Plain(p, c).proto = p
BY DEF Plain, Obs

LEMMA ObsProto == \A p, k, s, q, c : Obs(p, k, s, q, c).proto = p
BY DEF Obs

LEMMA OfDHCP == ASSUME NEW f, NEW o \in decodeDHCP(f)  PROVE o.proto = "dhcp"
<1>1. o = Plain("dhcp", "confirmed") \/ o = Plain("dhcp", "strong hint")  BY DEF decodeDHCP
<1> QED  BY <1>1, PlainProto

LEMMA OfCA == ASSUME NEW f, NEW udp, NEW conf, NEW o \in decodeCA(f, udp, conf)  PROVE o.proto = "epics.ca"
<1>1. \E m, c : o = CaInterpret(m, f.dst, c)  BY DEF decodeCA
<1> QED  BY <1>1 DEF CaInterpret, Obs

LEMMA OfPVA == ASSUME NEW f, NEW udp, NEW conf, NEW o \in decodePVA(f, udp, conf)  PROVE o.proto = "epics.pva"
<1>1. \E m, c : o = PvaInterpret(m, c)  BY DEF decodePVA
<1>2. ASSUME NEW m, NEW c  PROVE PvaInterpret(m, c).proto = "epics.pva"
  <2> DEFINE port == IF ~m.control /\ m.cmd \in {"search_response", "beacon"} THEN m.port ELSE 0
             earned == IF ~m.control /\ ~m.whole THEN "strong hint" ELSE c
  <2>1. PvaInterpret(m, c) = Obs("epics.pva", m.cmd, PvaFromServer(m), port, earned)  BY DEF PvaInterpret
  <2> HIDE DEF port, earned
  <2> QED  BY <2>1, ObsProto
<1> QED  BY <1>1, <1>2

\* No port that a filter asks for.
Elsewhere(f) == {f.src, f.dst} \cap {ServerPort, ClientPort, CAServer, CARepeater, PVAUDP} = {}

\* What is shown of a datagram is of a protocol of its ports, or the ports are
\* none that a filter asks for.
LEMMA OfUDP ==
  ASSUME NEW f, NEW o \in decodeUDP(f)
  PROVE  /\ ~(f.len < 22 + f.hl)
         /\ \/ Elsewhere(f)
            \/ o.proto = "dhcp" /\ (isPort(f, ServerPort) \/ isPort(f, ClientPort))
            \/ o.proto = "epics.ca" /\ (isPort(f, CAServer) \/ isPort(f, CARepeater))
            \/ o.proto = "epics.pva" /\ isPort(f, PVAUDP)
<1>1. ~(f.len < 22 + f.hl)  BY DEF decodeUDP
<1>2. CASE isPort(f, ServerPort) \/ isPort(f, ClientPort)
  <2>1. o \in decodeDHCP(f)  BY <1>2 DEF decodeUDP
  <2> QED  BY <1>1, <1>2, <2>1, OfDHCP
<1>3. CASE ~(isPort(f, ServerPort) \/ isPort(f, ClientPort)) /\ (isPort(f, CAServer) \/ isPort(f, CARepeater))
  <2>1. o \in decodeCA(f, TRUE, "confirmed")  BY <1>3 DEF decodeUDP
  <2> QED  BY <1>1, <1>3, <2>1, OfCA
<1>4. CASE /\ ~(isPort(f, ServerPort) \/ isPort(f, ClientPort))
           /\ ~(isPort(f, CAServer) \/ isPort(f, CARepeater)) /\ isPort(f, PVAUDP)
  <2>1. o \in decodePVA(f, TRUE, "confirmed")  BY <1>4 DEF decodeUDP
  <2> QED  BY <1>1, <1>4, <2>1, OfPVA
<1>5. CASE /\ ~(isPort(f, ServerPort) \/ isPort(f, ClientPort))
           /\ ~(isPort(f, CAServer) \/ isPort(f, CARepeater)) /\ ~isPort(f, PVAUDP)
  <2>1. Elsewhere(f)  BY <1>5 DEF Elsewhere, isPort
  <2> QED  BY <1>1, <2>1
<1> QED  BY <1>2, <1>3, <1>4, <1>5

\* What is shown of a segment.
LEMMA OfTCP ==
  ASSUME NEW f, NEW o \in decodeTCP(f)  PROVE o.proto \in {"tcp", "epics.ca", "epics.pva"}
<1>1. \/ o = Plain("tcp", "confirmed")
      \/ \E c : o \in decodePVA(f, FALSE, c)
      \/ o \in decodeCA(f, FALSE, "confirmed")
  BY DEF decodeTCP
<1> QED  BY <1>1, PlainProto, OfCA, OfPVA

\* What is shown of an IPv4 packet.
LEMMA OfIPv4 ==
  ASSUME NEW f, NEW o \in decodeIPv4(f)
  PROVE  /\ ~(f.len < 34)
         /\ \/ o.proto = "ipv4"
            \/ Offset(f) = 0 /\ f.proto = UDP /\ o \in decodeUDP(f)
            \/ f.proto = TCP /\ o.proto \in {"tcp", "epics.ca", "epics.pva"}
<1>1. ~(f.len < 34)  BY DEF decodeIPv4
<1>2. \/ o = Plain("ipv4", "confirmed")
      \/ Offset(f) = 0 /\ f.proto = UDP /\ o \in decodeUDP(f)
      \/ f.proto = TCP /\ o \in decodeTCP(f)
  BY <1>1 DEF decodeIPv4
<1> QED  BY <1>1, <1>2, PlainProto, OfTCP

\* What is shown of an IPv6 packet.
LEMMA OfIPv6 ==
  ASSUME NEW f, NEW o \in decodeIPv6(f)
  PROVE  ~(f.len < 54) /\ (o.proto = "ipv6" \/ (o.proto = "icmpv6" /\ f.proto = ICMPv6))
<1>1. ~(f.len < 54)  BY DEF decodeIPv6
<1>2. \/ o = Plain("ipv6", "confirmed")
      \/ f.proto = ICMPv6 /\ \E c : o = Plain("icmpv6", c)
  BY <1>1 DEF decodeIPv6
<1> QED  BY <1>1, <1>2, PlainProto

\* What is shown of a frame.
LEMMA OfFrame ==
  ASSUME NEW f, NEW o \in Decode(f)
  PROVE  /\ f.len >= 14
         /\ \/ o.proto = "ethernet"
            \/ SeenType(f) = TypeARP /\ o.proto = "arp"
            \/ SeenType(f) = TypeLLDP /\ o.proto = "lldp"
            \/ SeenType(f) = TypeIPv4 /\ o \in decodeIPv4(f)
            \/ SeenType(f) = TypeIPv6 /\ o \in decodeIPv6(f)
<1>1. f.len >= 14  BY DEF Decode, Whole
<1>2. \/ o = Plain("ethernet", "confirmed")
      \/ SeenType(f) = TypeARP /\ o \in decodeARP(f)
      \/ SeenType(f) = TypeLLDP /\ o \in decodeLLDP(f)
      \/ SeenType(f) = TypeIPv4 /\ o \in decodeIPv4(f)
      \/ SeenType(f) = TypeIPv6 /\ o \in decodeIPv6(f)
  BY TypesDiffer DEF Decode
<1>3. o \in decodeARP(f) => o = Plain("arp", "confirmed")  BY DEF decodeARP
<1>4. o \in decodeLLDP(f) => \E c : o = Plain("lldp", c)  BY DEF decodeLLDP
<1> QED  BY <1>1, <1>2, <1>3, <1>4, PlainProto

-----------------------------------------------------------------------------
(* What is asked for is matched.                                           *)

\* What each kind of rule matches: a type, a port or protocol of IPv4, and
\* neighbour discovery.
LEMMA MatchesType ==
  ASSUME NEW f, f.len >= 14, NEW t, t \in {TypeIPv4, TypeIPv6, TypeARP, TypeLLDP}, SeenType(f) = t
  PROVE  Matches(Rule(t, 0, 0), f)
BY DEF Matches, Rule

LEMMA MatchesPort ==
  ASSUME NEW f, Typed(f), SeenType(f) = TypeIPv4, f.len >= 34,
         NEW port, port = 0 \/ (Offset(f) = 0 /\ isPort(f, port) /\ f.len >= 18 + f.hl)
  PROVE  Matches(Rule(TypeIPv4, f.proto, port), f)
<1>1. f.len \in Nat /\ f.hl \in Nat /\ ~f.ext  BY Seen
<1>2. ProtoOffset(f) = 23  BY DEF ProtoOffset
<1>3. port # 0 => HasPort(f, port)  BY <1>1 DEF HasPort, isPort
<1>4. f.len >= 14 /\ f.len > 23  BY <1>1
<1> QED  BY <1>1, <1>2, <1>3, <1>4 DEF Matches, Rule

LEMMA MatchesND ==
  ASSUME NEW f, Typed(f), SeenType(f) = TypeIPv6, f.len >= 54, ~f.ext
  PROVE  Matches(Rule(TypeIPv6, f.proto, 0), f)
<1>1. f.len \in Nat  BY Seen
<1>2. ProtoOffset(f) = 20  BY TypesDiffer DEF ProtoOffset
<1>3. f.len >= 14 /\ f.len > 20  BY <1>1
<1> QED  BY <1>2, <1>3 DEF Matches, Rule

\* What a filter may lose besides runts.
Exempt(f) ==
  \/ f.ether = TypeIPv4 /\ f.proto = UDP /\ Elsewhere(f)
  \/ f.ether = TypeIPv6 /\ f.ext

\* What a name displays, one of its rules matches.
Asked(n, f) == \E j \in 1..Len(protocolRules[n]) : Matches(protocolRules[n][j], f)

\* A name has a rule.
Has(n, r) == \E j \in 1..Len(protocolRules[n]) : protocolRules[n][j] = r

\* A rule of a name that matches.
LEMMA AskedBy == ASSUME NEW n, NEW f, NEW r, Has(n, r), Matches(r, f)  PROVE Asked(n, f)
BY DEF Asked, Has

\* The first, second and third rule of a name.
LEMMA HasFirst ==
  ASSUME NEW n, NEW a, NEW s, protocolRules[n] = s,
         s = <<a>> \/ (\E b : s = <<a, b>>) \/ (\E b, c : s = <<a, b, c>>)
  PROVE  Has(n, a)
<1>1. 1 \in 1..Len(s) /\ s[1] = a  OBVIOUS
<1> QED  BY <1>1 DEF Has
LEMMA HasSecond ==
  ASSUME NEW n, NEW a, NEW b, NEW s, protocolRules[n] = s, s = <<a, b>> \/ (\E c : s = <<a, b, c>>)
  PROVE  Has(n, b)
<1>1. 2 \in 1..Len(s) /\ s[2] = b  OBVIOUS
<1> QED  BY <1>1 DEF Has
LEMMA HasThird ==
  ASSUME NEW n, NEW a, NEW b, NEW c, NEW s, protocolRules[n] = s, s = <<a, b, c>>  PROVE Has(n, c)
<1>1. 3 \in 1..Len(s) /\ s[3] = c  OBVIOUS
<1> QED  BY <1>1 DEF Has

\* What the names display, and their rules.
LEMMA NamesHave ==
  /\ displays["arp"] = "arp" /\ Has("arp", Rule(TypeARP, 0, 0))
  /\ displays["lldp"] = "lldp" /\ Has("lldp", Rule(TypeLLDP, 0, 0))
  /\ displays["ipv4"] = "ipv4" /\ Has("ipv4", Rule(TypeIPv4, 0, 0))
  /\ displays["ipv6"] = "ipv6" /\ Has("ipv6", Rule(TypeIPv6, 0, 0))
  /\ displays["ndp"] = "icmpv6" /\ Has("ndp", Rule(TypeIPv6, ICMPv6, 0))
  /\ displays["tcp"] = "tcp" /\ Has("tcp", AllTCP)
  /\ displays["dhcp"] = "dhcp" /\ Has("dhcp", OnUDP(ServerPort)) /\ Has("dhcp", OnUDP(ClientPort))
  /\ displays["ca"] = "epics.ca"
  /\ Has("ca", OnUDP(CAServer)) /\ Has("ca", OnUDP(CARepeater)) /\ Has("ca", AllTCP)
  /\ displays["pva"] = "epics.pva" /\ Has("pva", OnUDP(PVAUDP)) /\ Has("pva", AllTCP)
<1>1. /\ displays["arp"] = "arp" /\ displays["lldp"] = "lldp" /\ displays["ipv4"] = "ipv4"
      /\ displays["ipv6"] = "ipv6" /\ displays["ndp"] = "icmpv6" /\ displays["tcp"] = "tcp"
      /\ displays["dhcp"] = "dhcp" /\ displays["ca"] = "epics.ca" /\ displays["pva"] = "epics.pva"
  BY DEF displays
<1>2. protocolRules["arp"] = <<Rule(TypeARP, 0, 0)>>  BY DEF protocolRules
<1>3. protocolRules["lldp"] = <<Rule(TypeLLDP, 0, 0)>>  BY DEF protocolRules
<1>4. protocolRules["ipv4"] = <<Rule(TypeIPv4, 0, 0)>>  BY DEF protocolRules
<1>5. protocolRules["ipv6"] = <<Rule(TypeIPv6, 0, 0)>>  BY DEF protocolRules
<1>6. protocolRules["ndp"] = <<Rule(TypeIPv6, ICMPv6, 0)>>  BY DEF protocolRules
<1>7. protocolRules["tcp"] = <<AllTCP>>  BY DEF protocolRules
<1>8. protocolRules["dhcp"] = <<OnUDP(ServerPort), OnUDP(ClientPort)>>  BY DEF protocolRules
<1>9. protocolRules["ca"] = <<OnUDP(CAServer), OnUDP(CARepeater), AllTCP>>  BY DEF protocolRules
<1>10. protocolRules["pva"] = <<OnUDP(PVAUDP), AllTCP>>  BY DEF protocolRules
<1>11. /\ Has("arp", Rule(TypeARP, 0, 0)) /\ Has("lldp", Rule(TypeLLDP, 0, 0))
       /\ Has("ipv4", Rule(TypeIPv4, 0, 0)) /\ Has("ipv6", Rule(TypeIPv6, 0, 0))
  BY <1>2, <1>3, <1>4, <1>5, HasFirst
<1>12. Has("ndp", Rule(TypeIPv6, ICMPv6, 0)) /\ Has("tcp", AllTCP)  BY <1>6, <1>7, HasFirst
<1>13. Has("dhcp", OnUDP(ServerPort)) /\ Has("dhcp", OnUDP(ClientPort))  BY <1>8, HasFirst, HasSecond
<1>14. Has("ca", OnUDP(CAServer))  BY <1>9, HasFirst
<1>15. Has("ca", OnUDP(CARepeater)) /\ Has("ca", AllTCP)  BY <1>9, HasSecond, HasThird
<1>16. Has("pva", OnUDP(PVAUDP)) /\ Has("pva", AllTCP)  BY <1>10, HasFirst, HasSecond
<1> QED  BY <1>1, <1>11, <1>12, <1>13, <1>14, <1>15, <1>16

\* What a name displays it asked for, or the frame is exempt.
LEMMA ShownIsAsked ==
  ASSUME NEW f, Typed(f), NEW n, n \in DOMAIN displays, n # "frame",
         NEW o \in Decode(f), o.proto = displays[n]
  PROVE  Asked(n, f) \/ Exempt(f)
<1>1. /\ f.len >= 14
      /\ \/ o.proto = "ethernet"
         \/ SeenType(f) = TypeARP /\ o.proto = "arp"
         \/ SeenType(f) = TypeLLDP /\ o.proto = "lldp"
         \/ SeenType(f) = TypeIPv4 /\ o \in decodeIPv4(f)
         \/ SeenType(f) = TypeIPv6 /\ o \in decodeIPv6(f)
  BY OfFrame
<1>2. f.len \in Nat /\ f.hl \in Nat /\ (SeenType(f) = TypeIPv4 => f.ether = TypeIPv4)
      /\ (SeenType(f) = TypeIPv6 => f.ether = TypeIPv6)
  BY Seen
<1>3. o \in decodeIPv4(f) =>
        /\ f.len >= 34
        /\ \/ o.proto = "ipv4"
           \/ /\ Offset(f) = 0 /\ f.proto = UDP /\ f.len >= 18 + f.hl
              /\ \/ Elsewhere(f)
                 \/ o.proto = "dhcp" /\ (isPort(f, ServerPort) \/ isPort(f, ClientPort))
                 \/ o.proto = "epics.ca" /\ (isPort(f, CAServer) \/ isPort(f, CARepeater))
                 \/ o.proto = "epics.pva" /\ isPort(f, PVAUDP)
           \/ f.proto = TCP /\ o.proto \in {"tcp", "epics.ca", "epics.pva"}
  <2> SUFFICES ASSUME o \in decodeIPv4(f)
               PROVE  /\ f.len >= 34
                      /\ \/ o.proto = "ipv4"
                         \/ /\ Offset(f) = 0 /\ f.proto = UDP /\ f.len >= 18 + f.hl
                            /\ \/ Elsewhere(f)
                               \/ o.proto = "dhcp" /\ (isPort(f, ServerPort) \/ isPort(f, ClientPort))
                               \/ o.proto = "epics.ca" /\ (isPort(f, CAServer) \/ isPort(f, CARepeater))
                               \/ o.proto = "epics.pva" /\ isPort(f, PVAUDP)
                         \/ f.proto = TCP /\ o.proto \in {"tcp", "epics.ca", "epics.pva"}
    OBVIOUS
  <2>1. /\ ~(f.len < 34)
        /\ \/ o.proto = "ipv4"
           \/ Offset(f) = 0 /\ f.proto = UDP /\ o \in decodeUDP(f)
           \/ f.proto = TCP /\ o.proto \in {"tcp", "epics.ca", "epics.pva"}
    BY OfIPv4
  <2>2. f.len >= 34  BY <1>2, <2>1
  <2>3. CASE o \in decodeUDP(f)
    <3>1. /\ ~(f.len < 22 + f.hl)
          /\ \/ Elsewhere(f)
             \/ o.proto = "dhcp" /\ (isPort(f, ServerPort) \/ isPort(f, ClientPort))
             \/ o.proto = "epics.ca" /\ (isPort(f, CAServer) \/ isPort(f, CARepeater))
             \/ o.proto = "epics.pva" /\ isPort(f, PVAUDP)
      BY <2>3, OfUDP
    <3>2. f.len >= 18 + f.hl  BY <1>2, <3>1
    <3> QED  BY <2>1, <2>2, <3>1, <3>2
  <2>4. CASE o \notin decodeUDP(f)  BY <2>1, <2>2, <2>4
  <2> QED  BY <2>3, <2>4
<1>4. o \in decodeIPv6(f) => f.len >= 54 /\ (o.proto = "ipv6" \/ (o.proto = "icmpv6" /\ f.proto = ICMPv6))
  BY <1>2, OfIPv6
<1>5. SeenType(f) = TypeIPv4 /\ f.proto = UDP /\ Elsewhere(f) => Exempt(f)  BY <1>2 DEF Exempt
<1>6. n \in {"arp", "lldp", "ipv4", "dhcp", "ipv6", "ndp", "tcp", "ca", "pva"}  BY DEF displays
<1>7. ASSUME SeenType(f) = TypeIPv4, f.len >= 34, Offset(f) = 0, f.proto = UDP, f.len >= 18 + f.hl,
             NEW port, isPort(f, port)
      PROVE  Matches(OnUDP(port), f)
  BY <1>7, MatchesPort DEF OnUDP
<1>8. ASSUME SeenType(f) = TypeIPv4, f.len >= 34, f.proto = TCP  PROVE Matches(AllTCP, f)
  BY <1>8, MatchesPort DEF AllTCP
<1>9. \/ SeenType(f) = TypeARP /\ o.proto = "arp"
      \/ SeenType(f) = TypeLLDP /\ o.proto = "lldp"
      \/ SeenType(f) = TypeIPv4 /\ f.len >= 34 /\ o.proto = "ipv4"
      \/ SeenType(f) = TypeIPv4 /\ f.len >= 34 /\ f.proto = TCP /\ o.proto \in {"tcp", "epics.ca", "epics.pva"}
      \/ /\ SeenType(f) = TypeIPv4 /\ f.len >= 34 /\ Offset(f) = 0 /\ f.proto = UDP /\ f.len >= 18 + f.hl
         /\ \/ Elsewhere(f)
            \/ o.proto = "dhcp" /\ (isPort(f, ServerPort) \/ isPort(f, ClientPort))
            \/ o.proto = "epics.ca" /\ (isPort(f, CAServer) \/ isPort(f, CARepeater))
            \/ o.proto = "epics.pva" /\ isPort(f, PVAUDP)
      \/ SeenType(f) = TypeIPv6 /\ o.proto = "ipv6"
      \/ SeenType(f) = TypeIPv6 /\ f.len >= 54 /\ f.proto = ICMPv6 /\ o.proto = "icmpv6"
      \/ o.proto = "ethernet"
  BY <1>1, <1>3, <1>4
<1>10. o.proto # "ethernet"  BY <1>6, NamesHave
<1>11. CASE SeenType(f) = TypeARP /\ o.proto = "arp"
  <2>1. n = "arp"  BY <1>6, <1>11, NamesHave
  <2>2. Matches(Rule(TypeARP, 0, 0), f)  BY <1>1, <1>11, MatchesType
  <2> QED  BY <2>1, <2>2, NamesHave, AskedBy
<1>12. CASE SeenType(f) = TypeLLDP /\ o.proto = "lldp"
  <2>1. n = "lldp"  BY <1>6, <1>12, NamesHave
  <2>2. Matches(Rule(TypeLLDP, 0, 0), f)  BY <1>1, <1>12, MatchesType
  <2> QED  BY <2>1, <2>2, NamesHave, AskedBy
<1>13. CASE SeenType(f) = TypeIPv4 /\ f.len >= 34 /\ o.proto = "ipv4"
  <2>1. n = "ipv4"  BY <1>6, <1>13, NamesHave
  <2>2. Matches(Rule(TypeIPv4, 0, 0), f)  BY <1>1, <1>13, MatchesType
  <2> QED  BY <2>1, <2>2, NamesHave, AskedBy
<1>14. CASE SeenType(f) = TypeIPv4 /\ f.len >= 34 /\ f.proto = TCP /\ o.proto \in {"tcp", "epics.ca", "epics.pva"}
  <2>1. n \in {"tcp", "ca", "pva"}  BY <1>6, <1>14, NamesHave
  <2>2. Matches(AllTCP, f)  BY <1>8, <1>14
  <2>3. Has(n, AllTCP)  BY <2>1, NamesHave
  <2> QED  BY <2>2, <2>3, AskedBy
<1>15. CASE /\ SeenType(f) = TypeIPv4 /\ f.len >= 34 /\ Offset(f) = 0 /\ f.proto = UDP /\ f.len >= 18 + f.hl
            /\ \/ Elsewhere(f)
               \/ o.proto = "dhcp" /\ (isPort(f, ServerPort) \/ isPort(f, ClientPort))
               \/ o.proto = "epics.ca" /\ (isPort(f, CAServer) \/ isPort(f, CARepeater))
               \/ o.proto = "epics.pva" /\ isPort(f, PVAUDP)
  <2>1. \A port : isPort(f, port) => Matches(OnUDP(port), f)  BY <1>7, <1>15
  <2>2. CASE Elsewhere(f)  BY <1>5, <1>15, <2>2
  <2>3. CASE o.proto = "dhcp" /\ (isPort(f, ServerPort) \/ isPort(f, ClientPort))
    <3>1. n = "dhcp"  BY <1>6, <2>3, NamesHave
    <3>2. PICK port : isPort(f, port) /\ Has(n, OnUDP(port))  BY <2>3, <3>1, NamesHave
    <3> QED  BY <2>1, <3>2, AskedBy
  <2>4. CASE o.proto = "epics.ca" /\ (isPort(f, CAServer) \/ isPort(f, CARepeater))
    <3>1. n = "ca"  BY <1>6, <2>4, NamesHave
    <3>2. PICK port : isPort(f, port) /\ Has(n, OnUDP(port))  BY <2>4, <3>1, NamesHave
    <3> QED  BY <2>1, <3>2, AskedBy
  <2>5. CASE o.proto = "epics.pva" /\ isPort(f, PVAUDP)
    <3>1. n = "pva"  BY <1>6, <2>5, NamesHave
    <3>2. PICK port : isPort(f, port) /\ Has(n, OnUDP(port))  BY <2>5, <3>1, NamesHave
    <3> QED  BY <2>1, <3>2, AskedBy
  <2> QED  BY <1>15, <2>2, <2>3, <2>4, <2>5
<1>16. CASE SeenType(f) = TypeIPv6 /\ o.proto = "ipv6"
  <2>1. n = "ipv6"  BY <1>6, <1>16, NamesHave
  <2>2. Matches(Rule(TypeIPv6, 0, 0), f)  BY <1>1, <1>16, MatchesType
  <2> QED  BY <2>1, <2>2, NamesHave, AskedBy
<1>17. CASE SeenType(f) = TypeIPv6 /\ f.len >= 54 /\ f.proto = ICMPv6 /\ o.proto = "icmpv6"
  <2>1. n = "ndp"  BY <1>6, <1>17, NamesHave
  <2>2. CASE f.ext  BY <1>2, <1>17, <2>2 DEF Exempt
  <2>3. CASE ~f.ext
    <3>1. Matches(Rule(TypeIPv6, ICMPv6, 0), f)  BY <1>17, <2>3, MatchesND
    <3> QED  BY <2>1, <3>1, NamesHave, AskedBy
  <2> QED  BY <2>2, <2>3
<1> QED  BY <1>9, <1>10, <1>11, <1>12, <1>13, <1>14, <1>15, <1>16, <1>17

-----------------------------------------------------------------------------
(* The filter and the decoder agree.                                       *)

\* The ten names give at most 234 instructions, and jumps reach 255.
LEMMA RulesInRange ==
  ASSUME NEW ns, ns \subseteq DOMAIN displays, NEW rs, RulesFor(rs, ns), rs # <<>>
  PROVE  InRange(Assemble(rs))
<1> DEFINE m == Cardinality(ns \ {"frame"})
<1>1. m \in Nat /\ m <= 9  BY NamesCounted
<1>2. FilterRules(rs) /\ Size(rs) \in Nat /\ Size(rs) <= 26 * m  BY DEF RulesFor
<1> HIDE DEF m
<1>3. Size(rs) <= 255  BY <1>1, <1>2
<1>4. Blocks(BlocksOf(rs)) /\ Assemble(rs) = link(BlocksOf(rs))  BY <1>2, AssembleIs
<1>5. Total(BlocksOf(rs)) <= maxJump  BY <1>3 DEF Size, maxJump
<1> QED  BY <1>4, <1>5, LinkedForward

\* The rules not yet attached make a program that is exact.
LEMMA ExactHolds == FilterInv => FilterExact
<1> SUFFICES ASSUME FilterInv, ~open, rules # <<>>
             PROVE  LET prog == Assemble(rules) IN
                      /\ InRange(prog)
                      /\ \A f \in Frames :
                           LET match == \E i \in DOMAIN rules : Matches(rules[i], f) IN
                             /\ Accepts(prog, f) => match
                             /\ match => Accepts(prog, f) \/ Runt(f)
  BY DEF FilterExact
<1>1. names \subseteq DOMAIN displays /\ RulesFor(rules, names) /\ FilterRules(rules)
  BY DEF FilterInv, RulesFor
<1>2. InRange(Assemble(rules))  BY <1>1, RulesInRange
<1>3. ASSUME NEW f \in Frames
      PROVE  LET match == \E i \in DOMAIN rules : Matches(rules[i], f) IN
               /\ Accepts(Assemble(rules), f) => match
               /\ match => Accepts(Assemble(rules), f) \/ Runt(f)
  <2>1. Typed(f)  BY FramesTyped
  <2> QED  BY <1>1, <2>1, AssembleExact
<1> QED  BY <1>2, <1>3

\* A name with rules has a first one.
LEMMA NameHasRule ==
  ASSUME NEW n \in DOMAIN displays, protocolRules[n] # <<>>
  PROVE  n # "frame" /\ 1 \in 1..Len(protocolRules[n])
<1> DEFINE k == protocolRules[n]
<1>1. \/ n = "frame" /\ k = <<>>
      \/ n # "frame" /\ \E a : k = <<a>>
      \/ n # "frame" /\ \E a, b : k = <<a, b>>
      \/ n # "frame" /\ \E a, b, c : k = <<a, b, c>>
  BY RulesOfName
<1>2. k # <<>>  OBVIOUS
<1> HIDE DEF k
<1>3. n # "frame" /\ 1 \in 1..Len(k)  BY <1>1, <1>2
<1> QED  BY <1>3 DEF k

\* The program of a socket: that of rules for all the names.
LEMMA KernelIs ==
  ASSUME FilterInv, open, kernel # <<>>
  PROVE  /\ names \subseteq DOMAIN displays /\ names # {}
         /\ \A n \in names : n # "frame"
         /\ \E rs : RulesFor(rs, names) /\ rs # <<>> /\ kernel = Assemble(rs)
<1>1. names \subseteq DOMAIN displays /\ KernelFilter  BY DEF FilterInv
<1>2. PICK rs : RulesFor(rs, names) /\ kernel = Assemble(rs)  BY DEF FilterInv
<1>3. names # {} /\ \A n \in names : protocolRules[n] # <<>>  BY <1>1 DEF KernelFilter
<1>4. \A n \in names : n # "frame" /\ 1 \in 1..Len(protocolRules[n])  BY <1>1, <1>3, NameHasRule
<1>5. rs # <<>>
  <2>1. PICK n \in names : 1 \in 1..Len(protocolRules[n])  BY <1>3, <1>4
  <2>2. Covers(rs, n)  BY <1>2 DEF RulesFor
  <2>3. PICK i \in 1..Len(rs) : rs[i] = protocolRules[n][1]  BY <2>1, <2>2 DEF Covers
  <2>4. Len(<<>>) = 0 /\ 1..0 = {}  OBVIOUS
  <2> QED  BY <2>3, <2>4
<1> QED  BY <1>1, <1>2, <1>3, <1>4, <1>5

\* The program attached has jumps in range.
LEMMA KernelInRange == FilterInv => InRange(kernel)
<1> SUFFICES ASSUME FilterInv  PROVE InRange(kernel)
  OBVIOUS
<1>1. CASE kernel = <<>>  BY <1>1 DEF InRange
<1>2. CASE kernel # <<>>
  <2>1. open  BY <1>2 DEF FilterInv
  <2>2. PICK rs : RulesFor(rs, names) /\ rs # <<>> /\ kernel = Assemble(rs)  BY <1>2, <2>1, KernelIs
  <2>3. names \subseteq DOMAIN displays  BY DEF FilterInv
  <2> QED  BY <2>2, <2>3, RulesInRange
<1> QED  BY <1>1, <1>2

\* The program attached hides no more than it may.
LEMMA HidesOnly == FilterInv => KernelHidesOnly
<1> SUFFICES ASSUME FilterInv, open, NEW f \in Frames, ~Delivered(f), wantPacket(Decode(f))
             PROVE  Exempt(f) \/ Runt(f)
  BY DEF KernelHidesOnly, Exempt, Elsewhere
<1>1. kernel # <<>> /\ ~Accepts(kernel, f)  BY DEF Delivered
<1>2. /\ names \subseteq DOMAIN displays /\ names # {}
      /\ \A n \in names : n # "frame"
  BY <1>1, KernelIs
<1>3. PICK rs : RulesFor(rs, names) /\ rs # <<>> /\ kernel = Assemble(rs)  BY <1>1, KernelIs
<1>4. Typed(f)  BY FramesTyped
<1>5. PICK n \in names : \E o \in Decode(f) : o.proto = displays[n]  BY <1>2 DEF wantPacket
<1>6. PICK o \in Decode(f) : o.proto = displays[n]  BY <1>5
<1>7. Asked(n, f) \/ Exempt(f)  BY <1>2, <1>4, <1>6, ShownIsAsked
<1>8. ASSUME Asked(n, f)  PROVE Runt(f)
  <2>1. PICK j \in 1..Len(protocolRules[n]) : Matches(protocolRules[n][j], f)  BY <1>8 DEF Asked
  <2>2. FilterRules(rs) /\ Covers(rs, n)  BY <1>3 DEF RulesFor
  <2>3. PICK i \in 1..Len(rs) : rs[i] = protocolRules[n][j]  BY <2>2 DEF Covers
  <2>4. DOMAIN rs = 1..Len(rs)  BY <2>2, FilterRulesAre
  <2>5. \E k \in DOMAIN rs : Matches(rs[k], f)  BY <2>1, <2>3, <2>4
  <2>6. Accepts(Assemble(rs), f) \/ Runt(f)  BY <1>3, <1>4, <2>2, <2>5, AssembleExact
  <2> QED  BY <1>1, <1>3, <2>6
<1> QED  BY <1>7, <1>8

\* The filter and the decoder agree on what is worth seeing.
THEOREM FilterIsSound == DecoderSpec => []FilterSound
<1>1. FilterInv => FilterSound  BY ExactHolds, KernelInRange, HidesOnly DEF FilterSound
<1> QED  BY <1>1, FilterBegins, FilterStep, PTL DEF DecoderSpec
=============================================================================
