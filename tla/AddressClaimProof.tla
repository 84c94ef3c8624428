-------------------------- MODULE AddressClaimProof --------------------------
(***************************************************************************)
(* Proofs about AddressClaim, for any number of hosts, probes and losses   *)
(* (fewer losses than probes).  Beside the types, the invariant follows    *)
(* the exchanges: probe and answer, one or the other under way or lost.    *)
(***************************************************************************)
EXTENDS AddressClaim, FiniteSetTheorems, TLAPS

\* The parts of the type invariant, in a form the provers take at once.
Typed ==
  /\ step \in [Hosts -> Steps] /\ exit \in [Hosts -> Exits]
  /\ sent \in [Hosts -> 0..ProbeCount] /\ flight \subseteq Frames
  /\ holds \subseteq Hosts /\ added \subseteq Hosts /\ cancelled \subseteq Hosts
  /\ probed \subseteq Hosts /\ cut \subseteq Hosts /\ late \subseteq Hosts
  /\ replies \in [Hosts -> SUBSET Hosts] /\ \A h \in Hosts : h \notin replies[h]
  /\ lost \in 0..MaxLost /\ there \in [Hosts -> SUBSET Hosts]

\* Budgets and histories that fit the place where a command stands.
Placed ==
  /\ added \subseteq holds /\ cut \subseteq cancelled
  /\ \A h \in Hosts :
       /\ step[h] \in {"idle", "confirm", "confirm sweep", "request"} => sent[h] = 0
       /\ step[h] = "send" => sent[h] < ProbeCount
       /\ step[h] = "add" => sent[h] = ProbeCount
       /\ step[h] # "over" => exit[h] = "none"
       /\ h \in added => step[h] = "over"
       /\ there[h] \subseteq holds \ {h}

\* Only holders answer or announce, only who probed has probes under way.
Flights ==
  \A f \in flight :
    /\ f.from # f.to
    /\ f.kind \in {"reply", "claim"} => f.from \in holds
    /\ f.kind = "probe" => f.from \in probed

\* Who merely asks does not claim.
Askers ==
  \A f \in flight :
    f.kind = "request" => step[f.from] \in {"collect", "over"} /\ f.from \notin added

\* The n-th probe of h to a, or the answer to it, is under way.
Open(h, a, n) ==
  \E f \in flight :
    /\ f.n = n
    /\ \/ f.kind = "probe" /\ f.from = h /\ f.to = a
       \/ f.kind = "reply" /\ f.from = a /\ f.to = h

\* The probes of h to a of which nothing is under way.
Closed(h, a) == {n \in 1..sent[h] : ~Open(h, a, n)}

Past(h) == step[h] = "add" \/ h \in added

\* While h probes, every closed exchange with a resident was a loss.
Losses ==
  \A h \in Hosts : \A a \in there[h] :
    step[h] \in {"send", "listen"} => Cardinality(Closed(h, a)) <= lost

\* Behind the probe, an open exchange or a resident means that h was early.
Early ==
  \A h \in Hosts :
    Past(h) => /\ there[h] = {} \/ h \in late
               /\ \A a \in Hosts, n \in 1..ProbeCount : Open(h, a, n) => h \in late

\* All probes of h are sent.
Probed(h) == Past(h) \/ (step[h] = "listen" /\ sent[h] = ProbeCount)

\* Two hosts that have sent their last probes: one of these is under way,
\* or one host was too early or blind.
Met ==
  \A a, b \in Hosts :
    a # b /\ Probed(a) /\ Probed(b) =>
      \/ a \in late \/ b \in late
      \/ <<a, b>> \in blind \/ <<b, a>> \in blind
      \/ Open(a, b, ProbeCount) \/ Open(b, a, ProbeCount)

\* The question of h to g, or the answer to it, is under way.
Asked(h, g) ==
  \E f \in flight :
    \/ f.kind \in {"probe", "request"} /\ f.from = h /\ f.to = g
    \/ f.kind = "reply" /\ f.from = g /\ f.to = h

\* A sweep that lost nothing has an answer of every holder, or waits for it.
Swept ==
  \A h \in Hosts :
    step[h] = "collect" /\ h \notin holds /\ lost = 0 =>
      \A g \in there[h] : g \in replies[h] \/ Asked(h, g)

Inv ==
  /\ Typed /\ Placed /\ Flights /\ Askers /\ Losses /\ Early /\ Met
  /\ Swept /\ SweepExact /\ RefusalFounded

LEMMA Bounds == ProbeCount \in Nat /\ MaxLost \in Nat /\ MaxLost < ProbeCount /\ 0 < ProbeCount
BY ProbesOutlastLoss

-----------------------------------------------------------------------------
(* Frames.                                                                 *)

\* A set that gains at most one element gains at most one in size.
LEMMA AtMostOneMore ==
  ASSUME NEW k \in Nat, NEW S \in SUBSET (1..k), NEW T, NEW e, T \subseteq S \cup {e}
  PROVE  /\ Cardinality(S) \in Nat /\ Cardinality(T) \in Nat
         /\ Cardinality(T) <= Cardinality(S) + 1
         /\ T \subseteq S => Cardinality(T) <= Cardinality(S)
<1>0. 1 \in Int /\ k \in Int
  OBVIOUS
<1>1. IsFiniteSet(1..k)
  BY <1>0, FS_Interval
<1>1a. IsFiniteSet(S)
  BY <1>1, FS_Subset
<1>1b. Cardinality(S) \in Nat
  BY <1>1a, FS_CardinalityType
<1>2. /\ IsFiniteSet(S \cup {e})
      /\ Cardinality(S \cup {e}) = IF e \in S THEN Cardinality(S) ELSE Cardinality(S) + 1
  BY <1>1a, FS_AddElement
<1>2a. Cardinality(S \cup {e}) <= Cardinality(S) + 1
  BY <1>1b, <1>2
<1>3. IsFiniteSet(T) /\ Cardinality(T) <= Cardinality(S \cup {e})
  BY <1>2, FS_Subset
<1>4. T \subseteq S => Cardinality(T) <= Cardinality(S)
  BY <1>1a, FS_Subset
<1>5. Cardinality(S \cup {e}) \in Nat /\ Cardinality(T) \in Nat
  BY <1>2, <1>3, FS_CardinalityType
<1> QED BY <1>1b, <1>2a, <1>3, <1>4, <1>5

\* All closed: no loss is left for the last of them.
LEMMA AllClosed ==
  ASSUME NEW h \in Hosts, NEW a, sent[h] = ProbeCount, Cardinality(Closed(h, a)) <= MaxLost
  PROVE  \E n \in 1..ProbeCount : Open(h, a, n)
<1> SUFFICES ASSUME \A n \in 1..ProbeCount : ~Open(h, a, n) PROVE FALSE
  OBVIOUS
<1>1. Closed(h, a) = 1..ProbeCount
  BY DEF Closed
<1>2. 1 \in Int /\ ProbeCount \in Int
  BY Bounds
<1>3. Cardinality(1..ProbeCount) = IF 1 > ProbeCount THEN 0 ELSE ProbeCount - 1 + 1
  BY <1>2, FS_Interval
<1>4. Cardinality(1..ProbeCount) = ProbeCount
  BY <1>3, Bounds
<1> QED BY <1>1, <1>4, Bounds

-----------------------------------------------------------------------------
(* Init.                                                                   *)

LEMMA InitInv == Init => Inv
<1> SUFFICES ASSUME Init PROVE Inv
  OBVIOUS
<1>1. Typed /\ Placed
  BY Bounds DEF Init, Typed, Placed, Steps, Exits
<1>2. Flights /\ Askers /\ Swept
  BY DEF Init, Flights, Askers, Swept
<1>3. Losses /\ Early
  BY DEF Init, Losses, Early, Past
<1>4. Met
  BY DEF Init, Met, Probed, Past
<1>5. SweepExact /\ RefusalFounded
  BY DEF Init, SweepExact, RefusalFounded
<1> QED BY <1>1, <1>2, <1>3, <1>4, <1>5 DEF Inv

-----------------------------------------------------------------------------
(* Phases and Flights.                                                     *)

LEMMA Below == ASSUME NEW m \in Nat, NEW k \in 0..m, k < m PROVE k + 1 \in 0..m
OBVIOUS

LEMMA AtTop == ASSUME NEW m \in Nat, NEW k \in 0..m, ~(k < m) PROVE k = m
OBVIOUS

\* What a host that may send a frame sends is within the budget.
LEMMA Budget ==
  ASSUME Typed, Placed, NEW h \in Hosts, step[h] \in {"send", "request"}
  PROVE  sent[h] \in 0..ProbeCount /\ sent[h] + 1 \in 1..ProbeCount
<1>1. sent[h] \in 0..ProbeCount
  BY DEF Typed
<1>2. sent[h] < ProbeCount
  BY <1>1, Bounds DEF Placed
<1> QED BY <1>1, <1>2, Bounds

LEMMA BroadcastTyped ==
  ASSUME Typed, NEW h \in Hosts, NEW kind \in {"probe", "request", "claim"},
         sent[h] \in 0..ProbeCount, sent[h] + 1 \in 1..ProbeCount, Broadcast(h, kind)
  PROVE  flight' \subseteq Frames /\ sent' \in [Hosts -> 0..ProbeCount]
<1>1. \A g \in Hosts : [kind |-> kind, from |-> h, to |-> g, n |-> sent[h] + 1] \in Frames
  BY DEF Frames
<1>2. flight' \subseteq Frames
  BY <1>1 DEF Typed, Broadcast
<1>3. sent[h] + 1 \in 0..ProbeCount
  BY Bounds
<1>4. sent' \in [Hosts -> 0..ProbeCount]
  BY <1>3 DEF Typed, Broadcast
<1> QED BY <1>2, <1>4

LEMMA AnswerTyped ==
  ASSUME Typed, Flights, NEW f \in flight, Arrive(f)
  PROVE  f \in Frames /\ f.from \in Hosts /\ f.to \in Hosts /\ f.from # f.to /\ flight' \subseteq Frames
<1>1. f \in Frames /\ f.from \in Hosts /\ f.to \in Hosts /\ f.n \in 1..ProbeCount /\ f.from # f.to
  BY DEF Typed, Frames, Flights
<1>2. [kind |-> "reply", from |-> f.to, to |-> f.from, n |-> f.n] \in Frames
  BY <1>1 DEF Frames
<1>3. Answer(f) \subseteq Frames
  BY <1>2 DEF Answer
<1>4. flight' \subseteq Frames
  BY <1>3 DEF Arrive, Typed
<1> QED BY <1>1, <1>4

LEMMA TypedStep == Typed /\ Placed /\ Flights /\ Next => Typed'
<1> SUFFICES ASSUME Typed, Placed, Flights, Next PROVE Typed'
  OBVIOUS
<1> USE Bounds DEF Typed, Steps, Exits, processVars, segmentVars, quiet, Goto, End
<1>1. ASSUME NEW h \in Hosts, Cancel(h) PROVE Typed'
  BY <1>1 DEF Cancel
<1>2. ASSUME NEW h \in Hosts, Connect(h) PROVE Typed'
  BY <1>2 DEF Connect, Verdict
<1>3. ASSUME NEW h \in Hosts, Probe(h) PROVE Typed'
  BY <1>3 DEF Probe
<1>4. ASSUME NEW h \in Hosts, Confirm(h) PROVE Typed'
  BY ZenonT(30), <1>4 DEF Confirm, Confirmed
<1>5. ASSUME NEW h \in Hosts, NotPlanned(h) \/ NotConfirmed(h) PROVE Typed'
  BY ZenonT(30), <1>5 DEF NotPlanned, NotConfirmed
<1>6. ASSUME NEW h \in Hosts, SendProbe(h) PROVE Typed'
  <2>1. flight' \subseteq Frames /\ sent' \in [Hosts -> 0..ProbeCount]
    BY <1>6, Budget, BroadcastTyped DEF SendProbe
  <2> QED BY <1>6, <2>1 DEF SendProbe
<1>7. ASSUME NEW h \in Hosts, WindowEnds(h) PROVE Typed'
  <2>1. CASE sent[h] < ProbeCount
    <3>1. step' = [step EXCEPT ![h] = "send"] /\ UNCHANGED <<cut, late>>
      BY <1>7, <2>1 DEF WindowEnds
    <3> QED BY <1>7, <3>1 DEF WindowEnds
  <2>2. CASE ~(sent[h] < ProbeCount)
    <3>1. step' = [step EXCEPT ![h] = "add"] /\ cut' \subseteq cut \cup {h} /\ late' \subseteq late \cup {h}
      BY <1>7, <2>2 DEF WindowEnds
    <3> QED BY <1>7, <3>1 DEF WindowEnds
  <2> QED BY <2>1, <2>2
<1>8. ASSUME NEW h \in Hosts, ProbeFails(h) PROVE Typed'
  BY <1>8 DEF ProbeFails
<1>9. ASSUME NEW h \in Hosts, Added(h) PROVE Typed'
  BY ZenonT(30), <1>9 DEF Added
<1>10. ASSUME NEW h \in Hosts, NotAdded(h) PROVE Typed'
  BY ZenonT(30), <1>10 DEF NotAdded
<1>11. ASSUME NEW h \in Hosts, SendRequest(h) PROVE Typed'
  <2>2. PICK kind \in {"request", "claim", "probe"} :
          Broadcast(h, kind) /\ probed' = IF kind = "probe" THEN probed \cup {h} ELSE probed
    BY <1>11 DEF SendRequest, RequestKinds
  <2>3. flight' \subseteq Frames /\ sent' \in [Hosts -> 0..ProbeCount]
    BY <1>11, <2>2, Budget, BroadcastTyped DEF SendRequest
  <2> QED BY <1>11, <2>2, <2>3 DEF SendRequest
<1>12. ASSUME NEW h \in Hosts, SweepEnds(h) PROVE Typed'
  BY <1>12 DEF SweepEnds
<1>13. ASSUME NEW h \in Hosts, SweepFails(h) PROVE Typed'
  BY <1>13 DEF SweepFails
<1>14. ASSUME NEW f \in flight, Arrive(f) PROVE Typed'
  <2>1. f.from \in Hosts /\ f.to \in Hosts /\ f.from # f.to
    BY <1>14, AnswerTyped
  <2>2. flight' \subseteq Frames
    BY <1>14, AnswerTyped
  <2>3. step' \in [Hosts -> Steps] /\ exit' \in [Hosts -> Exits]
    BY <1>14, <2>1 DEF Arrive
  <2>4. replies' \in [Hosts -> SUBSET Hosts] /\ \A h \in Hosts : h \notin replies'[h]
    BY <1>14, <2>1 DEF Arrive
  <2> QED BY <1>14, <2>2, <2>3, <2>4 DEF Arrive
<1>15. ASSUME NEW f \in flight, Lose(f) PROVE Typed'
  <2>0. lost \in 0..MaxLost /\ lost < MaxLost /\ lost' = lost + 1 /\ flight' = flight \ {f}
    BY <1>15 DEF Lose
  <2>1. lost' \in 0..MaxLost /\ flight' \subseteq Frames
    BY <2>0, Below
  <2> QED BY <1>15, <2>1 DEF Lose
<1> QED BY <1>1, <1>2, <1>3, <1>4, <1>5, <1>6, <1>7, <1>8,
  <1>9, <1>10, <1>11, <1>12, <1>13, <1>14, <1>15 DEF Next, Run

LEMMA PlacedStep == Typed /\ Placed /\ Flights /\ Next => Placed'
<1> SUFFICES ASSUME Typed, Placed, Flights, Next PROVE Placed'
  OBVIOUS
<1> USE Bounds DEF Typed, Placed, processVars, segmentVars, quiet, Goto, End
<1>1. ASSUME NEW h \in Hosts, Cancel(h) PROVE Placed'
  BY <1>1 DEF Cancel
<1>2. ASSUME NEW h \in Hosts, Connect(h) PROVE Placed'
  BY <1>2 DEF Connect, Verdict
<1>3. ASSUME NEW h \in Hosts, Probe(h) PROVE Placed'
  BY <1>3 DEF Probe
<1>4. ASSUME NEW h \in Hosts, Confirm(h) PROVE Placed'
  <2>1. CASE Confirmed(h, "confirm", "send")
    BY <2>1 DEF Confirmed
  <2>2. CASE Confirmed(h, "confirm sweep", "request")
    BY <2>2 DEF Confirmed
  <2> QED BY <1>4, <2>1, <2>2 DEF Confirm
<1>5. ASSUME NEW h \in Hosts, NotPlanned(h) \/ NotConfirmed(h) PROVE Placed'
  BY <1>5 DEF NotPlanned, NotConfirmed
<1>6. ASSUME NEW h \in Hosts, SendProbe(h) PROVE Placed'
  BY <1>6 DEF SendProbe, Broadcast, Frames
<1>7. ASSUME NEW h \in Hosts, WindowEnds(h) PROVE Placed'
  <2>1. CASE sent[h] < ProbeCount
    BY <1>7, <2>1 DEF WindowEnds
  <2>2. CASE ~(sent[h] < ProbeCount)
    <3>0. sent[h] \in 0..ProbeCount
      OBVIOUS
    <3>1. sent[h] = ProbeCount
      BY <2>2, <3>0, AtTop
    <3> QED BY <1>7, <2>2, <3>1, ZenonT(30) DEF WindowEnds
  <2> QED BY <2>1, <2>2
<1>8. ASSUME NEW h \in Hosts, ProbeFails(h) PROVE Placed'
  BY <1>8 DEF ProbeFails
<1>9. ASSUME NEW h \in Hosts, Added(h) PROVE Placed'
  BY <1>9, ZenonT(30) DEF Added
<1>10. ASSUME NEW h \in Hosts, NotAdded(h) PROVE Placed'
  BY <1>10, ZenonT(30) DEF NotAdded
<1>11. ASSUME NEW h \in Hosts, SendRequest(h) PROVE Placed'
  BY <1>11 DEF SendRequest, Broadcast, Frames, RequestKinds
<1>12. ASSUME NEW h \in Hosts, SweepEnds(h) PROVE Placed'
  BY <1>12 DEF SweepEnds
<1>13. ASSUME NEW h \in Hosts, SweepFails(h) PROVE Placed'
  BY <1>13 DEF SweepFails
<1>14. ASSUME NEW f \in flight, Arrive(f) PROVE Placed'
  <2>1. CASE step[f.to] = "listen" /\ Conflicts(f)
    <3>1. f.to \in Hosts /\ f.to \notin added
      BY <1>14, <2>1, AnswerTyped
    <3>2. step' = [step EXCEPT ![f.to] = "over"] /\ exit' = [exit EXCEPT ![f.to] = "unsafe"]
      BY <1>14, <2>1 DEF Arrive
    <3>3. UNCHANGED <<sent, there, cut, cancelled, holds, added>>
      BY <1>14 DEF Arrive
    <3> QED BY <3>1, <3>2, <3>3
  <2>2. CASE ~(step[f.to] = "listen" /\ Conflicts(f))
    BY <1>14, <2>2 DEF Arrive
  <2> QED BY <2>1, <2>2
<1>15. ASSUME NEW f \in flight, Lose(f) PROVE Placed'
  BY <1>15 DEF Lose
<1> QED BY <1>1, <1>2, <1>3, <1>4, <1>5, <1>6, <1>7, <1>8,
  <1>9, <1>10, <1>11, <1>12, <1>13, <1>14, <1>15 DEF Next, Run

\* Frames only appear; hosts hold the address, and have probed, for good.
LEMMA Growing ==
  Typed /\ Next => holds \subseteq holds' /\ probed \subseteq probed' /\ added \subseteq added'
BY DEF Next, Run, Cancel, Connect, Probe, Confirm, Confirmed, NotPlanned, NotConfirmed, SendProbe, Broadcast,
  WindowEnds, ProbeFails, Added, NotAdded, SendRequest, SweepEnds, SweepFails, Arrive, Lose,
  Goto, End, quiet, processVars, segmentVars

LEMMA FlightsStep == Typed /\ Flights /\ Next => Flights'
<1> SUFFICES ASSUME Typed, Flights, Next PROVE Flights'
  OBVIOUS
<1> USE Growing DEF Flights
<1>1. ASSUME NEW h \in Hosts, SendProbe(h) PROVE Flights'
  BY <1>1 DEF SendProbe, Broadcast
<1>2. ASSUME NEW h \in Hosts, SendRequest(h) PROVE Flights'
  BY <1>2 DEF SendRequest, Broadcast, RequestKinds
<1>3. ASSUME NEW f \in flight, Arrive(f) PROVE Flights'
  BY <1>3 DEF Arrive, Answer
<1>4. ASSUME NEW f \in flight, Lose(f) PROVE Flights'
  BY <1>4 DEF Lose
<1>5. CASE flight' = flight
  BY <1>5
<1>6. \/ \E h \in Hosts : SendProbe(h) \/ SendRequest(h)
      \/ \E f \in flight : Arrive(f) \/ Lose(f)
      \/ flight' = flight
  BY DEF Next, Run, Cancel, Connect, Probe, Confirm, Confirmed, NotPlanned, NotConfirmed, WindowEnds, ProbeFails,
    Added, NotAdded, SweepEnds, SweepFails, quiet, segmentVars
<1> QED BY <1>1, <1>2, <1>3, <1>4, <1>5, <1>6

-----------------------------------------------------------------------------
(* What each action does, in the terms of the other parts.  Most actions   *)
(* only move a command on, or end it.                                      *)

Stays ==
  /\ UNCHANGED <<sent, replies, there, probed, cut, late, flight, lost, blind, holds, added>>
  /\ \A h \in Hosts : \/ step'[h] \in {step[h], "over"}
                      \/ step[h] = "idle" /\ step'[h] \in {"confirm", "confirm sweep"}
  /\ \A h \in Hosts : exit'[h] = exit[h] \/ sent[h] = 0 \/ exit'[h] \notin {"ok", "unsafe"}

LEMMA NextIs ==
  ASSUME Typed, Placed, Next
  PROVE  \/ Stays
         \/ \E h \in Hosts : \/ Confirm(h) \/ SendProbe(h) \/ WindowEnds(h) \/ Added(h)
                             \/ SendRequest(h) \/ SweepEnds(h)
         \/ \E f \in flight : Arrive(f) \/ Lose(f)
<1> USE DEF Stays, Typed, Placed, processVars, segmentVars, quiet, Goto, End
<1>1. ASSUME NEW h \in Hosts, Cancel(h) PROVE Stays
  BY <1>1 DEF Cancel
<1>2. ASSUME NEW h \in Hosts, Connect(h) PROVE Stays
  BY <1>2 DEF Connect
<1>3. ASSUME NEW h \in Hosts, Probe(h) PROVE Stays
  BY <1>3 DEF Probe
<1>4. ASSUME NEW h \in Hosts, NotPlanned(h) \/ NotConfirmed(h) PROVE Stays
  BY <1>4 DEF NotPlanned, NotConfirmed
<1>5. ASSUME NEW h \in Hosts, ProbeFails(h) PROVE Stays
  BY <1>5 DEF ProbeFails
<1>6. ASSUME NEW h \in Hosts, NotAdded(h) PROVE Stays
  BY <1>6 DEF NotAdded
<1>7. ASSUME NEW h \in Hosts, SweepFails(h) PROVE Stays
  BY <1>7 DEF SweepFails
<1> QED BY <1>1, <1>2, <1>3, <1>4, <1>5, <1>6, <1>7 DEF Next, Run

\* Nothing changes for the other hosts.
Others(x) ==
  \A h \in Hosts \ {x} :
    /\ step'[h] = step[h] /\ exit'[h] = exit[h] /\ sent'[h] = sent[h]
    /\ there'[h] = there[h] /\ replies'[h] = replies[h]

LEMMA ConfirmIs ==
  ASSUME Typed, Placed, NEW x \in Hosts, Confirm(x)
  PROVE  /\ UNCHANGED <<flight, lost, blind, late, cut, holds, added, probed, replies>> /\ Others(x)
         /\ step'[x] \in {"send", "request"} /\ x \notin added
         /\ sent'[x] = 0 /\ exit'[x] = "none"
         /\ step[x] \in {"confirm", "confirm sweep"}
<1> USE DEF Typed, Placed, Others, Goto, segmentVars
<1>1. CASE Confirmed(x, "confirm", "send")
  BY <1>1 DEF Confirmed
<1>2. CASE Confirmed(x, "confirm sweep", "request")
  BY <1>2 DEF Confirmed
<1> QED BY <1>1, <1>2 DEF Confirm

LEMMA SendProbeIs ==
  ASSUME Typed, Placed, NEW x \in Hosts, SendProbe(x)
  PROVE  /\ UNCHANGED <<lost, blind, late, cut, holds, added, replies, there>> /\ Others(x)
         /\ step[x] = "send" /\ step'[x] = "listen" /\ x \notin added
         /\ sent'[x] = sent[x] + 1 /\ exit'[x] = "none"
         /\ Broadcast(x, "probe") /\ probed \subseteq probed'
<1>1. UNCHANGED <<lost, blind, late, cut, holds, added, replies, there>> /\ Broadcast(x, "probe")
  BY DEF SendProbe
<1>2. sent' = [sent EXCEPT ![x] = sent[x] + 1]
  BY <1>1 DEF Broadcast
<1>3. step[x] = "send" /\ step' = [step EXCEPT ![x] = "listen"] /\ exit' = exit /\ probed \subseteq probed'
  BY DEF SendProbe, Goto
<1> QED BY <1>1, <1>2, <1>3 DEF Typed, Placed, Others

LEMMA WindowEndsIs ==
  ASSUME Typed, Placed, NEW x \in Hosts, WindowEnds(x)
  PROVE  /\ UNCHANGED <<flight, lost, blind, holds, added, probed, replies, there, sent>> /\ Others(x)
         /\ cut \subseteq cut' /\ late \subseteq late' /\ step[x] = "listen" /\ x \notin added
         /\ exit'[x] = "none" /\ step'[x] \in {"send", "add"}
         /\ step'[x] = "add" => /\ sent[x] = ProbeCount
                                /\ Waiting(x) # {} => x \in late'
<1>1. /\ UNCHANGED <<flight, lost, blind, holds, added, probed, replies, there, sent>>
      /\ step[x] = "listen" /\ exit' = exit
  BY DEF WindowEnds, segmentVars, Goto
<1>2. CASE sent[x] < ProbeCount
  <2>1. step' = [step EXCEPT ![x] = "send"] /\ UNCHANGED <<cut, late>>
    BY <1>2 DEF WindowEnds, Goto
  <2> QED BY <1>1, <2>1 DEF Typed, Placed, Others
<1>3. CASE ~(sent[x] < ProbeCount)
  <2>1. /\ step' = [step EXCEPT ![x] = "add"]
        /\ cut \subseteq cut' /\ late \subseteq late' /\ (Waiting(x) # {} => x \in late')
    BY <1>3 DEF WindowEnds, Goto
  <2>2. sent[x] \in 0..ProbeCount
    BY DEF Typed
  <2>3. sent[x] = ProbeCount
    BY <1>3, <2>2, AtTop, Bounds
  <2>4. step'[x] = "add" /\ exit'[x] = "none" /\ x \notin added
    BY <1>1, <2>1 DEF Typed, Placed
  <2>5. Others(x)
    BY <1>1, <2>1 DEF Typed, Others
  <2> QED BY <1>1, <2>1, <2>3, <2>4, <2>5
<1> QED BY <1>2, <1>3

LEMMA AddedIs ==
  ASSUME Typed, Placed, NEW x \in Hosts, Added(x)
  PROVE  /\ UNCHANGED <<flight, lost, blind, late, cut, probed, replies, there, sent>> /\ Others(x)
         /\ step[x] = "add" /\ step'[x] = "over" /\ exit'[x] \in {"ok", "error"}
         /\ added' = added \cup {x} /\ holds' = holds \cup {x}
         /\ x \notin cut /\ sent[x] = ProbeCount
BY DEF Added, Typed, Placed, Others, End, segmentVars

LEMMA SendRequestIs ==
  ASSUME Typed, Placed, NEW x \in Hosts, SendRequest(x)
  PROVE  /\ UNCHANGED <<lost, blind, late, cut, holds, added, replies, there>> /\ Others(x)
         /\ step[x] = "request" /\ step'[x] = "collect" /\ x \notin added /\ exit'[x] = "none"
         /\ \E kind \in RequestKinds(x) : Broadcast(x, kind) /\ (kind = "probe" => x \in probed')
         /\ probed \subseteq probed'
<1>1. PICK kind \in RequestKinds(x) :
        Broadcast(x, kind) /\ probed' = IF kind = "probe" THEN probed \cup {x} ELSE probed
  BY DEF SendRequest
<1>2. /\ UNCHANGED <<lost, blind, late, cut, holds, added, replies, there>>
      /\ step[x] = "request" /\ step' = [step EXCEPT ![x] = "collect"] /\ exit' = exit
  BY DEF SendRequest, Goto
<1>3. sent' = [sent EXCEPT ![x] = sent[x] + 1]
  BY <1>1 DEF Broadcast
<1>4. probed \subseteq probed' /\ (kind = "probe" => x \in probed')
  BY <1>1
<1>5. Others(x)
  BY <1>2, <1>3 DEF Typed, Others
<1>6. step'[x] = "collect" /\ x \notin added /\ exit'[x] = "none"
  BY <1>2 DEF Typed, Placed
<1> QED BY <1>1, <1>2, <1>4, <1>5, <1>6

LEMMA SweepEndsIs ==
  ASSUME Typed, Placed, NEW x \in Hosts, SweepEnds(x)
  PROVE  /\ UNCHANGED <<flight, lost, blind, holds, added, probed, replies, there, sent>> /\ Others(x)
         /\ cut \subseteq cut' /\ late \subseteq late' /\ step[x] = "collect" /\ x \notin added
         /\ step'[x] = "over" /\ exit'[x] = "ok"
         /\ Waiting(x) # {} => x \in late'
<1>1. /\ UNCHANGED <<flight, lost, blind, holds, added, probed, replies, there, sent>>
      /\ step[x] = "collect"
  BY DEF SweepEnds, segmentVars
<1>2. step' = [step EXCEPT ![x] = "over"] /\ exit' = [exit EXCEPT ![x] = "ok"]
  BY DEF SweepEnds, End
<1>3. cut \subseteq cut' /\ late \subseteq late' /\ (Waiting(x) # {} => x \in late')
  BY DEF SweepEnds
<1> QED BY <1>1, <1>2, <1>3 DEF Typed, Placed, Others

LEMMA ArriveIs ==
  ASSUME Typed, Placed, Flights, NEW f \in flight, Arrive(f)
  PROVE  /\ UNCHANGED <<sent, there, probed, cut, late, lost, holds, added>> /\ blind \subseteq blind'
         /\ \A h \in Hosts \ {f.to} : step'[h] = step[h] /\ exit'[h] = exit[h] /\ replies'[h] = replies[h]
         /\ f.from \in Hosts /\ f.to \in Hosts /\ f.from # f.to
         /\ step[f.to] \notin {"send", "request"}
         /\ step[f.to] = "listen" /\ Conflicts(f) => step'[f.to] = "over" /\ exit'[f.to] = "unsafe"
         /\ ~(step[f.to] = "listen" /\ Conflicts(f)) => step' = step /\ exit' = exit
         /\ replies'[f.to] = IF step[f.to] = "collect" /\ f.kind = "reply"
                             THEN replies[f.to] \cup {f.from} ELSE replies[f.to]
         /\ step[f.to] = "add" /\ Last(f) => Pair(f) \in blind'
<1>1. f.from \in Hosts /\ f.to \in Hosts /\ f.from # f.to
  BY AnswerTyped
<1>2. UNCHANGED <<sent, there, probed, cut, late, lost, holds, added>> /\ step[f.to] \notin {"send", "request"}
  BY DEF Arrive
<1>3. blind \subseteq blind' /\ (step[f.to] = "add" /\ Last(f) => Pair(f) \in blind')
  BY DEF Arrive
<1>4. CASE step[f.to] = "listen" /\ Conflicts(f)
  <2>1. step' = [step EXCEPT ![f.to] = "over"] /\ exit' = [exit EXCEPT ![f.to] = "unsafe"] /\ replies' = replies
    BY <1>4 DEF Arrive, End
  <2> QED BY <1>1, <1>2, <1>3, <1>4, <2>1 DEF Typed
<1>5. CASE ~(step[f.to] = "listen" /\ Conflicts(f))
  <2>1. step' = step /\ exit' = exit
    BY <1>5 DEF Arrive
  <2>2. CASE step[f.to] = "collect" /\ f.kind = "reply"
    <3>1. replies' = [replies EXCEPT ![f.to] = replies[f.to] \cup {f.from}]
      BY <2>2 DEF Arrive, collect
    <3> QED BY <1>1, <1>2, <1>3, <1>5, <2>1, <2>2, <3>1 DEF Typed
  <2>3. CASE ~(step[f.to] = "collect" /\ f.kind = "reply")
    <3>1. replies' = replies
      BY <2>3 DEF Arrive, collect
    <3> QED BY <1>1, <1>2, <1>3, <1>5, <2>1, <2>3, <3>1 DEF Typed
  <2> QED BY <2>2, <2>3
<1> QED BY <1>4, <1>5

LEMMA LoseIs ==
  ASSUME Typed, NEW f \in flight, Lose(f)
  PROVE  /\ UNCHANGED <<step, sent, exit, replies, there, probed, cut, late, holds, added>>
         /\ lost' = lost + 1 /\ lost \in Nat /\ blind \subseteq blind' /\ flight' = flight \ {f}
         /\ Last(f) => Pair(f) \in blind'
BY Bounds DEF Lose, Typed, processVars

-----------------------------------------------------------------------------
(* What the segment does to an exchange: it opens when its probe is sent,  *)
(* and closes when a frame of it is lost or its answer arrives.            *)

LEMMA OpenSame == ASSUME flight' = flight, NEW h, NEW a, NEW n PROVE Open(h, a, n)' <=> Open(h, a, n)
BY DEF Open

LEMMA OpenArrive ==
  ASSUME Typed, Placed, Flights, NEW f \in flight, Arrive(f), NEW h \in Hosts, NEW a \in Hosts, NEW n
  PROVE  /\ Open(h, a, n)' => Open(h, a, n) \/ (f.kind = "request" /\ f.from = h)
         /\ Open(h, a, n) /\ ~Open(h, a, n)' =>
              /\ f.n = n
              /\ \/ f.kind = "reply" /\ f.from = a /\ f.to = h
                 \/ f.kind = "probe" /\ f.from = h /\ f.to = a /\ a \notin holds
<1> DEFINE r == [kind |-> "reply", from |-> f.to, to |-> f.from, n |-> f.n]
<1>1. flight' = (flight \ {f}) \cup Answer(f) /\ f \in Frames
  BY DEF Arrive, Typed
<1>2. r.kind = "reply" /\ r.from = f.to /\ r.to = f.from /\ r.n = f.n
  OBVIOUS
<1>3. ASSUME Open(h, a, n)' PROVE Open(h, a, n) \/ (f.kind = "request" /\ f.from = h)
  <2>1. PICK k \in flight' :
          /\ k.n = n
          /\ \/ k.kind = "probe" /\ k.from = h /\ k.to = a
             \/ k.kind = "reply" /\ k.from = a /\ k.to = h
    BY <1>3 DEF Open
  <2>2. CASE k \in flight
    BY <2>1, <2>2 DEF Open
  <2>3. CASE k \notin flight
    <3>1. k = r /\ f.kind \in {"probe", "request"}
      BY <1>1, <2>3 DEF Answer
    <3> QED BY <1>2, <2>1, <3>1 DEF Open
  <2> QED BY <2>2, <2>3
<1>4. ASSUME Open(h, a, n), ~Open(h, a, n)'
      PROVE  /\ f.n = n
             /\ \/ f.kind = "reply" /\ f.from = a /\ f.to = h
                \/ f.kind = "probe" /\ f.from = h /\ f.to = a /\ a \notin holds
  <2>1. PICK k \in flight :
          /\ k.n = n
          /\ \/ k.kind = "probe" /\ k.from = h /\ k.to = a
             \/ k.kind = "reply" /\ k.from = a /\ k.to = h
    BY <1>4 DEF Open
  <2>2. k \notin flight'
    BY <1>4, <2>1 DEF Open
  <2>3. k = f
    BY <1>1, <2>2
  <2>4. ASSUME f.kind = "probe", a \in holds PROVE FALSE
    <3>1. r \in flight'
      BY <1>1, <2>1, <2>3, <2>4 DEF Answer
    <3>2. r.n = n /\ r.kind = "reply" /\ r.from = a /\ r.to = h
      BY <1>2, <2>1, <2>3, <2>4
    <3> QED BY <1>4, <3>1, <3>2 DEF Open
  <2> QED BY <2>1, <2>3, <2>4
<1> QED BY <1>3, <1>4

LEMMA OpenLose ==
  ASSUME Typed, NEW f \in flight, Lose(f), NEW h \in Hosts, NEW a \in Hosts, NEW n
  PROVE  /\ Open(h, a, n)' => Open(h, a, n)
         /\ Open(h, a, n) /\ ~Open(h, a, n)' => f.n = n /\ f.kind \in {"probe", "reply"} /\ Pair(f) = <<h, a>>
BY DEF Open, Lose, Pair

LEMMA OpenSend ==
  ASSUME NEW x \in Hosts, NEW kind, Broadcast(x, kind), kind # "reply",
         NEW h \in Hosts, NEW a \in Hosts, NEW n
  PROVE  /\ Open(h, a, n) => Open(h, a, n)'
         /\ Open(h, a, n)' => Open(h, a, n) \/ x = h
         /\ kind = "probe" /\ h = x /\ a # x /\ n = sent[x] + 1 => Open(h, a, n)'
<1> DEFINE r(g) == [kind |-> kind, from |-> x, to |-> g, n |-> sent[x] + 1]
<1>1. flight' = flight \cup {r(g) : g \in Hosts \ {x}}
  BY DEF Broadcast
<1>2. \A g : r(g).kind = kind /\ r(g).from = x /\ r(g).to = g /\ r(g).n = sent[x] + 1
  OBVIOUS
<1> HIDE DEF r
<1>3. Open(h, a, n) => Open(h, a, n)'
  BY <1>1 DEF Open
<1>4. Open(h, a, n)' => Open(h, a, n) \/ x = h
  BY <1>1, <1>2 DEF Open
<1>5. ASSUME kind = "probe", h = x, a # x, n = sent[x] + 1 PROVE Open(h, a, n)'
  <2>1. r(a) \in flight'
    BY <1>1, <1>5
  <2> QED BY <1>2, <1>5, <2>1 DEF Open
<1> QED BY <1>3, <1>4, <1>5

LEMMA AskersStep == Typed /\ Placed /\ Flights /\ Askers /\ Next => Askers'
<1> SUFFICES ASSUME Typed, Placed, Flights, Askers, Next PROVE Askers'
  OBVIOUS
<1>0. \A k \in flight : k.from \in Hosts
  BY DEF Typed, Frames
<1>1. ASSUME Stays PROVE Askers'
  <2>1. \A h \in Hosts : step[h] \in {"collect", "over"} => step'[h] \in {"collect", "over"}
    BY <1>1 DEF Stays
  <2> QED BY <1>0, <1>1, <2>1 DEF Askers, Stays
<1>2. ASSUME NEW x \in Hosts, Confirm(x) PROVE Askers'
  BY <1>0, <1>2, ConfirmIs DEF Askers, Others
<1>3. ASSUME NEW x \in Hosts, SendProbe(x) PROVE Askers'
  <2>1. \A k \in flight' : k \in flight \/ k.kind = "probe"
    BY <1>3, SendProbeIs DEF Broadcast
  <2> QED BY <1>0, <1>3, <2>1, SendProbeIs DEF Askers, Others
<1>4. ASSUME NEW x \in Hosts, WindowEnds(x) PROVE Askers'
  BY <1>0, <1>4, WindowEndsIs DEF Askers, Others
<1>5. ASSUME NEW x \in Hosts, Added(x) PROVE Askers'
  BY <1>0, <1>5, AddedIs DEF Askers, Others
<1>6. ASSUME NEW x \in Hosts, SendRequest(x) PROVE Askers'
  <2>1. \A k \in flight' : k \in flight \/ k.from = x
    BY <1>6, SendRequestIs DEF Broadcast
  <2> QED BY <1>0, <1>6, <2>1, SendRequestIs DEF Askers, Others
<1>7. ASSUME NEW x \in Hosts, SweepEnds(x) PROVE Askers'
  BY <1>0, <1>7, SweepEndsIs DEF Askers, Others
<1>8. ASSUME NEW f \in flight, Arrive(f) PROVE Askers'
  <2>1. \A k \in flight' : k \in flight \/ k.kind = "reply"
    BY <1>8 DEF Arrive, Answer
  <2>2. \A h \in Hosts : step'[h] = step[h] \/ step'[h] = "over"
    BY <1>8, ArriveIs
  <2> QED BY <1>0, <1>8, <2>1, <2>2, ArriveIs DEF Askers
<1>9. ASSUME NEW f \in flight, Lose(f) PROVE Askers'
  BY <1>9, LoseIs DEF Askers
<1> QED BY <1>1, <1>2, <1>3, <1>4, <1>5, <1>6, <1>7, <1>8, <1>9, NextIs

-----------------------------------------------------------------------------
(* Losses: a resident is not overheard more often than frames are lost.    *)

LEMMA ClosedIn ==
  ASSUME Typed, NEW h \in Hosts, NEW a
  PROVE  /\ sent[h] \in Nat /\ Closed(h, a) \in SUBSET (1..sent[h])
         /\ sent[h] = 0 => Closed(h, a) = {}
BY Bounds DEF Typed, Closed

LEMMA NoMoreClosed ==
  ASSUME Typed, NEW h \in Hosts, NEW a, Cardinality(Closed(h, a)) <= lost,
         lost' = lost, Closed(h, a)' \subseteq Closed(h, a)
  PROVE  (Cardinality(Closed(h, a)) <= lost)'
<1>1. sent[h] \in Nat /\ Closed(h, a) \in SUBSET (1..sent[h])
  BY ClosedIn
<1>2. /\ Cardinality(Closed(h, a)) \in Nat /\ Cardinality(Closed(h, a)') \in Nat
      /\ Cardinality(Closed(h, a)') <= Cardinality(Closed(h, a))
  BY <1>1, AtMostOneMore
<1>3. lost \in Nat
  BY Bounds DEF Typed
<1> QED BY <1>2, <1>3

LEMMA LossesStep == Typed /\ Typed' /\ Placed /\ Flights /\ Losses /\ Next => Losses'
<1> SUFFICES ASSUME Typed, Typed', Placed, Flights, Losses, Next,
                    NEW h \in Hosts, NEW a \in there'[h], step'[h] \in {"send", "listen"}
             PROVE  (Cardinality(Closed(h, a)) <= lost)'
  BY DEF Losses
<1>0. a \in Hosts
  BY DEF Typed
<1>1. ASSUME step[h] \in {"send", "listen"}, there'[h] = there[h], lost' = lost,
             Closed(h, a)' \subseteq Closed(h, a)
      PROVE  (Cardinality(Closed(h, a)) <= lost)'
  BY <1>1, NoMoreClosed DEF Losses
<1>2. ASSUME flight' = flight, sent'[h] = sent[h] PROVE Closed(h, a)' \subseteq Closed(h, a)
  BY <1>2, OpenSame DEF Closed
<1>3. ASSUME Stays PROVE (Cardinality(Closed(h, a)) <= lost)'
  <2>1. step[h] \in {"send", "listen"}
    BY <1>3 DEF Stays
  <2> QED BY <1>1, <1>2, <1>3, <2>1 DEF Stays
<1>4. ASSUME NEW x \in Hosts, Confirm(x) PROVE (Cardinality(Closed(h, a)) <= lost)'
  <2>1. CASE h = x
    <3>1. sent'[h] = 0
      BY <1>4, <2>1, ConfirmIs
    <3>2. Closed(h, a)' = {}
      BY <3>1 DEF Closed
    <3>3. lost' \in Nat
      BY Bounds DEF Typed
    <3> QED BY <3>2, <3>3, FS_EmptySet
  <2>2. CASE h # x
    BY <1>1, <1>2, <1>4, <2>2, ConfirmIs DEF Others
  <2> QED BY <2>1, <2>2
<1>5. ASSUME NEW x \in Hosts, SendProbe(x) PROVE (Cardinality(Closed(h, a)) <= lost)'
  <2>1. Broadcast(x, "probe") /\ lost' = lost /\ there' = there /\ step[x] = "send"
    BY <1>5, SendProbeIs
  <2>2. \A n : Open(h, a, n) => Open(h, a, n)'
    BY <1>0, <2>1, OpenSend
  <2>3. CASE h = x
    <3>1. a # x
      BY <2>1, <2>3 DEF Placed
    <3>2. \A n : n = sent[x] + 1 => Open(h, a, n)'
      BY <1>0, <2>1, <2>3, <3>1, OpenSend
    <3>3. sent'[h] = sent[h] + 1 /\ sent[h] \in Nat
      BY <1>5, <2>3, SendProbeIs, ClosedIn
    <3>4. \A n \in 1..sent'[h] : n \in 1..sent[h] \/ n = sent[h] + 1
      BY <3>3
    <3>5. Closed(h, a)' \subseteq Closed(h, a)
      BY <2>2, <2>3, <3>2, <3>4 DEF Closed
    <3> QED BY <1>1, <2>1, <2>3, <3>5
  <2>4. CASE h # x
    <3>1. sent'[h] = sent[h] /\ step[h] = step'[h]
      BY <1>5, <2>4, SendProbeIs DEF Others
    <3>2. Closed(h, a)' \subseteq Closed(h, a)
      BY <2>2, <3>1 DEF Closed
    <3> QED BY <1>1, <2>1, <3>1, <3>2
  <2> QED BY <2>3, <2>4
<1>6. ASSUME NEW x \in Hosts, WindowEnds(x) PROVE (Cardinality(Closed(h, a)) <= lost)'
  <2>1. step[h] \in {"send", "listen"}
    BY <1>6, WindowEndsIs DEF Others
  <2> QED BY <1>1, <1>2, <1>6, <2>1, WindowEndsIs
<1>7. ASSUME NEW x \in Hosts, Added(x) PROVE (Cardinality(Closed(h, a)) <= lost)'
  <2>1. step[h] \in {"send", "listen"}
    BY <1>7, AddedIs DEF Others
  <2> QED BY <1>1, <1>2, <1>7, <2>1, AddedIs
<1>8. ASSUME NEW x \in Hosts, SendRequest(x) PROVE (Cardinality(Closed(h, a)) <= lost)'
  <2>1. PICK kind \in RequestKinds(x) : Broadcast(x, kind)
    BY <1>8, SendRequestIs
  <2>2. \A n : Open(h, a, n) => Open(h, a, n)'
    BY <1>0, <2>1, OpenSend DEF RequestKinds
  <2>3. step[h] = step'[h] /\ sent'[h] = sent[h] /\ there'[h] = there[h] /\ lost' = lost
    BY <1>8, SendRequestIs DEF Others
  <2>4. Closed(h, a)' \subseteq Closed(h, a)
    BY <2>2, <2>3 DEF Closed
  <2> QED BY <1>1, <2>3, <2>4
<1>9. ASSUME NEW x \in Hosts, SweepEnds(x) PROVE (Cardinality(Closed(h, a)) <= lost)'
  <2>1. step[h] \in {"send", "listen"}
    BY <1>9, SweepEndsIs DEF Others
  <2> QED BY <1>1, <1>2, <1>9, <2>1, SweepEndsIs
<1>10. ASSUME NEW f \in flight, Arrive(f) PROVE (Cardinality(Closed(h, a)) <= lost)'
  <2>1. /\ step[h] = step'[h] /\ sent' = sent /\ there' = there /\ lost' = lost
        /\ ~(f.to = h /\ Conflicts(f))
    BY <1>10, ArriveIs
  <2>2. a \in holds
    BY <2>1 DEF Placed
  <2>3. \A n : Open(h, a, n) => Open(h, a, n)'
    BY <1>0, <1>10, <2>1, <2>2, OpenArrive DEF Conflicts
  <2>4. Closed(h, a)' \subseteq Closed(h, a)
    BY <2>1, <2>3 DEF Closed
  <2> QED BY <1>1, <2>1, <2>4
<1>11. ASSUME NEW f \in flight, Lose(f) PROVE (Cardinality(Closed(h, a)) <= lost)'
  <2>1. UNCHANGED <<step, sent, there>> /\ lost' = lost + 1 /\ lost \in Nat
    BY <1>11, LoseIs
  <2>2. \A n : Open(h, a, n) /\ ~Open(h, a, n)' => n = f.n
    BY <1>0, <1>11, OpenLose
  <2>3. Closed(h, a)' \subseteq Closed(h, a) \cup {f.n}
    BY <2>1, <2>2 DEF Closed
  <2>4. sent[h] \in Nat /\ Closed(h, a) \in SUBSET (1..sent[h])
    BY ClosedIn
  <2>5. /\ Cardinality(Closed(h, a)) \in Nat /\ Cardinality(Closed(h, a)') \in Nat
        /\ Cardinality(Closed(h, a)') <= Cardinality(Closed(h, a)) + 1
    BY <2>3, <2>4, AtMostOneMore
  <2>6. Cardinality(Closed(h, a)) <= lost
    BY <2>1 DEF Losses
  <2> QED BY <2>1, <2>5, <2>6
<1> QED BY <1>3, <1>4, <1>5, <1>6, <1>7, <1>8, <1>9, <1>10, <1>11, NextIs

-----------------------------------------------------------------------------
(* Early: what is still open behind the probe came too late.               *)

LEMMA OpenIsWaited == ASSUME NEW h, NEW a, NEW n, Open(h, a, n) PROVE Waiting(h) # {}
BY DEF Open, Waiting

LEMMA EarlyStep == Typed /\ Placed /\ Flights /\ Askers /\ Losses /\ Early /\ Next => Early'
<1> DEFINE Excused(h) == /\ there[h] = {} \/ h \in late
                         /\ \A a \in Hosts, n \in 1..ProbeCount : Open(h, a, n) => h \in late
<1> SUFFICES ASSUME Typed, Placed, Flights, Askers, Losses, Early, Next,
                    NEW h \in Hosts, Past(h)'
             PROVE  Excused(h)'
  BY DEF Early
<1>1. ASSUME Past(h), there'[h] = there[h], late \subseteq late',
             \A a \in Hosts, n \in 1..ProbeCount : Open(h, a, n)' => Open(h, a, n)
      PROVE  Excused(h)'
  BY <1>1 DEF Early
<1>2. ASSUME Past(h), there'[h] = there[h], late \subseteq late', flight' = flight PROVE Excused(h)'
  BY <1>1, <1>2, OpenSame
<1>3. ASSUME Stays PROVE Excused(h)'
  BY <1>2, <1>3 DEF Stays, Past
<1>4. ASSUME NEW x \in Hosts, Confirm(x) PROVE Excused(h)'
  <2>1. h # x /\ Past(h)
    BY <1>4, ConfirmIs DEF Past, Others
  <2> QED BY <1>2, <1>4, <2>1, ConfirmIs DEF Others
<1>5. ASSUME NEW x \in Hosts, SendProbe(x) PROVE Excused(h)'
  <2>1. h # x /\ Past(h) /\ there' = there /\ late' = late /\ Broadcast(x, "probe")
    BY <1>5, SendProbeIs DEF Past, Others
  <2>2. \A a \in Hosts, n \in 1..ProbeCount : Open(h, a, n)' => Open(h, a, n)
    BY <2>1, OpenSend
  <2> QED BY <1>1, <2>1, <2>2
<1>6. ASSUME NEW x \in Hosts, WindowEnds(x) PROVE Excused(h)'
  <2>1. UNCHANGED <<flight, there, added>> /\ late \subseteq late' /\ Others(x)
    BY <1>6, WindowEndsIs
  <2>2. CASE Past(h)
    BY <1>2, <2>1, <2>2
  <2>3. CASE ~Past(h)
    <3>1. h = x /\ step'[h] = "add"
      BY <2>1, <2>3 DEF Past, Others
    <3>2. /\ sent[h] = ProbeCount /\ step[h] = "listen"
          /\ Waiting(h) # {} => h \in late'
      BY <1>6, <3>1, WindowEndsIs
    <3>3. \A a, n : Open(h, a, n) => h \in late'
      BY <3>2, OpenIsWaited
    <3>4. ASSUME NEW a \in there[h] PROVE h \in late'
      <4>1. Cardinality(Closed(h, a)) <= lost /\ lost \in 0..MaxLost /\ a \in Hosts
        BY <3>2 DEF Losses, Typed
      <4>2. Cardinality(Closed(h, a)) \in Nat
        BY ClosedIn, AtMostOneMore
      <4>3. Cardinality(Closed(h, a)) <= MaxLost
        BY <4>1, <4>2, Bounds
      <4> QED BY <3>2, <3>3, <4>3, AllClosed
    <3>5. \A a \in Hosts, n \in 1..ProbeCount : Open(h, a, n)' => h \in late'
      BY <2>1, <3>3, OpenSame
    <3> QED BY <2>1, <3>4, <3>5
  <2> QED BY <2>2, <2>3
<1>7. ASSUME NEW x \in Hosts, Added(x) PROVE Excused(h)'
  <2>1. Past(h)
    BY <1>7, AddedIs DEF Past, Others
  <2> QED BY <1>2, <1>7, <2>1, AddedIs
<1>8. ASSUME NEW x \in Hosts, SendRequest(x) PROVE Excused(h)'
  <2>1. h # x /\ Past(h) /\ there' = there /\ late' = late
    BY <1>8, SendRequestIs DEF Past, Others
  <2>2. PICK kind \in RequestKinds(x) : Broadcast(x, kind)
    BY <1>8, SendRequestIs
  <2>3. \A a \in Hosts, n \in 1..ProbeCount : Open(h, a, n)' => Open(h, a, n)
    BY <2>1, <2>2, OpenSend DEF RequestKinds
  <2> QED BY <1>1, <2>1, <2>3
<1>9. ASSUME NEW x \in Hosts, SweepEnds(x) PROVE Excused(h)'
  <2>1. Past(h)
    BY <1>9, SweepEndsIs DEF Past, Others
  <2> QED BY <1>2, <1>9, <2>1, SweepEndsIs
<1>10. ASSUME NEW f \in flight, Arrive(f) PROVE Excused(h)'
  <2>1. Past(h) /\ there' = there /\ late' = late
    BY <1>10, ArriveIs DEF Past
  <2>2. ~(f.kind = "request" /\ f.from = h)
    BY <2>1 DEF Askers, Past
  <2>3. \A a \in Hosts, n \in 1..ProbeCount : Open(h, a, n)' => Open(h, a, n)
    BY <1>10, <2>2, OpenArrive
  <2> QED BY <1>1, <2>1, <2>3
<1>11. ASSUME NEW f \in flight, Lose(f) PROVE Excused(h)'
  <2>1. Past(h) /\ there' = there /\ late' = late
    BY <1>11, LoseIs DEF Past
  <2>2. \A a \in Hosts, n \in 1..ProbeCount : Open(h, a, n)' => Open(h, a, n)
    BY <1>11, OpenLose
  <2> QED BY <1>1, <2>1, <2>2
<1> QED BY <1>3, <1>4, <1>5, <1>6, <1>7, <1>8, <1>9, <1>10, <1>11, NextIs

-----------------------------------------------------------------------------
(* Met: of two that probed to the end, one meets the last probe of the     *)
(* other while it listens, or has one of the reasons.                      *)

Excuse(a, b) == \/ a \in late \/ b \in late
                \/ <<a, b>> \in blind \/ <<b, a>> \in blind

LEMMA MetStep == Typed /\ Placed /\ Flights /\ Early /\ Met /\ Next => Met'
<1> SUFFICES ASSUME Typed, Placed, Flights, Early, Met, Next,
                    NEW a \in Hosts, NEW b \in Hosts, a # b, Probed(a)', Probed(b)'
             PROVE  (Excuse(a, b) \/ Open(a, b, ProbeCount) \/ Open(b, a, ProbeCount))'
  BY DEF Met, Excuse
<1> DEFINE Goal == Excuse(a, b) \/ Open(a, b, ProbeCount) \/ Open(b, a, ProbeCount)
<1>1. ASSUME late \subseteq late', blind \subseteq blind', Excuse(a, b) PROVE Goal'
  BY <1>1 DEF Excuse
<1>2. ASSUME Probed(a), Probed(b) PROVE Goal
  BY <1>2 DEF Met, Excuse
<1>3. ASSUME Probed(a), Probed(b), flight' = flight, late \subseteq late', blind \subseteq blind' PROVE Goal'
  BY <1>1, <1>2, <1>3, OpenSame
<1>4. ASSUME Stays PROVE Goal'
  <2>1. Probed(a) /\ Probed(b)
    BY <1>4 DEF Stays, Probed, Past
  <2> QED BY <1>3, <1>4, <2>1 DEF Stays
<1>5. ASSUME NEW x \in Hosts, Confirm(x) PROVE Goal'
  <2>1. Probed(a) /\ Probed(b)
    BY <1>5, ConfirmIs DEF Others, Probed, Past
  <2> QED BY <1>3, <1>5, <2>1, ConfirmIs
<1>6. ASSUME NEW x \in Hosts, SendProbe(x) PROVE Goal'
  <2>1. Broadcast(x, "probe") /\ UNCHANGED <<late, blind, added>> /\ Others(x)
    BY <1>6, SendProbeIs
  <2>2. \A c, d \in Hosts : Open(c, d, ProbeCount) => Open(c, d, ProbeCount)'
    BY <2>1, OpenSend
  <2>3. ASSUME Probed(x)' PROVE sent[x] + 1 = ProbeCount
    BY <1>6, <2>3, SendProbeIs DEF Probed, Past
  <2>4. ASSUME NEW d \in Hosts, d # x, Probed(x)' PROVE Open(x, d, ProbeCount)'
    BY <2>1, <2>3, <2>4, OpenSend
  <2>5. CASE x \in {a, b}
    BY <2>4, <2>5
  <2>6. CASE x \notin {a, b}
    <3>1. Probed(a) /\ Probed(b)
      BY <2>1, <2>6 DEF Others, Probed, Past
    <3> QED BY <1>1, <1>2, <2>1, <2>2, <3>1
  <2> QED BY <2>5, <2>6
<1>7. ASSUME NEW x \in Hosts, WindowEnds(x) PROVE Goal'
  <2>1. Probed(a) /\ Probed(b)
    BY <1>7, WindowEndsIs DEF Others, Probed, Past
  <2> QED BY <1>3, <1>7, <2>1, WindowEndsIs
<1>8. ASSUME NEW x \in Hosts, Added(x) PROVE Goal'
  <2>1. Probed(a) /\ Probed(b)
    BY <1>8, AddedIs DEF Others, Probed, Past
  <2> QED BY <1>3, <1>8, <2>1, AddedIs
<1>9. ASSUME NEW x \in Hosts, SendRequest(x) PROVE Goal'
  <2>1. Probed(a) /\ Probed(b)
    BY <1>9, SendRequestIs DEF Others, Probed, Past
  <2>2. PICK kind \in RequestKinds(x) : Broadcast(x, kind)
    BY <1>9, SendRequestIs
  <2>3. \A c, d \in Hosts : Open(c, d, ProbeCount) => Open(c, d, ProbeCount)'
    BY <2>2, OpenSend DEF RequestKinds
  <2>4. UNCHANGED <<late, blind>>
    BY <1>9, SendRequestIs
  <2> QED BY <1>1, <1>2, <2>1, <2>3, <2>4
<1>10. ASSUME NEW x \in Hosts, SweepEnds(x) PROVE Goal'
  <2>1. Probed(a) /\ Probed(b)
    BY <1>10, SweepEndsIs DEF Others, Probed, Past
  <2> QED BY <1>3, <1>10, <2>1, SweepEndsIs
<1>11. ASSUME NEW f \in flight, Arrive(f) PROVE Goal'
  <2>1. Probed(a) /\ Probed(b) /\ late' = late /\ blind \subseteq blind'
    BY <1>11, ArriveIs DEF Probed, Past
  <2>2. \A h \in Hosts : Probed(h)' /\ f.to = h /\ Conflicts(f) => Past(h)
    BY <1>11, ArriveIs DEF Probed, Past
  <2>3. ASSUME NEW c \in Hosts, NEW d \in Hosts, Probed(c)', Probed(d)',
               Open(c, d, ProbeCount), ~Open(c, d, ProbeCount)'
        PROVE  c \in late \/ <<c, d>> \in blind'
    <3>1. f.n = ProbeCount
      BY <1>11, <2>3, OpenArrive
    <3>2. CASE f.kind = "reply" /\ f.from = d /\ f.to = c
      <4>1. Past(c) /\ Last(f) /\ Pair(f) = <<c, d>>
        BY <2>2, <2>3, <3>1, <3>2 DEF Conflicts, Last, Pair
      <4>2. CASE step[c] = "add"
        BY <1>11, <3>2, <4>1, <4>2, ArriveIs
      <4>3. CASE c \in added
        BY <2>3, <4>1, Bounds DEF Early
      <4> QED BY <4>1, <4>2, <4>3 DEF Past
    <3>3. CASE f.kind = "probe" /\ f.from = c /\ f.to = d /\ d \notin holds
      <4>1. Past(d) /\ Last(f) /\ Pair(f) = <<c, d>>
        BY <2>2, <2>3, <3>1, <3>3 DEF Conflicts, Last, Pair
      <4>2. step[d] = "add"
        BY <3>3, <4>1 DEF Past, Placed
      <4> QED BY <1>11, <3>3, <4>1, <4>2, ArriveIs
    <3> QED BY <1>11, <2>3, <3>2, <3>3, OpenArrive
  <2>4. Goal
    BY <1>2, <2>1
  <2>5. CASE Excuse(a, b)
    BY <1>1, <2>1, <2>5
  <2>6. CASE Open(a, b, ProbeCount)
    BY <2>1, <2>3, <2>6 DEF Excuse
  <2>7. CASE Open(b, a, ProbeCount)
    BY <2>1, <2>3, <2>7 DEF Excuse
  <2> QED BY <2>4, <2>5, <2>6, <2>7
<1>12. ASSUME NEW f \in flight, Lose(f) PROVE Goal'
  <2>1. Probed(a) /\ Probed(b) /\ late' = late /\ blind \subseteq blind'
    BY <1>12, LoseIs DEF Probed, Past
  <2>2. ASSUME NEW c \in Hosts, NEW d \in Hosts, Open(c, d, ProbeCount), ~Open(c, d, ProbeCount)'
        PROVE  <<c, d>> \in blind'
    BY <1>12, <2>2, OpenLose, LoseIs DEF Last
  <2>3. Goal
    BY <1>2, <2>1
  <2>4. CASE Excuse(a, b)
    BY <1>1, <2>1, <2>4
  <2>5. CASE Open(a, b, ProbeCount)
    BY <2>2, <2>5 DEF Excuse
  <2>6. CASE Open(b, a, ProbeCount)
    BY <2>2, <2>6 DEF Excuse
  <2> QED BY <2>3, <2>4, <2>5, <2>6
<1> QED BY <1>4, <1>5, <1>6, <1>7, <1>8, <1>9, <1>10, <1>11, <1>12, NextIs

-----------------------------------------------------------------------------
(* Swept and SweepExact: what a sweep waits for, and what it concludes.    *)

LEMMA AskedIsWaited == ASSUME NEW h, NEW g, Asked(h, g) PROVE Waiting(h) # {}
BY DEF Asked, Waiting

LEMMA AskedArrive ==
  ASSUME Typed, NEW f \in flight, Arrive(f), NEW h \in Hosts, NEW g \in holds, Asked(h, g), ~Asked(h, g)'
  PROVE  f.kind = "reply" /\ f.from = g /\ f.to = h
<1> DEFINE r == [kind |-> "reply", from |-> f.to, to |-> f.from, n |-> f.n]
<1>1. flight' = (flight \ {f}) \cup Answer(f)
  BY DEF Arrive
<1>2. r.kind = "reply" /\ r.from = f.to /\ r.to = f.from
  OBVIOUS
<1>3. PICK k \in flight : \/ k.kind \in {"probe", "request"} /\ k.from = h /\ k.to = g
                          \/ k.kind = "reply" /\ k.from = g /\ k.to = h
  BY DEF Asked
<1>4. k = f
  BY <1>1, <1>3 DEF Asked
<1>5. ASSUME f.kind \in {"probe", "request"}, f.from = h, f.to = g PROVE FALSE
  <2>1. r \in flight'
    BY <1>1, <1>5 DEF Answer
  <2> QED BY <1>2, <1>5, <2>1 DEF Asked
<1> QED BY <1>3, <1>4, <1>5

LEMMA SweptStep == Typed /\ Placed /\ Flights /\ Swept /\ Next => Swept'
<1> SUFFICES ASSUME Typed, Placed, Flights, Swept, Next, NEW h \in Hosts,
                    step'[h] = "collect", h \notin holds', lost' = 0, NEW g \in there'[h]
             PROVE  g \in replies'[h] \/ Asked(h, g)'
  BY DEF Swept
<1> DEFINE Goal == g \in replies[h] \/ Asked(h, g)
<1>1. ASSUME step[h] = "collect", h \notin holds, lost = 0, there'[h] = there[h], replies'[h] = replies[h],
             Asked(h, g) => Asked(h, g)'
      PROVE  Goal'
  BY <1>1 DEF Swept
<1>2. ASSUME flight \subseteq flight' PROVE Asked(h, g) => Asked(h, g)'
  BY <1>2 DEF Asked
<1>3. ASSUME Stays PROVE Goal'
  BY <1>1, <1>2, <1>3 DEF Stays
<1>4. ASSUME NEW x \in Hosts, Confirm(x) PROVE Goal'
  BY <1>1, <1>2, <1>4, ConfirmIs DEF Others
<1>5. ASSUME NEW x \in Hosts, SendProbe(x) PROVE Goal'
  <2>1. h # x /\ flight \subseteq flight'
    BY <1>5, SendProbeIs DEF Broadcast
  <2> QED BY <1>1, <1>2, <1>5, <2>1, SendProbeIs DEF Others
<1>6. ASSUME NEW x \in Hosts, WindowEnds(x) PROVE Goal'
  BY <1>1, <1>2, <1>6, WindowEndsIs DEF Others
<1>7. ASSUME NEW x \in Hosts, Added(x) PROVE Goal'
  BY <1>1, <1>2, <1>7, AddedIs DEF Others
<1>8. ASSUME NEW x \in Hosts, SendRequest(x) PROVE Goal'
  <2>1. PICK kind \in RequestKinds(x) : Broadcast(x, kind)
    BY <1>8, SendRequestIs
  <2>2. flight \subseteq flight'
    BY <2>1 DEF Broadcast
  <2>3. UNCHANGED <<holds, there, lost, replies>> /\ Others(x)
    BY <1>8, SendRequestIs
  <2>4. CASE h = x
    <3> DEFINE q == [kind |-> kind, from |-> x, to |-> g, n |-> sent[x] + 1]
    <3>1. kind \in {"request", "probe"}
      BY <2>3, <2>4 DEF RequestKinds
    <3>2. g \in Hosts \ {x}
      BY <2>3, <2>4 DEF Placed, Typed
    <3>3. q \in flight'
      BY <2>1, <3>2 DEF Broadcast
    <3>4. q.kind = kind /\ q.from = x /\ q.to = g
      OBVIOUS
    <3> QED BY <2>4, <3>1, <3>3, <3>4 DEF Asked
  <2>5. CASE h # x
    BY <1>1, <1>2, <2>2, <2>3, <2>5 DEF Others
  <2> QED BY <2>4, <2>5
<1>9. ASSUME NEW x \in Hosts, SweepEnds(x) PROVE Goal'
  BY <1>1, <1>2, <1>9, SweepEndsIs DEF Others
<1>10. ASSUME NEW f \in flight, Arrive(f) PROVE Goal'
  <2>1. step[h] = "collect" /\ h \notin holds /\ lost = 0 /\ there' = there /\ replies[h] \subseteq replies'[h]
    BY <1>10, ArriveIs
  <2>2. Goal
    BY <2>1 DEF Swept
  <2>3. g \in holds
    BY <2>1 DEF Placed
  <2>4. ASSUME Asked(h, g), ~Asked(h, g)' PROVE g \in replies'[h]
    <3>1. f.kind = "reply" /\ f.from = g /\ f.to = h
      BY <1>10, <2>3, <2>4, AskedArrive
    <3> QED BY <1>10, <2>1, <3>1, ArriveIs
  <2> QED BY <2>1, <2>2, <2>4
<1>11. ASSUME NEW f \in flight, Lose(f) PROVE Goal'
  BY <1>11, LoseIs
<1> QED BY <1>3, <1>4, <1>5, <1>6, <1>7, <1>8, <1>9, <1>10, <1>11, NextIs

LEMMA SweepExactStep == Typed /\ Placed /\ Flights /\ Swept /\ SweepExact /\ Next => SweepExact'
<1> DEFINE Complete(h) ==
      /\ sent[h] = 1 /\ exit[h] = "ok" /\ h \notin added \cup holds
      /\ lost = 0 /\ h \notin cut \cup late
      => there[h] \subseteq replies[h]
<1> SUFFICES ASSUME Typed, Placed, Flights, Swept, SweepExact, Next, NEW h \in Hosts
             PROVE  (replies[h] \subseteq holds /\ Complete(h))'
  BY DEF SweepExact
<1>0. replies[h] \subseteq holds /\ Complete(h)
  BY DEF SweepExact
<1>1. holds \subseteq holds' /\ added \subseteq added'
  BY Growing
<1>2. ASSUME replies'[h] = replies[h], there'[h] = there[h], lost' = lost, cut \subseteq cut', late \subseteq late',
             exit'[h] = "ok" => exit[h] = "ok" /\ sent'[h] = sent[h]
      PROVE  (replies[h] \subseteq holds /\ Complete(h))'
  BY <1>0, <1>1, <1>2
<1> HIDE DEF Complete
<1>3. ASSUME Stays PROVE (replies[h] \subseteq holds /\ Complete(h))'
  <2>1. CASE sent[h] = 0
    <3>1. sent'[h] = 0 /\ UNCHANGED <<replies, holds>>
      BY <1>3, <2>1 DEF Stays
    <3>2. sent'[h] # 1
      BY <3>1
    <3>3. Complete(h)'
      BY <3>2 DEF Complete
    <3> QED BY <1>0, <3>1, <3>3
  <2>2. CASE sent[h] # 0
    BY <1>2, <1>3, <2>2 DEF Stays
  <2> QED BY <2>1, <2>2
<1>4. ASSUME NEW x \in Hosts, Confirm(x) PROVE (replies[h] \subseteq holds /\ Complete(h))'
  <2>1. CASE h = x
    BY <1>0, <1>4, <2>1, ConfirmIs DEF Complete
  <2>2. CASE h # x
    BY <1>2, <1>4, <2>2, ConfirmIs DEF Others
  <2> QED BY <2>1, <2>2
<1>5. ASSUME NEW x \in Hosts, SendProbe(x) PROVE (replies[h] \subseteq holds /\ Complete(h))'
  BY <1>2, <1>5, SendProbeIs DEF Others
<1>6. ASSUME NEW x \in Hosts, WindowEnds(x) PROVE (replies[h] \subseteq holds /\ Complete(h))'
  BY <1>2, <1>6, WindowEndsIs DEF Others
<1>7. ASSUME NEW x \in Hosts, Added(x) PROVE (replies[h] \subseteq holds /\ Complete(h))'
  <2>1. CASE h = x
    BY <1>0, <1>7, <2>1, AddedIs DEF Complete
  <2>2. CASE h # x
    BY <1>2, <1>7, <2>2, AddedIs DEF Others
  <2> QED BY <2>1, <2>2
<1>8. ASSUME NEW x \in Hosts, SendRequest(x) PROVE (replies[h] \subseteq holds /\ Complete(h))'
  BY <1>2, <1>8, SendRequestIs DEF Others
<1>9. ASSUME NEW x \in Hosts, SweepEnds(x) PROVE (replies[h] \subseteq holds /\ Complete(h))'
  <2>0. UNCHANGED <<replies, holds, lost, there, added, sent>>
    BY <1>9, SweepEndsIs
  <2>1. CASE h = x
    <3>1. step[h] = "collect" /\ (Waiting(h) # {} => h \in late')
      BY <1>9, <2>1, SweepEndsIs
    <3>2. ASSUME h \notin holds, lost = 0, h \notin late', NEW g \in there[h] PROVE g \in replies[h]
      BY <3>1, <3>2, AskedIsWaited DEF Swept
    <3> QED BY <1>0, <2>0, <3>2 DEF Complete
  <2>2. CASE h # x
    BY <1>2, <1>9, <2>2, SweepEndsIs DEF Others
  <2> QED BY <2>1, <2>2
<1>10. ASSUME NEW f \in flight, Arrive(f) PROVE (replies[h] \subseteq holds /\ Complete(h))'
  <2>1. /\ UNCHANGED <<sent, there, lost, added, holds, cut, late>>
        /\ replies[h] \subseteq replies'[h] /\ exit'[h] \in {exit[h], "unsafe"}
    BY <1>10, ArriveIs
  <2>2. replies'[h] \subseteq holds
    <3>1. CASE h = f.to /\ f.kind = "reply"
      <4>1. f.from \in holds
        BY <3>1 DEF Flights
      <4>2. replies'[h] \subseteq replies[h] \cup {f.from}
        BY <1>10, <3>1, ArriveIs
      <4> QED BY <1>0, <4>1, <4>2
    <3>2. CASE ~(h = f.to /\ f.kind = "reply")
      <4>1. replies'[h] = replies[h]
        BY <1>10, <3>2, ArriveIs
      <4> QED BY <1>0, <4>1
    <3> QED BY <3>1, <3>2
  <2> QED BY <1>0, <2>1, <2>2 DEF Complete
<1>11. ASSUME NEW f \in flight, Lose(f) PROVE (replies[h] \subseteq holds /\ Complete(h))'
  <2>1. lost' # 0 /\ UNCHANGED <<replies, holds>>
    BY <1>11, LoseIs
  <2> QED BY <1>0, <2>1 DEF Complete
<1> QED BY <1>3, <1>4, <1>5, <1>6, <1>7, <1>8, <1>9, <1>10, <1>11, NextIs

-----------------------------------------------------------------------------
(* Refusals: a frame that conflicts comes from a holder or a prober.       *)

LEMMA RefusalStep == Typed /\ Placed /\ Flights /\ RefusalFounded /\ Next => RefusalFounded'
<1> SUFFICES ASSUME Typed, Placed, Flights, RefusalFounded, Next,
                    NEW h \in Hosts, exit'[h] = "unsafe", sent'[h] > 0
             PROVE  \E g \in Hosts \ {h} : g \in holds' \cup probed'
  BY DEF RefusalFounded
<1>1. holds \subseteq holds' /\ probed \subseteq probed'
  BY Growing
<1>2. ASSUME exit[h] = "unsafe", sent'[h] = sent[h] PROVE \E g \in Hosts \ {h} : g \in holds' \cup probed'
  <2>1. \E g \in Hosts \ {h} : g \in holds \cup probed
    BY <1>2 DEF RefusalFounded
  <2> QED BY <1>1, <2>1
<1>3. ASSUME Stays PROVE exit[h] = "unsafe" /\ sent'[h] = sent[h]
  <2>1. sent' = sent
    BY <1>3 DEF Stays
  <2>2. ~(0 > 0)
    OBVIOUS
  <2>3. sent[h] # 0
    BY <2>1, <2>2
  <2> QED BY <1>3, <2>1, <2>3 DEF Stays
<1>4. ASSUME NEW x \in Hosts, Confirm(x) PROVE exit[h] = "unsafe" /\ sent'[h] = sent[h]
  BY <1>4, ConfirmIs DEF Others
<1>5. ASSUME NEW x \in Hosts, SendProbe(x) PROVE exit[h] = "unsafe" /\ sent'[h] = sent[h]
  BY <1>5, SendProbeIs DEF Others
<1>6. ASSUME NEW x \in Hosts, WindowEnds(x) PROVE exit[h] = "unsafe" /\ sent'[h] = sent[h]
  BY <1>6, WindowEndsIs DEF Others
<1>7. ASSUME NEW x \in Hosts, Added(x) PROVE exit[h] = "unsafe" /\ sent'[h] = sent[h]
  BY <1>7, AddedIs DEF Others
<1>8. ASSUME NEW x \in Hosts, SendRequest(x) PROVE exit[h] = "unsafe" /\ sent'[h] = sent[h]
  BY <1>8, SendRequestIs DEF Others
<1>9. ASSUME NEW x \in Hosts, SweepEnds(x) PROVE exit[h] = "unsafe" /\ sent'[h] = sent[h]
  BY <1>9, SweepEndsIs DEF Others
<1>10. ASSUME NEW f \in flight, Arrive(f) PROVE \E g \in Hosts \ {h} : g \in holds' \cup probed'
  <2>1. CASE step[f.to] = "listen" /\ Conflicts(f) /\ h = f.to
    <3>1. f.from \in Hosts \ {h} /\ f.from \in holds \cup probed
      BY <1>10, <2>1, ArriveIs DEF Flights, Conflicts
    <3> QED BY <1>1, <3>1
  <2>2. CASE ~(step[f.to] = "listen" /\ Conflicts(f) /\ h = f.to)
    BY <1>2, <1>10, <2>2, ArriveIs
  <2> QED BY <2>1, <2>2
<1>11. ASSUME NEW f \in flight, Lose(f) PROVE exit[h] = "unsafe" /\ sent'[h] = sent[h]
  BY <1>11, LoseIs
<1> QED BY <1>2, <1>3, <1>4, <1>5, <1>6, <1>7, <1>8, <1>9, <1>10, <1>11, NextIs

-----------------------------------------------------------------------------
(* Theorems.                                                               *)

LEMMA StutterInv == Inv /\ UNCHANGED vars => Inv'
<1> SUFFICES ASSUME Inv, UNCHANGED vars PROVE Inv'
  OBVIOUS
<1>1. UNCHANGED <<step, sent, exit, replies, there, probed, cut, late, flight, lost, blind, cancelled, holds, added>>
  BY DEF vars, processVars, segmentVars
<1>2. Typed' /\ Placed' /\ Flights' /\ Askers'
  BY <1>1 DEF Inv, Typed, Placed, Flights, Askers
<1>3. Losses' /\ Early' /\ Met'
  BY <1>1 DEF Inv, Losses, Closed, Open, Early, Past, Met, Probed
<1>4. Swept' /\ SweepExact' /\ RefusalFounded'
  BY <1>1 DEF Inv, Swept, Asked, SweepExact, RefusalFounded
<1> QED BY <1>2, <1>3, <1>4 DEF Inv

LEMMA InvHolds == Spec => []Inv
<1>1. Inv /\ [Next]_vars => Inv'
  <2> SUFFICES ASSUME Inv, [Next]_vars PROVE Inv'
    OBVIOUS
  <2>1. CASE Next
    <3>1. Typed'
      BY <2>1, TypedStep DEF Inv
    <3>2. Placed' /\ Flights'
      BY <2>1, PlacedStep, FlightsStep DEF Inv
    <3>3. Askers' /\ Losses'
      BY <2>1, <3>1, AskersStep, LossesStep DEF Inv
    <3>4. Early' /\ Met'
      BY <2>1, EarlyStep, MetStep DEF Inv
    <3>5. Swept' /\ SweepExact'
      BY <2>1, SweptStep, SweepExactStep DEF Inv
    <3>6. RefusalFounded'
      BY <2>1, RefusalStep DEF Inv
    <3> QED BY <3>1, <3>2, <3>3, <3>4, <3>5, <3>6 DEF Inv
  <2>2. CASE UNCHANGED vars
    BY <2>2, StutterInv
  <2> QED BY <2>1, <2>2
<1> QED BY InitInv, <1>1, PTL DEF Spec

\* A refusal is founded: a probe ends "unsafe" only where another host has
\* the address or probed for it (Conflicts, active.go).
THEOREM RefusalsAreFounded == Spec => []RefusalFounded
<1>1. Inv => RefusalFounded
  BY DEF Inv
<1> QED BY InvHolds, <1>1, PTL

\* What silence and answers are taken to mean is right but for the listed
\* reasons: fewer losses than probes never hide a resident from Probe, two
\* probers never overlook each other, and a sweep is exact.
THEOREM ConclusionsAreExplained == Spec => []ConclusionsExplained
<1> SUFFICES ASSUME TRUE PROVE Inv => ConclusionsExplained
  BY InvHolds, PTL
<1> SUFFICES ASSUME Inv PROVE ConclusionsExplained
  OBVIOUS
<1>1. TypeOK
  BY DEF Inv, Typed, TypeOK
<1>2. ResidentKept
  BY DEF Inv, Typed, Early, Past, ResidentKept
<1>3. SharedExplained
  <2> SUFFICES ASSUME NEW a \in added, NEW b \in added, a # b, a \notin late, b \notin late
               PROVE  <<a, b>> \in blind \/ <<b, a>> \in blind
    BY DEF SharedExplained
  <2>1. a \in Hosts /\ b \in Hosts /\ Past(a) /\ Past(b)
    BY DEF Inv, Typed, Past
  <2>2. ~Open(a, b, ProbeCount) /\ ~Open(b, a, ProbeCount)
    BY <2>1, Bounds DEF Inv, Early
  <2> QED BY <2>1, <2>2 DEF Inv, Met, Probed
<1>4. SweepExact
  BY DEF Inv
<1> QED BY <1>1, <1>2, <1>3, <1>4 DEF ConclusionsExplained

\* The address is added only with all probes sent and by a wait that was
\* not cut short, although listen (socket_linux.go) does not tell.
THEOREM NothingAddedWhenCut == Spec => CutAddsNothing
<1>1. Inv /\ [Next]_vars => [\A h \in added' \ added : h \notin cut /\ sent[h] = ProbeCount]_vars
  <2> SUFFICES ASSUME Typed, Placed, Next, NEW h \in added' \ added PROVE h \notin cut /\ sent[h] = ProbeCount
    BY DEF Inv
  <2>1. ASSUME NEW x \in Hosts, Added(x) PROVE h \notin cut /\ sent[h] = ProbeCount
    BY <2>1, AddedIs
  <2>2. ASSUME NEW f \in flight, Arrive(f) \/ Lose(f) PROVE added' = added
    BY <2>2 DEF Arrive, Lose
  <2>3. ASSUME NEW x \in Hosts, Confirm(x) \/ SendProbe(x) \/ WindowEnds(x) \/ SendRequest(x) \/ SweepEnds(x)
        PROVE  added' = added
    BY <2>3, ConfirmIs, SendProbeIs, WindowEndsIs, SendRequestIs, SweepEndsIs
  <2> QED BY <2>1, <2>2, <2>3, NextIs DEF Stays
<1> QED BY InvHolds, <1>1, PTL DEF Spec, CutAddsNothing
=============================================================================
