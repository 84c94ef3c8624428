---------------------------- MODULE AddressClaim ----------------------------
(***************************************************************************)
(* internal/active/active.go, socket_linux.go and cmd/wirepup/cmd_active.go: *)
(* hosts that want one IPv4 address for themselves ("connect": plan,       *)
(* confirmation, RFC 5227 probes, addition) or look who has it ("probe":   *)
(* an ARP sweep, of which the model keeps the one address).                *)
(*                                                                         *)
(* The segment delivers a frame late, out of order or, MaxLost times, not  *)
(* at all.  A frame is under way until its reader reads it; the kernel of  *)
(* a host that has the address answers then.  What AddContext does to the  *)
(* session is in SessionManager; here it adds the address or fails.        *)
(***************************************************************************)
EXTENDS Naturals, FiniteSets

CONSTANTS Hosts, ProbeCount, MaxLost

ASSUME ProbesOutlastLoss == {ProbeCount, MaxLost} \subseteq Nat /\ MaxLost < ProbeCount

VARIABLES
  step,       \* where the command of a host stands
  sent,       \* frames a host sent for the address
  exit,       \* how its command ended
  cancelled,  \* hosts whose context ended
  holds,      \* hosts whose kernel has the address
  flight,     \* frames under way
  lost,       \* how many were lost
  replies,    \* what a sweep lists: the hosts that answered
  \* history
  added,      \* hosts whose connect added the address
  there,      \* the hosts that had the address when a host opened its socket
  probed,     \* hosts that sent a frame that looks like a probe
  cut, late,  \* hosts whose listening ended early; with frames still under way
  blind       \* <<b, a>>: the last probe of b was lost between b and a, or
              \* met a after its own probe and before its addition

processVars == <<step, sent, exit, replies, there, probed, cut, late>>
segmentVars == <<flight, lost, blind>>
vars == <<processVars, segmentVars, cancelled, holds, added>>

Steps == {"idle", "confirm", "confirm sweep", "send", "listen", "add", "request", "collect", "over"}
Exits == {"none", "ok", "error", "usage", "privilege", "unsafe", "not observed"}
Frames == [kind : {"probe", "request", "claim", "reply"}, from : Hosts, to : Hosts, n : 1..ProbeCount]

Init ==
  /\ step = [h \in Hosts |-> "idle"] /\ sent = [h \in Hosts |-> 0]
  /\ exit = [h \in Hosts |-> "none"] /\ replies = [h \in Hosts |-> {}]
  /\ cancelled = {} /\ holds \in SUBSET Hosts /\ flight = {} /\ lost = 0
  /\ added = {} /\ there = [h \in Hosts |-> {}] /\ probed = {}
  /\ cut = {} /\ late = {} /\ blind = {}

-----------------------------------------------------------------------------
(* Before a frame is sent.                                                 *)

Goto(h, s) == step' = [step EXCEPT ![h] = s] /\ exit' = exit

End(h, result) ==
  /\ step' = [step EXCEPT ![h] = "over"]
  /\ exit' = [exit EXCEPT ![h] = result]

quiet == <<sent, replies, there, probed, cut, late, segmentVars, cancelled, holds, added>>

Cancel(h) ==
  /\ h \notin cancelled /\ step[h] \notin {"idle", "over"}
  /\ cancelled' = cancelled \cup {h}
  /\ UNCHANGED <<processVars, segmentVars, holds, added>>

\* What the passive observation says of the target: whether it was seen,
\* and whether a way to reach it is recommended, with a free address.
Reports == [seen : BOOLEAN, advice : {"none", "reason", "candidate"}]

\* refuseIfConfigured
Refused(h) == h \in holds

\* Why runConnect ends before it asks, "none" when it does not.
Verdict(h, requested, report) ==
  CASE ~requested /\ ~report.seen -> "not observed"
    [] ~requested /\ report.advice = "none" -> "ok"
    [] ~requested /\ report.advice = "reason" -> "unsafe"
    [] Refused(h) -> "unsafe"
    [] OTHER -> "none"

Connect(h) ==
  /\ step[h] = "idle"
  /\ \E requested \in BOOLEAN, report \in Reports :
       LET v == Verdict(h, requested, report) IN
         IF v = "none" THEN Goto(h, "confirm") ELSE End(h, v)
  /\ UNCHANGED quiet

Probe(h) == step[h] = "idle" /\ Goto(h, "confirm sweep") /\ UNCHANGED quiet

\* Wrong flags, or an observation that fails.
NotPlanned(h) ==
  /\ step[h] = "idle"
  /\ \E result \in {"error", "usage", "privilege"} : End(h, result)
  /\ UNCHANGED quiet

\* confirm, then openARP.  From here on the socket keeps what arrives.
Confirmed(h, from, to) ==
  /\ step[h] = from /\ h \notin cancelled
  /\ Goto(h, to)
  /\ there' = [there EXCEPT ![h] = holds \ {h}]
  /\ UNCHANGED <<sent, replies, probed, cut, late, segmentVars, cancelled, holds, added>>

Confirm(h) == Confirmed(h, "confirm", "send") \/ Confirmed(h, "confirm sweep", "request")

NotConfirmed(h) ==
  /\ step[h] \in {"confirm", "confirm sweep"}
  /\ \E result \in {"error", "usage", "privilege"} : End(h, result)
  /\ UNCHANGED quiet

-----------------------------------------------------------------------------
(* RFC 5227 probes: Probe of socket_linux.go.                              *)

Broadcast(h, kind) ==
  /\ flight' = flight \cup {[kind |-> kind, from |-> h, to |-> g, n |-> sent[h] + 1] : g \in Hosts \ {h}}
  /\ sent' = [sent EXCEPT ![h] = @ + 1]

SendProbe(h) ==
  /\ step[h] = "send" /\ h \notin cancelled
  /\ Broadcast(h, "probe") /\ probed' = probed \cup {h}
  /\ Goto(h, "listen")
  /\ UNCHANGED <<replies, there, cut, late, lost, blind, cancelled, holds, added>>

\* The context ended, the frame cannot be sent, or the socket fails.
ProbeFails(h) ==
  /\ \/ step[h] = "send"
     \/ step[h] = "listen"
  /\ End(h, "error")
  /\ UNCHANGED quiet

\* The frames that a host still waits for: those to it, and its own.
Waiting(h) == {f \in flight : h \in {f.from, f.to}}

\* Mutant: frames that are still to come are waited for with new probes.
WindowEndsRetry(h) ==
  /\ step[h] = "listen"
  /\ Goto(h, IF sent[h] = ProbeCount /\ Waiting(h) = {} THEN "add" ELSE "send")
  /\ sent' = [sent EXCEPT ![h] = IF @ = ProbeCount /\ Waiting(h) # {} THEN 0 ELSE @]
  /\ cut' = IF h \in cancelled THEN cut \cup {h} ELSE cut
  /\ UNCHANGED <<replies, there, probed, late, segmentVars, cancelled, holds, added>>

\* listen returns at its deadline, and as soon as the context ends; it does
\* not tell which.
WindowEnds(h) ==
  /\ step[h] = "listen"
  /\ IF sent[h] < ProbeCount
     THEN Goto(h, "send") /\ UNCHANGED <<cut, late>>
     ELSE /\ Goto(h, "add")
          /\ cut' = IF h \in cancelled THEN cut \cup {h} ELSE cut
          /\ late' = IF Waiting(h) # {} THEN late \cup {h} ELSE late
  /\ UNCHANGED <<sent, replies, there, probed, segmentVars, cancelled, holds, added>>

\* Mutant: AddContext does not look at the context.
AddedAnyway(h) ==
  /\ step[h] = "add"
  /\ holds' = holds \cup {h} /\ added' = added \cup {h}
  /\ \E result \in {"ok", "error"} : End(h, result)
  /\ UNCHANGED <<sent, replies, there, probed, cut, late, segmentVars, cancelled>>

\* AddContext adds the address, now and then without knowing it.
Added(h) ==
  /\ step[h] = "add" /\ h \notin cancelled
  /\ holds' = holds \cup {h} /\ added' = added \cup {h}
  /\ \E result \in {"ok", "error"} : End(h, result)
  /\ UNCHANGED <<sent, replies, there, probed, cut, late, segmentVars, cancelled>>

NotAdded(h) ==
  /\ step[h] = "add"
  /\ \E result \in {"error", "privilege"} : End(h, result)
  /\ UNCHANGED quiet

-----------------------------------------------------------------------------
(* The sweep: Sweep of socket_linux.go.                                    *)

\* senderAddress: a host without IPv4 sends what looks like a probe; one
\* that has the address may send from it.
RequestKinds(h) == IF h \in holds THEN {"request", "claim"} ELSE {"request", "probe"}

SendRequest(h) ==
  /\ step[h] = "request" /\ h \notin cancelled
  /\ \E kind \in RequestKinds(h) :
       Broadcast(h, kind) /\ probed' = IF kind = "probe" THEN probed \cup {h} ELSE probed
  /\ Goto(h, "collect")
  /\ UNCHANGED <<replies, there, cut, late, lost, blind, cancelled, holds, added>>

SweepFails(h) ==
  /\ step[h] \in {"request", "collect"}
  /\ End(h, "error")
  /\ UNCHANGED quiet

\* The last listening does not tell that it was cut short either.
SweepEnds(h) ==
  /\ step[h] = "collect"
  /\ End(h, "ok")
  /\ cut' = IF h \in cancelled THEN cut \cup {h} ELSE cut
  /\ late' = IF Waiting(h) # {} THEN late \cup {h} ELSE late
  /\ UNCHANGED <<sent, replies, there, probed, segmentVars, cancelled, holds, added>>

-----------------------------------------------------------------------------
(* The segment.                                                            *)

\* Mutant: only an answer is a claim.
ConflictsReply(f) == f.kind \in {"reply", "claim"}

\* Mutant: whoever asks for the address is taken to claim it.
ConflictsRequest(f) == f.kind \in {"reply", "claim", "probe", "request"}

\* Conflicts, of a frame of another host.
Conflicts(f) == f.kind \in {"reply", "claim", "probe"}

collect(f) == f.kind = "reply"

\* A host that has the address answers, but not to its own address.
Answer(f) ==
  IF f.kind \in {"probe", "request"} /\ f.to \in holds
  THEN {[kind |-> "reply", from |-> f.to, to |-> f.from, n |-> f.n]} ELSE {}

Last(f) == f.n = ProbeCount /\ f.kind \in {"probe", "reply"}
Pair(f) == IF f.kind = "probe" THEN <<f.from, f.to>> ELSE <<f.to, f.from>>

Arrive(f) ==
  /\ step[f.to] \notin {"send", "request"}
  /\ flight' = (flight \ {f}) \cup Answer(f)
  /\ IF step[f.to] = "listen" /\ Conflicts(f)
     THEN End(f.to, "unsafe")
     ELSE UNCHANGED <<step, exit>>
  /\ replies' = IF step[f.to] = "collect" /\ collect(f)
                THEN [replies EXCEPT ![f.to] = @ \cup {f.from}] ELSE replies
  /\ blind' = IF step[f.to] = "add" /\ Last(f) THEN blind \cup {Pair(f)} ELSE blind
  /\ UNCHANGED <<sent, there, probed, cut, late, lost, cancelled, holds, added>>

Lose(f) ==
  /\ lost < MaxLost /\ lost' = lost + 1
  /\ flight' = flight \ {f}
  /\ blind' = IF Last(f) THEN blind \cup {Pair(f)} ELSE blind
  /\ UNCHANGED <<processVars, cancelled, holds, added>>

Run(h) ==
  \/ SendProbe(h) \/ WindowEnds(h) \/ ProbeFails(h) \/ Added(h) \/ NotAdded(h)
  \/ SendRequest(h) \/ SweepEnds(h) \/ SweepFails(h)

Next ==
  \/ \E h \in Hosts :
       Cancel(h) \/ Connect(h) \/ Probe(h) \/ NotPlanned(h) \/ Confirm(h) \/ NotConfirmed(h) \/ Run(h)
  \/ \E f \in flight : Arrive(f) \/ Lose(f)

\* A command that was confirmed runs, and its deadlines come.
Spec == Init /\ [][Next]_vars /\ \A h \in Hosts : WF_vars(Run(h))

-----------------------------------------------------------------------------
(* Properties.                                                             *)

\* The state is of its type and within the budget of the probe.
TypeOK ==
  /\ step \in [Hosts -> Steps] /\ exit \in [Hosts -> Exits]
  /\ sent \in [Hosts -> 0..ProbeCount] /\ flight \subseteq Frames
  /\ {holds, added, cancelled, probed, cut, late} \subseteq SUBSET Hosts
  /\ replies \in [Hosts -> SUBSET Hosts] /\ \A h \in Hosts : h \notin replies[h]

\* An address that another host had before the probe began is not added,
\* whichever frames are lost, unless the last wait ended with frames of the
\* exchange still under way.
ResidentKept == \A h \in added : there[h] = {} \/ h \in late

\* Two hosts that connect to one address both get it only if frames were
\* too late for one of them, or if the last probe of one was lost or came
\* between the probe and the addition of the other.
SharedExplained ==
  \A a, b \in added :
    \/ a = b \/ a \in late \/ b \in late
    \/ <<a, b>> \in blind \/ <<b, a>> \in blind

\* Nothing is added after a wait that was cut short, although the probe
\* itself reports such a wait as one that heard nothing.
CutAddsNothing ==
  [][\A h \in added' \ added : h \notin cut /\ sent[h] = ProbeCount]_vars

\* A probe is refused only for a host that has the address or probed for it
\* as well, never for one that merely asks who has it.
RefusalFounded ==
  \A h \in Hosts :
    exit[h] = "unsafe" /\ sent[h] > 0 => \E g \in Hosts \ {h} : g \in holds \cup probed

\* A sweep lists only hosts that have the address, and all that had it
\* when it began, unless it was cut, or frames were lost or late, or the
\* sweeping host has the address itself.
SweepExact ==
  \A h \in Hosts :
    /\ replies[h] \subseteq holds
    /\ /\ sent[h] = 1 /\ exit[h] = "ok" /\ h \notin added \cup holds
       /\ lost = 0 /\ h \notin cut \cup late
       => there[h] \subseteq replies[h]

\* What a command concludes from silence and from answers is right, or has
\* one of these reasons.
ConclusionsExplained == TypeOK /\ ResidentKept /\ SharedExplained /\ SweepExact

\* A command that was confirmed ends, whatever is heard.
ConfirmedEnds == \A h \in Hosts : step[h] \in {"send", "request"} ~> step[h] = "over"
=============================================================================
