------------------------------ MODULE Discovery ------------------------------
(***************************************************************************)
(* internal/device/epics.go: applyCA correlates Channel Access searches    *)
(* with their answers while several capture sources feed one table, and    *)
(* internal/diagnose/rules.go reads its findings from that table.  Clients *)
(* send and repeat searches by UDP, servers answer each copy that reaches  *)
(* them, and a source captures what passes its interface.  A packet is     *)
(* applied as a whole, under the lock of the table.                        *)
(***************************************************************************)
EXTENDS Naturals, Sequences, FiniteSets

CONSTANTS
  Sources,
  Queries,      \* what clients look for: [client, id, pv]
  Servers,      \* [host, port]
  Serves,       \* the names each server hosts
  Bystanders,   \* hosts whose traffic is no discovery
  MaxSearches,  \* maxSearches of epics.go
  MaxFrames     \* bound of the model: frames sent

ASSUME SearchBound == MaxSearches \in Nat \ {0}

VARIABLES
  asked,        \* the copies of searches sent so far
  replied,      \* <<server, copy>>
  others,       \* the number of beacons and other frames
  seen, got,    \* per source, the frames captured and applied
  searches,     \* every search record made, in the order they were made
  order,        \* the records listed, oldest first
  byKey,        \* the record of a client and search id
  servers,      \* the servers listed
  rank,         \* per host, how well the table knows its address
  timeline      \* the sources some device entry refers to

wireVars == <<asked, replied, others>>
table == <<searches, order, byKey, servers, rank, timeline>>
vars == <<wireVars, seen, got, table>>

Hosts == {q.client : q \in Queries} \cup {v.host : v \in Servers} \cup Bystanders

SearchFrame(q) == [kind |-> "search", from |-> q.client, id |-> q.id, pv |-> q.pv]
Answer(kind, q, v) ==
  [kind |-> kind, from |-> v.host, to |-> q.client, id |-> q.id, server |-> v]
BeaconFrame(v) == [kind |-> "beacon", from |-> v.host, server |-> v]
OtherFrame(h) == [kind |-> "other", from |-> h]

\* A "not found" names no port, and the decoder leaves the port at zero.
NoPort(v) == [v EXCEPT !.port = 0]

Frame ==
  {SearchFrame(q) : q \in Queries} \cup {BeaconFrame(v) : v \in Servers}
    \cup {Answer("response", q, v) : q \in Queries, v \in Servers}
    \cup {Answer("notfound", q, NoPort(v)) : q \in Queries, v \in Servers}
    \cup {OtherFrame(h) : h \in Hosts}

D == INSTANCE Delivery WITH Packet <- Frame

Init ==
  /\ asked = <<>> /\ replied = {} /\ others = 0
  /\ D!Init
  /\ searches = <<>> /\ order = <<>> /\ byKey = <<>> /\ servers = <<>>
  /\ rank = [h \in Hosts |-> 0]
  /\ timeline = {}

-----------------------------------------------------------------------------
(* The network.  A frame may pass any of the interfaces, or none.          *)

Capture(f) ==
  /\ Len(asked) + Cardinality(replied) + others < MaxFrames
  /\ \E S \in SUBSET Sources :
       seen' = [s \in Sources |-> IF s \in S THEN Append(seen[s], f) ELSE seen[s]]
  /\ UNCHANGED <<got, table>>

Ask(q) ==
  /\ Capture(SearchFrame(q))
  /\ asked' = Append(asked, q)
  /\ UNCHANGED <<replied, others>>

Reply(v, i) ==
  /\ <<v, i>> \notin replied
  /\ LET q == asked[i] IN
       IF q.pv \in Serves[v] THEN Capture(Answer("response", q, v))
       ELSE Capture(Answer("notfound", q, NoPort(v)))
  /\ replied' = replied \cup {<<v, i>>}
  /\ UNCHANGED <<asked, others>>

SendOther(f) ==
  /\ Capture(f)
  /\ others' = others + 1
  /\ UNCHANGED <<asked, replied>>

-----------------------------------------------------------------------------
(* The table.                                                              *)

Current(s) == seen[s][Len(got[s]) + 1]
Arrives(s, kind) == D!Deliver(s) /\ Current(s).kind = kind /\ UNCHANGED wireVars

\* Mutant: searches are told apart by their id alone.
searchKeyById(client, id) == <<(CHOOSE q \in Queries : q.id = id).client, id>>

searchKey(client, id) == <<client, id>>

\* touch and addAddress: an address is seen in IPv4 traffic, or observed in
\* an answer or a beacon; a first or a stronger sight leaves a timeline entry.
Sighted(s, level) ==
  LET h == Current(s).from IN
    IF level > rank[h]
    THEN rank' = [rank EXCEPT ![h] = level] /\ timeline' = timeline \cup {s}
    ELSE UNCHANGED <<rank, timeline>>

Known(key) == key \in DOMAIN byKey

\* Mutant: a repeated search starts over.
RepeatSearchAnew(s) ==
  /\ Arrives(s, "search")
  /\ LET key == searchKey(Current(s).from, Current(s).id) IN
       /\ Known(key)
       /\ searches' = [searches EXCEPT ![byKey[key]].count = @ + 1,
                                      ![byKey[key]].responses = {}]
  /\ Sighted(s, 1)
  /\ UNCHANGED <<order, byKey, servers>>

RepeatSearch(s) ==
  /\ Arrives(s, "search")
  /\ LET key == searchKey(Current(s).from, Current(s).id) IN
       /\ Known(key)
       /\ searches' = [searches EXCEPT ![byKey[key]].count = @ + 1]
  /\ Sighted(s, 1)
  /\ UNCHANGED <<order, byKey, servers>>

Entry(s) ==
  [key |-> searchKey(Current(s).from, Current(s).id), pv |-> Current(s).pv,
   count |-> 1, responses |-> {}, notFound |-> {},
   source |-> s, packet |-> Len(got[s]) + 1]

\* byKey with the key of record n, and without that of record old.
Entered(key, n) == [k \in DOMAIN byKey \cup {key} |-> IF k = key THEN n ELSE byKey[k]]
\* Mutant: the dropped record stays in the map.
WithoutNone(f, key) == f

Without(f, key) == [k \in DOMAIN f \ {key} |-> f[k]]

FirstSearch(s) ==
  /\ Arrives(s, "search")
  /\ LET e == Entry(s)
         n == Len(searches) + 1
     IN  /\ ~Known(e.key)
         /\ searches' = Append(searches, e)
         /\ IF Len(order) < MaxSearches
            THEN /\ order' = Append(order, n)
                 /\ byKey' = Entered(e.key, n)
            ELSE /\ order' = Tail(Append(order, n))
                 /\ byKey' = Without(Entered(e.key, n), searches[Head(order)].key)
  /\ Sighted(s, 1)
  /\ UNCHANGED servers

\* The server record of an answer or a beacon, new ones referring to s.
caServer(v, s) ==
  IF v \in DOMAIN servers THEN servers[v]
  ELSE [answers |-> 0, beacons |-> 0, pvs |-> {}, source |-> s]
Updated(v, r) == [w \in DOMAIN servers \cup {v} |-> IF w = v THEN r ELSE servers[w]]

\* An answer is known by the packet that carried it.
Ref(s) == [server |-> Current(s).server, source |-> s, packet |-> Len(got[s]) + 1]

\* Mutant: an answer to an unknown search is skipped, as applyPVA skips it.
ResponseSkipped(s) ==
  /\ Arrives(s, "response")
  /\ LET f == Current(s)
         key == searchKey(f.to, f.id)
         srv == caServer(f.server, s)
     IN  IF Known(key)
         THEN /\ searches' = [searches EXCEPT ![byKey[key]].responses = @ \cup {Ref(s)}]
              /\ servers' = Updated(f.server,
                   [srv EXCEPT !.answers = @ + 1, !.pvs = @ \cup {searches[byKey[key]].pv}])
         ELSE servers' = Updated(f.server, srv) /\ UNCHANGED searches
  /\ Sighted(s, 2)
  /\ UNCHANGED <<order, byKey>>

Response(s) ==
  /\ Arrives(s, "response")
  /\ LET f == Current(s)
         key == searchKey(f.to, f.id)
         srv == caServer(f.server, s)
     IN  IF Known(key)
         THEN /\ searches' = [searches EXCEPT ![byKey[key]].responses = @ \cup {Ref(s)}]
              /\ servers' = Updated(f.server,
                   [srv EXCEPT !.answers = @ + 1, !.pvs = @ \cup {searches[byKey[key]].pv}])
         ELSE /\ servers' = Updated(f.server, [srv EXCEPT !.answers = @ + 1])
              /\ UNCHANGED searches
  /\ Sighted(s, 2)
  /\ UNCHANGED <<order, byKey>>

\* Mutant: a "not found" is listed as a response as well.
NotFoundCounted(s) ==
  /\ Arrives(s, "notfound")
  /\ LET f == Current(s)
         key == searchKey(f.to, f.id)
     IN  /\ servers' = Updated(f.server, caServer(f.server, s))
         /\ searches' = IF Known(key)
                        THEN [searches EXCEPT ![byKey[key]].notFound = @ \cup {Ref(s)},
                                              ![byKey[key]].responses = @ \cup {Ref(s)}]
                        ELSE searches
  /\ Sighted(s, 2)
  /\ UNCHANGED <<order, byKey>>

NotFound(s) ==
  /\ Arrives(s, "notfound")
  /\ LET f == Current(s)
         key == searchKey(f.to, f.id)
     IN  /\ servers' = Updated(f.server, caServer(f.server, s))
         /\ searches' = IF Known(key)
                        THEN [searches EXCEPT ![byKey[key]].notFound = @ \cup {Ref(s)}]
                        ELSE searches
  /\ Sighted(s, 2)
  /\ UNCHANGED <<order, byKey>>

Beacon(s) ==
  /\ Arrives(s, "beacon")
  /\ LET v == Current(s).server IN
       servers' = Updated(v, [caServer(v, s) EXCEPT !.beacons = @ + 1])
  /\ Sighted(s, 2)
  /\ UNCHANGED <<searches, order, byKey>>

Other(s) ==
  /\ Arrives(s, "other")
  /\ Sighted(s, 1)
  /\ UNCHANGED <<searches, order, byKey, servers>>

Apply(s) ==
  \/ RepeatSearch(s) \/ FirstSearch(s) \/ Response(s)
  \/ NotFound(s) \/ Beacon(s) \/ Other(s)

Next ==
  \/ \E q \in Queries : Ask(q)
  \/ \E v \in Servers, i \in DOMAIN asked : Reply(v, i)
  \/ \E v \in Servers : SendOther(BeaconFrame(v))
  \/ \E h \in Bystanders : SendOther(OtherFrame(h))
  \/ \E s \in Sources : Apply(s)

Spec == Init /\ [][Next]_vars

-----------------------------------------------------------------------------
(* What internal/diagnose/rules.go reads.                                  *)

Listed == {searches[order[i]] : i \in DOMAIN order}

\* caRules
Unanswered(r) == r.responses = {} /\ r.notFound = {}
MultipleServers(r) == Cardinality(r.responses) > 1
BeaconOnly(v) == servers[v].beacons > 0 /\ servers[v].answers = 0 /\ order # <<>>

\* sourceRules: what the sources of the table's entries contributed.
Sourced(s) == (\E r \in Listed : r.source = s) \/ \E v \in DOMAIN servers : servers[v].source = s
Compared == timeline \cup {s \in Sources : Sourced(s)}
AbsentOn(s) == s \in Compared /\ ~Sourced(s) /\ \E t \in Compared : Sourced(t)

-----------------------------------------------------------------------------
(* Properties.                                                             *)

Ids == {q.id : q \in Queries}
PVs == {q.pv : q \in Queries}
Keys == {q.client : q \in Queries} \X Ids
Endpoints == Servers \cup {NoPort(v) : v \in Servers}
Refs == [server : Endpoints, source : Sources, packet : Nat \ {0}]
SearchRecord ==
  [key : Keys, pv : PVs, count : Nat \ {0}, responses : SUBSET Refs,
   notFound : SUBSET Refs, source : Sources, packet : Nat \ {0}]
ServerRecord ==
  [answers : Nat, beacons : Nat, pvs : SUBSET PVs, source : Sources]

\* The variables have the types of caState and of the device table.
TypeOK ==
  /\ asked \in Seq(Queries) /\ replied \subseteq Servers \X Nat /\ others \in Nat
  /\ seen \in [Sources -> Seq(Frame)] /\ got \in [Sources -> Seq(Frame)]
  /\ searches \in Seq(SearchRecord)
  /\ order \in Seq(Nat)
  /\ DOMAIN byKey \subseteq Keys /\ \A k \in DOMAIN byKey : byKey[k] \in Nat
  /\ DOMAIN servers \subseteq Endpoints
  /\ \A v \in DOMAIN servers : servers[v] \in ServerRecord
  /\ rank \in [Hosts -> 0..2]
  /\ timeline \subseteq Sources

\* The list of searches and the map by client and id describe the same
\* records, no more than maxSearches, and they are the youngest ones: an
\* answer never reaches a record that is off the list, and none is listed
\* that no answer can reach (sorder and searches of caState).
TableAgrees ==
  /\ Len(order) <= MaxSearches
  /\ \A i \in DOMAIN order : order[i] = Len(searches) - Len(order) + i
  /\ \A i \in DOMAIN order : Known(searches[order[i]].key) /\ byKey[searches[order[i]].key] = order[i]
  /\ \A k \in DOMAIN byKey : \E i \in DOMAIN order : searches[order[i]].key = k

\* A search is never reported unanswered, nor an answer to it left out, when
\* its own source captured the answer after the search, whatever the other
\* sources deliver in between and however often the search is repeated.
AnswersListed ==
  \A r \in Listed : \A p \in r.packet + 1 .. Len(got[r.source]) :
    LET f == got[r.source][p] IN
      f.kind \in {"response", "notfound"} /\ searchKey(f.to, f.id) = r.key
        => [server |-> f.server, source |-> r.source, packet |-> p]
             \in IF f.kind = "response" THEN r.responses ELSE r.notFound

\* A server is said to host a name only if it hosts it, when no two programs
\* of a host search with the same id.
ClaimsTrue == \A v \in DOMAIN servers : v \in Servers => servers[v].pvs \subseteq Serves[v]

\* "Sends beacons but answered no observed search" is said of no server an
\* answer of which was observed, not even one whose search had been dropped
\* or was never captured.
BeaconOnlySound ==
  \A v \in DOMAIN servers : BeaconOnly(v) =>
    \A s \in Sources : \A p \in DOMAIN got[s] :
      got[s][p].kind = "response" => got[s][p].server # v

\* "More than one CA server claims" a name: two servers host it, or the
\* search was repeated and one server answered both copies, or two sources
\* captured one answer.  The rule counts answers and has no other way to be
\* wrong: a "not found", or an answer to another search, never counts.
ConflictsExplained ==
  \A r \in Listed : MultipleServers(r) =>
    \/ \E v, w \in Servers : v # w /\ r.pv \in Serves[v] \cap Serves[w]
    \/ Cardinality({i \in DOMAIN asked : searchKey(asked[i].client, asked[i].id) = r.key}) > 1
    \/ \E a, b \in r.responses : a.source # b.source

\* Two frames that the table keeps in one record.
SameRecord(f, g) ==
  \/ f.kind = "search" /\ g.kind = "search" /\ searchKey(f.from, f.id) = searchKey(g.from, g.id)
  \/ {f.kind, g.kind} \subseteq {"response", "notfound", "beacon"} /\ f.server = g.server

\* Discovery is reported absent on a source that captured some only when
\* another source delivered a frame of the same search or server, which the
\* record then belongs to, or when searches had to leave the table.
AbsenceExplained ==
  \A s \in Sources : AbsentOn(s) =>
    \A p \in DOMAIN got[s] : got[s][p].kind # "other" =>
      \/ \E t \in Sources \ {s} : \E i \in DOMAIN got[t] : SameRecord(got[s][p], got[t][i])
      \/ got[s][p].kind = "search" /\ Len(searches) > MaxSearches

\* What the rules on Channel Access say wrongly has one of these reasons.
RulesExplained == ConflictsExplained /\ AbsenceExplained

=============================================================================
