--------------------------- MODULE DiscoveryProof ---------------------------
(***************************************************************************)
(* For every set of sources, clients and servers and every bound: the      *)
(* variables of Discovery are of their types; the list of searches and the *)
(* map by client and id describe the same, youngest records; no answer is  *)
(* missed; and what the table says of a server is true.                    *)
(***************************************************************************)
EXTENDS Discovery, SequenceTheorems, FiniteSetTheorems, TLAPS

\* TableAgrees with what its arithmetic needs.
Listing == Len(order) <= Len(searches) /\ TableAgrees

IInv == TypeOK /\ Listing

\* What the fields of a frame are.
LEMMA FrameFields ==
  ASSUME NEW f \in Frame
  PROVE  /\ f.from \in Hosts
         /\ f.kind = "search" => f.id \in Ids /\ f.pv \in PVs /\ <<f.from, f.id>> \in Keys
         /\ f.kind \in {"response", "notfound", "beacon"} => f.server \in Endpoints
<1>1. CASE \E q \in Queries : f = SearchFrame(q)
  BY <1>1 DEF SearchFrame, Hosts, Ids, PVs, Keys
<1>2. CASE \E v \in Servers : f = BeaconFrame(v)
  BY <1>2 DEF BeaconFrame, Hosts, Endpoints
<1>3. CASE \E q \in Queries, v \in Servers : f = Answer("response", q, v)
  BY <1>3 DEF Answer, Hosts, Endpoints
<1>4. CASE \E q \in Queries, v \in Servers : f = Answer("notfound", q, NoPort(v))
  <2>1. PICK q \in Queries, v \in Servers : f = Answer("notfound", q, NoPort(v))
    BY <1>4
  <2>2. NoPort(v).host = v.host
    BY DEF NoPort
  <2> QED BY <2>1, <2>2 DEF Answer, Hosts, Endpoints
<1>5. CASE \E h \in Hosts : f = OtherFrame(h)
  BY <1>5 DEF OtherFrame
<1> QED BY <1>1, <1>2, <1>3, <1>4, <1>5 DEF Frame

LEMMA SentFrames ==
  /\ \A q \in Queries : SearchFrame(q) \in Frame
  /\ \A v \in Servers : BeaconFrame(v) \in Frame
  /\ \A q \in Queries, v \in Servers : Answer("response", q, v) \in Frame
  /\ \A q \in Queries, v \in Servers : Answer("notfound", q, NoPort(v)) \in Frame
  /\ \A h \in Bystanders : OtherFrame(h) \in Frame
BY DEF Frame, Hosts

-----------------------------------------------------------------------------
(* The frame a source hands over.                                          *)

LEMMA ArrivedFrame ==
  ASSUME TypeOK, NEW s \in Sources, NEW kind, Arrives(s, kind)
  PROVE  /\ Current(s) \in Frame /\ Current(s).kind = kind
         /\ Len(got[s]) + 1 \in Nat \ {0}
         /\ got' \in [Sources -> Seq(Frame)]
         /\ seen' = seen /\ UNCHANGED wireVars
<1>1. seen[s] \in Seq(Frame) /\ got[s] \in Seq(Frame)
  BY DEF TypeOK
<1>2. Len(got[s]) < Len(seen[s]) /\ seen' = seen
  BY DEF Arrives, D!Deliver
<1>3. Len(got[s]) + 1 \in 1..Len(seen[s])
  BY <1>1, <1>2
<1>4. Current(s) \in Frame
  BY <1>1, <1>3 DEF Current
<1>5. got' = [got EXCEPT ![s] = Append(@, seen[s][Len(@) + 1])]
  BY DEF Arrives, D!Deliver
<1>6. Append(got[s], Current(s)) \in Seq(Frame)
  BY <1>1, <1>4
<1>7. got' \in [Sources -> Seq(Frame)]
  BY <1>5, <1>6 DEF TypeOK, Current
<1> QED BY <1>2, <1>3, <1>4, <1>7 DEF Arrives

LEMMA SightedTypes ==
  ASSUME TypeOK, NEW s \in Sources, NEW level \in 0..2, Sighted(s, level),
         Current(s) \in Frame
  PROVE  rank' \in [Hosts -> 0..2] /\ timeline' \subseteq Sources
<1>1. Current(s).from \in Hosts
  BY FrameFields
<1> QED BY <1>1 DEF Sighted, TypeOK

\* The records of the servers after one of them was updated.
LEMMA ServerTypes ==
  ASSUME TypeOK, NEW v \in Endpoints, NEW r \in ServerRecord,
         servers' = Updated(v, r)
  PROVE  /\ DOMAIN servers' \subseteq Endpoints
         /\ \A w \in DOMAIN servers' : servers'[w] \in ServerRecord
BY DEF TypeOK, Updated

LEMMA CaServerType ==
  ASSUME TypeOK, NEW v, NEW s \in Sources
  PROVE  caServer(v, s) \in ServerRecord
BY DEF TypeOK, caServer, ServerRecord

\* The map leads to the listed records.
LEMMA KnownRecord ==
  ASSUME TypeOK, Listing, NEW k \in DOMAIN byKey
  PROVE  byKey[k] \in DOMAIN searches
<1>1. PICK i \in DOMAIN order : searches[order[i]].key = k
  BY DEF Listing, TableAgrees
<1>2. byKey[k] = order[i] /\ order[i] = Len(searches) - Len(order) + i
  BY <1>1 DEF Listing, TableAgrees
<1>3. i \in 1..Len(order) /\ Len(order) \in Nat /\ Len(searches) \in Nat
  BY DEF TypeOK
<1> QED BY <1>2, <1>3 DEF Listing, TypeOK

\* Changes to the contents of the records leave list and map as they are.
LEMMA ListingKept ==
  ASSUME TypeOK, Listing, UNCHANGED <<order, byKey>>,
         searches' \in Seq(SearchRecord), Len(searches') = Len(searches),
         \A j \in DOMAIN searches : searches'[j].key = searches[j].key
  PROVE  Listing'
<1>1. \A i \in DOMAIN order : order[i] \in DOMAIN searches
  BY DEF Listing, TableAgrees, TypeOK
<1>2. \A i \in DOMAIN order : searches'[order'[i]].key = searches[order[i]].key
  BY <1>1
<1>3. order' = order /\ byKey' = byKey
  OBVIOUS
<1>4. Len(order') <= Len(searches') /\ Len(order') <= MaxSearches
  BY <1>3 DEF Listing, TableAgrees
<1>5. \A i \in DOMAIN order' : order'[i] = Len(searches') - Len(order') + i
  BY <1>3 DEF Listing, TableAgrees
<1>6. \A i \in DOMAIN order' : LET k == searches'[order'[i]].key IN
        k \in DOMAIN byKey' /\ byKey'[k] = order'[i]
  BY <1>2, <1>3 DEF Listing, TableAgrees, Known
<1>7. \A k \in DOMAIN byKey' : \E i \in DOMAIN order' : searches'[order'[i]].key = k
  BY <1>2, <1>3 DEF Listing, TableAgrees
<1> QED BY <1>4, <1>5, <1>6, <1>7 DEF Listing, TableAgrees, Known

-----------------------------------------------------------------------------
(* The initial state and the frames of the network.                        *)

LEMMA InitListed == Init => IInv
<1> SUFFICES ASSUME Init PROVE IInv
  OBVIOUS
<1> USE DEF Init, D!Init
<1>1. TypeOK
  BY DEF TypeOK
<1>2. Listing
  BY SearchBound DEF Listing, TableAgrees, Known
<1> QED BY <1>1, <1>2 DEF IInv

LEMMA CaptureListed ==
  ASSUME IInv, NEW f \in Frame, Capture(f),
         asked' \in Seq(Queries), replied' \subseteq Servers \X Nat, others' \in Nat
  PROVE  IInv'
<1> USE DEF Capture
<1>1. PICK S \in SUBSET Sources :
        seen' = [s \in Sources |-> IF s \in S THEN Append(seen[s], f) ELSE seen[s]]
  OBVIOUS
<1>2. seen' \in [Sources -> Seq(Frame)]
  BY <1>1 DEF IInv, TypeOK
<1>3. TypeOK'
  BY <1>2 DEF IInv, TypeOK, table
<1>4. Listing'
  BY DEF IInv, Listing, TableAgrees, Known, table
<1> QED BY <1>3, <1>4 DEF IInv

LEMMA NetworkListed ==
  ASSUME IInv,
         \/ \E q \in Queries : Ask(q)
         \/ \E v \in Servers, i \in DOMAIN asked : Reply(v, i)
         \/ \E v \in Servers : SendOther(BeaconFrame(v))
         \/ \E h \in Bystanders : SendOther(OtherFrame(h))
  PROVE  IInv'
<1>0. asked \in Seq(Queries) /\ replied \subseteq Servers \X Nat /\ others \in Nat
  BY DEF IInv, TypeOK
<1>1. ASSUME NEW q \in Queries, Ask(q) PROVE IInv'
  <2>1. asked' \in Seq(Queries) /\ replied' = replied /\ others' = others
    BY <1>0, <1>1 DEF Ask
  <2>2. SearchFrame(q) \in Frame /\ Capture(SearchFrame(q))
    BY <1>1, SentFrames DEF Ask
  <2> QED BY <1>0, <2>1, <2>2, CaptureListed
<1>2. ASSUME NEW v \in Servers, NEW i \in DOMAIN asked, Reply(v, i) PROVE IInv'
  <2>1. asked[i] \in Queries /\ i \in Nat
    BY <1>0
  <2>2. replied' \subseteq Servers \X Nat /\ asked' = asked /\ others' = others
    BY <1>0, <1>2, <2>1 DEF Reply
  <2>3. \E f \in Frame : Capture(f)
    BY <1>2, <2>1, SentFrames DEF Reply
  <2> QED BY <1>0, <2>2, <2>3, CaptureListed
<1>3. ASSUME NEW f \in Frame, SendOther(f) PROVE IInv'
  <2>1. others' \in Nat /\ asked' = asked /\ replied' = replied /\ Capture(f)
    BY <1>0, <1>3 DEF SendOther
  <2> QED BY <1>0, <2>1, CaptureListed
<1> QED BY <1>1, <1>2, <1>3, SentFrames

-----------------------------------------------------------------------------
(* The frames applied.                                                     *)

\* What is left to show of a step that applies a frame and keeps the list.
LEMMA ContentStep ==
  ASSUME IInv, NEW s \in Sources, NEW kind, NEW level \in 0..2,
         Arrives(s, kind), Sighted(s, level), UNCHANGED <<order, byKey>>,
         searches' \in Seq(SearchRecord), Len(searches') = Len(searches),
         \A j \in DOMAIN searches : searches'[j].key = searches[j].key,
         DOMAIN servers' \subseteq Endpoints,
         \A w \in DOMAIN servers' : servers'[w] \in ServerRecord
  PROVE  IInv'
<1>0. TypeOK /\ Listing
  BY DEF IInv
<1>1. /\ Current(s) \in Frame
      /\ got' \in [Sources -> Seq(Frame)] /\ seen' = seen /\ UNCHANGED wireVars
  BY <1>0, ArrivedFrame
<1>2. rank' \in [Hosts -> 0..2] /\ timeline' \subseteq Sources
  BY <1>0, <1>1, SightedTypes
<1>3. Listing'
  BY <1>0, ListingKept
<1>4. TypeOK'
  BY <1>0, <1>1, <1>2 DEF TypeOK, wireVars
<1> QED BY <1>3, <1>4 DEF IInv

\* Changing other fields of one record than its key.
LEMMA RecordChanged ==
  ASSUME TypeOK, NEW j \in DOMAIN searches, NEW r \in SearchRecord,
         r.key = searches[j].key, searches' = [searches EXCEPT ![j] = r]
  PROVE  /\ searches' \in Seq(SearchRecord) /\ Len(searches') = Len(searches)
         /\ \A i \in DOMAIN searches : searches'[i].key = searches[i].key
BY DEF TypeOK

LEMMA RefType ==
  ASSUME TypeOK, NEW s \in Sources, Current(s) \in Frame,
         Current(s).kind \in {"response", "notfound"}
  PROVE  Ref(s) \in Refs
<1>1. Current(s).server \in Endpoints
  BY FrameFields
<1>2. Len(got[s]) + 1 \in Nat \ {0}
  BY DEF TypeOK
<1> QED BY <1>1, <1>2 DEF Ref, Refs

LEMMA RepeatListed ==
  ASSUME IInv, NEW s \in Sources, RepeatSearch(s)
  PROVE  IInv'
<1> DEFINE j == byKey[searchKey(Current(s).from, Current(s).id)]
           r == [searches[j] EXCEPT !.count = @ + 1]
<1>0. TypeOK /\ Listing /\ Arrives(s, "search") /\ Sighted(s, 1)
  BY DEF IInv, RepeatSearch
<1>1. j \in DOMAIN searches
  BY <1>0, KnownRecord DEF RepeatSearch, Known
<1>2. searches[j] \in SearchRecord
  BY <1>0, <1>1 DEF TypeOK
<1>3. r \in SearchRecord /\ r.key = searches[j].key
  BY <1>2 DEF SearchRecord
<1>4. searches' = [searches EXCEPT ![j] = r]
  BY DEF RepeatSearch
<1>5. /\ searches' \in Seq(SearchRecord) /\ Len(searches') = Len(searches)
      /\ \A i \in DOMAIN searches : searches'[i].key = searches[i].key
  BY <1>0, <1>1, <1>3, <1>4, RecordChanged
<1>6. UNCHANGED <<order, byKey, servers>>
  BY DEF RepeatSearch
<1>7. DOMAIN servers' \subseteq Endpoints /\ \A w \in DOMAIN servers' : servers'[w] \in ServerRecord
  BY <1>0, <1>6 DEF TypeOK
<1> HIDE DEF j, r
<1> QED BY <1>0, <1>5, <1>6, <1>7, ContentStep

LEMMA ResponseListed ==
  ASSUME IInv, NEW s \in Sources, Response(s)
  PROVE  IInv'
<1> DEFINE key == searchKey(Current(s).to, Current(s).id)
           j == byKey[key]
           v == Current(s).server
           srv == caServer(v, s)
           counted == [srv EXCEPT !.answers = @ + 1]
           claimed == [srv EXCEPT !.answers = @ + 1, !.pvs = @ \cup {searches[j].pv}]
           r == [searches[j] EXCEPT !.responses = @ \cup {Ref(s)}]
<1>0. TypeOK /\ Listing /\ Arrives(s, "response") /\ Sighted(s, 2) /\ UNCHANGED <<order, byKey>>
  BY DEF IInv, Response
<1>1. Current(s) \in Frame /\ Current(s).kind = "response"
  BY <1>0, ArrivedFrame
<1>2. v \in Endpoints /\ Ref(s) \in Refs /\ srv \in ServerRecord
  BY <1>0, <1>1, FrameFields, RefType, CaServerType
<1>3. CASE Known(key)
  <2>1. j \in DOMAIN searches
    BY <1>0, <1>3, KnownRecord DEF Known
  <2>2. searches[j] \in SearchRecord
    BY <1>0, <2>1 DEF TypeOK
  <2>3. r \in SearchRecord /\ r.key = searches[j].key
    BY <1>2, <2>2 DEF SearchRecord
  <2>4. claimed \in ServerRecord
    <3>1. searches[j].pv \in PVs
      BY <2>2 DEF SearchRecord
    <3>2. srv.pvs \cup {searches[j].pv} \in SUBSET PVs /\ srv.answers + 1 \in Nat
      BY <1>2, <3>1 DEF ServerRecord
    <3>3. claimed = [srv EXCEPT !.answers = srv.answers + 1, !.pvs = srv.pvs \cup {searches[j].pv}]
      BY DEF ServerRecord
    <3> QED BY <1>2, <3>2, <3>3 DEF ServerRecord
  <2>5. searches' = [searches EXCEPT ![j] = r] /\ servers' = Updated(v, claimed)
    BY <1>3 DEF Response
  <2>6. /\ searches' \in Seq(SearchRecord) /\ Len(searches') = Len(searches)
        /\ \A i \in DOMAIN searches : searches'[i].key = searches[i].key
    BY <1>0, <2>1, <2>3, <2>5, RecordChanged
  <2>7. DOMAIN servers' \subseteq Endpoints /\ \A w \in DOMAIN servers' : servers'[w] \in ServerRecord
    BY <1>0, <1>2, <2>4, <2>5, ServerTypes
  <2> HIDE DEF key, j, v, srv, counted, claimed, r
  <2> QED BY <1>0, <2>6, <2>7, ContentStep
<1>4. CASE ~Known(key)
  <2>1. counted \in ServerRecord
    BY <1>2 DEF ServerRecord
  <2>2. searches' = searches /\ servers' = Updated(v, counted)
    BY <1>4 DEF Response
  <2>3. DOMAIN servers' \subseteq Endpoints /\ \A w \in DOMAIN servers' : servers'[w] \in ServerRecord
    BY <1>0, <1>2, <2>1, <2>2, ServerTypes
  <2>4. searches' \in Seq(SearchRecord)
    BY <1>0, <2>2 DEF TypeOK
  <2> HIDE DEF key, j, v, srv, counted, claimed, r
  <2> QED BY <1>0, <2>2, <2>3, <2>4, ContentStep
<1> QED BY <1>3, <1>4

LEMMA NotFoundListed ==
  ASSUME IInv, NEW s \in Sources, NotFound(s)
  PROVE  IInv'
<1> DEFINE key == searchKey(Current(s).to, Current(s).id)
           j == byKey[key]
           v == Current(s).server
           r == [searches[j] EXCEPT !.notFound = @ \cup {Ref(s)}]
<1>0. TypeOK /\ Listing /\ Arrives(s, "notfound") /\ Sighted(s, 2) /\ UNCHANGED <<order, byKey>>
  BY DEF IInv, NotFound
<1>1. Current(s) \in Frame /\ Current(s).kind = "notfound"
  BY <1>0, ArrivedFrame
<1>2. v \in Endpoints /\ Ref(s) \in Refs /\ caServer(v, s) \in ServerRecord
  BY <1>0, <1>1, FrameFields, RefType, CaServerType
<1>3. servers' = Updated(v, caServer(v, s))
  BY DEF NotFound
<1>4. DOMAIN servers' \subseteq Endpoints /\ \A w \in DOMAIN servers' : servers'[w] \in ServerRecord
  BY <1>0, <1>2, <1>3, ServerTypes
<1>5. /\ searches' \in Seq(SearchRecord) /\ Len(searches') = Len(searches)
      /\ \A i \in DOMAIN searches : searches'[i].key = searches[i].key
  <2>1. CASE Known(key)
    <3>1. j \in DOMAIN searches
      BY <1>0, <2>1, KnownRecord DEF Known
    <3>2. searches[j] \in SearchRecord
      BY <1>0, <3>1 DEF TypeOK
    <3>3. r \in SearchRecord /\ r.key = searches[j].key
      BY <1>2, <3>2 DEF SearchRecord
    <3>4. searches' = [searches EXCEPT ![j] = r]
      BY <2>1 DEF NotFound
    <3> QED BY <1>0, <3>1, <3>3, <3>4, RecordChanged
  <2>2. CASE ~Known(key)
    BY <1>0, <2>2 DEF NotFound, TypeOK
  <2> QED BY <2>1, <2>2
<1> HIDE DEF key, j, v, r
<1> QED BY <1>0, <1>4, <1>5, ContentStep

LEMMA BeaconListed ==
  ASSUME IInv, NEW s \in Sources, Beacon(s)
  PROVE  IInv'
<1> DEFINE v == Current(s).server
           r == [caServer(v, s) EXCEPT !.beacons = @ + 1]
<1>0. TypeOK /\ Listing /\ Arrives(s, "beacon") /\ Sighted(s, 2) /\ UNCHANGED <<searches, order, byKey>>
  BY DEF IInv, Beacon
<1>1. Current(s) \in Frame /\ Current(s).kind = "beacon"
  BY <1>0, ArrivedFrame
<1>2. v \in Endpoints
  BY <1>1, FrameFields
<1>3. r \in ServerRecord
  BY <1>0, CaServerType DEF ServerRecord
<1>4. servers' = Updated(v, r)
  BY DEF Beacon
<1>5. DOMAIN servers' \subseteq Endpoints /\ \A w \in DOMAIN servers' : servers'[w] \in ServerRecord
  BY <1>0, <1>2, <1>3, <1>4, ServerTypes
<1>6. searches' \in Seq(SearchRecord) /\ searches' = searches
  BY <1>0 DEF TypeOK
<1> HIDE DEF v, r
<1> QED BY <1>0, <1>5, <1>6, ContentStep

LEMMA OtherListed ==
  ASSUME IInv, NEW s \in Sources, Other(s)
  PROVE  IInv'
<1>1. TypeOK /\ Arrives(s, "other") /\ Sighted(s, 1) /\ UNCHANGED <<searches, order, byKey, servers>>
  BY DEF IInv, Other
<1>2. /\ searches' \in Seq(SearchRecord) /\ searches' = searches
      /\ DOMAIN servers' \subseteq Endpoints /\ \A w \in DOMAIN servers' : servers'[w] \in ServerRecord
  BY <1>1 DEF TypeOK
<1> QED BY <1>1, <1>2, ContentStep

-----------------------------------------------------------------------------
(* A search that was not listed.                                           *)

\* A record is appended while there is room.
LEMMA RoomListed ==
  ASSUME TypeOK, Listing, NEW e \in SearchRecord, ~Known(e.key),
         Len(order) < MaxSearches,
         searches' = Append(searches, e),
         order' = Append(order, Len(searches) + 1),
         byKey' = Entered(e.key, Len(searches) + 1)
  PROVE  Listing'
<1> DEFINE n == Len(searches) + 1
<1>1. /\ searches \in Seq(SearchRecord) /\ order \in Seq(Nat)
      /\ Len(searches) \in Nat /\ Len(order) \in Nat /\ n \in Nat
  BY DEF TypeOK
<1>2. Len(searches') = n /\ Len(order') = Len(order) + 1
  BY <1>1
<1>3. \A i \in DOMAIN order :
        /\ order'[i] = order[i] /\ order[i] \in DOMAIN searches
        /\ searches'[order[i]] = searches[order[i]]
  BY <1>1 DEF Listing, TableAgrees
<1>4. order'[Len(order) + 1] = n /\ searches'[n] = e
  BY <1>1
<1>5. \A i \in DOMAIN order' : i \in DOMAIN order \/ i = Len(order) + 1
  BY <1>1, <1>2
<1>6. \A i \in DOMAIN order' : order'[i] = Len(searches') - Len(order') + i
  BY <1>1, <1>2, <1>3, <1>4, <1>5 DEF Listing, TableAgrees
<1>7. \A i \in DOMAIN order' : LET k == searches'[order'[i]].key IN
        k \in DOMAIN byKey' /\ byKey'[k] = order'[i]
  <2> SUFFICES ASSUME NEW i \in DOMAIN order', NEW k, k = searches'[order'[i]].key
               PROVE k \in DOMAIN byKey' /\ byKey'[k] = order'[i]
    OBVIOUS
  <2>1. CASE i \in DOMAIN order
    <3>1. k \in DOMAIN byKey /\ byKey[k] = order[i]
      BY <1>3, <2>1, SMTT(30) DEF Listing, TableAgrees, Known
    <3>2. k # e.key
      BY <3>1 DEF Known
    <3> QED BY <1>3, <2>1, <3>1, <3>2 DEF Entered
  <2>2. CASE i = Len(order) + 1
    BY <1>4, <2>2 DEF Entered
  <2> QED BY <1>5, <2>1, <2>2
<1>8. \A k \in DOMAIN byKey' : \E i \in DOMAIN order' : searches'[order'[i]].key = k
  <2> SUFFICES ASSUME NEW k \in DOMAIN byKey' PROVE \E i \in DOMAIN order' : searches'[order'[i]].key = k
    OBVIOUS
  <2>1. CASE k = e.key
    BY <1>1, <1>2, <1>4, <2>1
  <2>2. CASE k # e.key
    <3>1. k \in DOMAIN byKey
      BY <2>2 DEF Entered
    <3>2. PICK i \in DOMAIN order : searches[order[i]].key = k
      BY <3>1 DEF Listing, TableAgrees
    <3> QED BY SMTT(30), <1>1, <1>2, <1>3, <3>2
  <2> QED BY <2>1, <2>2
<1>9. Len(order') <= Len(searches') /\ Len(order') <= MaxSearches
  BY <1>1, <1>2, SearchBound DEF Listing
<1> QED BY <1>6, <1>7, <1>8, <1>9 DEF Listing, TableAgrees, Known

LEMMA Shifted ==
  ASSUME NEW m \in Nat, NEW n \in Nat, NEW i \in Nat
  PROVE  m - n + (i + 1) = (m + 1) - n + i
OBVIOUS

\* The list is full: the oldest record makes room in the list and the map.
LEMMA FullListed ==
  ASSUME TypeOK, Listing, NEW e \in SearchRecord, ~Known(e.key),
         ~(Len(order) < MaxSearches),
         searches' = Append(searches, e),
         order' = Tail(Append(order, Len(searches) + 1)),
         byKey' = Without(Entered(e.key, Len(searches) + 1), searches[Head(order)].key)
  PROVE  Listing'
<1> DEFINE n == Len(searches) + 1
           long == Append(order, n)
           old == searches[order[1]].key
<1>1. /\ searches \in Seq(SearchRecord) /\ order \in Seq(Nat)
      /\ Len(searches) \in Nat /\ Len(order) \in Nat /\ n \in Nat
  BY DEF TypeOK
<1>2. Len(order) \in Nat \ {0} /\ 1 \in DOMAIN order /\ Head(order) = order[1]
  BY <1>1, SearchBound
<1>3. /\ long \in Seq(Nat) /\ Len(long) = Len(order) + 1
      /\ \A i \in 1..Len(order) : long[i] = order[i]
      /\ long[Len(order) + 1] = n
  BY <1>1
<1>4. Len(order') = Len(order) /\ \A i \in 1..Len(order) : order'[i] = long[i + 1]
  BY <1>1, <1>2, <1>3
<1>5. Len(searches') = n /\ searches'[n] = e
      /\ \A i \in DOMAIN searches : searches'[i] = searches[i]
  BY <1>1
<1>6. \A i \in DOMAIN order : order[i] \in DOMAIN searches
  BY <1>1 DEF Listing, TableAgrees
<1>7. old \in DOMAIN byKey /\ byKey[old] = order[1] /\ old # e.key
  BY <1>2 DEF Listing, TableAgrees, Known
<1>8. DOMAIN byKey' = (DOMAIN byKey \cup {e.key}) \ {old}
      /\ \A k \in DOMAIN byKey' : byKey'[k] = IF k = e.key THEN n ELSE byKey[k]
  BY <1>2 DEF Without, Entered
<1>9. DOMAIN order' = 1..Len(order)
  <2>1. order' \in Seq(Nat)
    BY <1>2, <1>3
  <2> QED BY <2>1, <1>4
<1>10. \A i \in DOMAIN order' : i + 1 \in DOMAIN order \/ i = Len(order)
  BY <1>1, <1>9
<1>11. \A i \in DOMAIN order' : order'[i] = Len(searches') - Len(order') + i
  <2> SUFFICES ASSUME NEW i \in DOMAIN order' PROVE order'[i] = Len(searches') - Len(order') + i
    OBVIOUS
  <2>1. CASE i + 1 \in DOMAIN order
    <3>1. order'[i] = order[i + 1]
      BY <1>1, <1>3, <1>4, <1>9, <2>1
    <3>2. order[i + 1] = Len(searches) - Len(order) + (i + 1)
      BY <2>1 DEF Listing, TableAgrees
    <3>3. i \in Nat
      BY <1>1, <1>9
    <3>4. Len(searches) - Len(order) + (i + 1) = (Len(searches) + 1) - Len(order) + i
      BY <1>1, <3>3, Shifted
    <3> QED BY <1>4, <1>5, <3>1, <3>2, <3>4
  <2>2. CASE i = Len(order)
    <3>1. order'[i] = long[i + 1] /\ long[i + 1] = n
      BY <1>3, <1>4, <1>9, <2>2
    <3>2. n - i + i = n
      BY <1>1, <2>2
    <3> QED BY <1>4, <1>5, <2>2, <3>1, <3>2
  <2> QED BY <1>10, <2>1, <2>2
<1>12. \A i \in DOMAIN order' : LET k == searches'[order'[i]].key IN
        k \in DOMAIN byKey' /\ byKey'[k] = order'[i]
  <2> SUFFICES ASSUME NEW i \in DOMAIN order', NEW k, k = searches'[order'[i]].key
               PROVE k \in DOMAIN byKey' /\ byKey'[k] = order'[i]
    OBVIOUS
  <2>1. CASE i + 1 \in DOMAIN order
    <3>1. order'[i] = order[i + 1]
      BY <1>1, <1>3, <1>4, <1>9, <2>1
    <3>2. k = searches[order[i + 1]].key
      BY <1>5, <1>6, <2>1, <3>1
    <3>3. k \in DOMAIN byKey /\ byKey[k] = order[i + 1]
      BY <2>1, <3>2 DEF Listing, TableAgrees, Known
    <3>4. order[i + 1] # order[1]
      <4>1. order[i + 1] = Len(searches) - Len(order) + (i + 1)
            /\ order[1] = Len(searches) - Len(order) + 1
        BY <1>2, <2>1 DEF Listing, TableAgrees
      <4> QED BY <1>1, <1>9, <4>1
    <3>5. k # old /\ k # e.key
      BY <1>7, <3>3, <3>4 DEF Known
    <3> QED BY <1>8, <3>1, <3>3, <3>5
  <2>2. CASE i = Len(order)
    <3>1. order'[i] = n /\ k = e.key
      BY <1>1, <1>2, <1>3, <1>4, <1>5, <2>2
    <3> QED BY <1>7, <1>8, <3>1
  <2> QED BY <1>10, <2>1, <2>2
<1>13. \A k \in DOMAIN byKey' : \E i \in DOMAIN order' : searches'[order'[i]].key = k
  <2> SUFFICES ASSUME NEW k \in DOMAIN byKey'
               PROVE \E i \in DOMAIN order' : searches'[order'[i]].key = k
    OBVIOUS
  <2>1. CASE k = e.key
    <3>1. Len(order) \in DOMAIN order' /\ order'[Len(order)] = n
      BY <1>1, <1>2, <1>3, <1>4, <1>9
    <3> QED BY <1>5, <2>1, <3>1
  <2>2. CASE k # e.key
    <3>1. k \in DOMAIN byKey /\ k # old
      BY <1>8, <2>2
    <3>2. PICK i \in DOMAIN order : searches[order[i]].key = k
      BY <3>1 DEF Listing, TableAgrees
    <3>3. i \in 2..Len(order)
      BY <1>1, <3>1, <3>2
    <3>4. i - 1 \in DOMAIN order' /\ order'[i - 1] = order[i]
      <4>1. i - 1 \in 1..Len(order) /\ (i - 1) + 1 = i /\ i \in 1..Len(order)
        BY <1>1, <3>3
      <4>2. order'[i - 1] = long[(i - 1) + 1]
        BY <1>4, <4>1
      <4> QED BY <1>3, <1>9, <4>1, <4>2
    <3>5. searches'[order'[i - 1]].key = k
      BY <1>5, <1>6, <3>2, <3>4
    <3> QED BY <3>4, <3>5
  <2> QED BY <2>1, <2>2
<1>14. Len(order') <= Len(searches') /\ Len(order') <= MaxSearches
  <2>1. Len(order) <= Len(searches) /\ Len(order) <= MaxSearches
    BY DEF Listing, TableAgrees
  <2> QED BY <1>1, <1>4, <1>5, <2>1
<1> QED BY <1>11, <1>12, <1>13, <1>14 DEF Listing, TableAgrees, Known

LEMMA FirstListed ==
  ASSUME IInv, NEW s \in Sources, FirstSearch(s)
  PROVE  IInv'
<1> DEFINE e == Entry(s)
           n == Len(searches) + 1
<1>0. TypeOK /\ Listing /\ Arrives(s, "search") /\ Sighted(s, 1) /\ servers' = servers
  BY DEF IInv, FirstSearch
<1>1. /\ Current(s) \in Frame /\ Current(s).kind = "search"
      /\ Len(got[s]) + 1 \in Nat \ {0}
      /\ got' \in [Sources -> Seq(Frame)] /\ seen' = seen /\ UNCHANGED wireVars
  BY <1>0, ArrivedFrame
<1>2. rank' \in [Hosts -> 0..2] /\ timeline' \subseteq Sources
  BY <1>0, <1>1, SightedTypes
<1>3. e \in SearchRecord
  <2>1. Current(s).pv \in PVs /\ <<Current(s).from, Current(s).id>> \in Keys
    BY <1>1, FrameFields
  <2> QED BY <1>1, <2>1 DEF Entry, searchKey, SearchRecord
<1>4. ~Known(e.key) /\ searches' = Append(searches, e) /\ n \in Nat
  BY <1>0 DEF FirstSearch, TypeOK
<1>5. e.key \in Keys
  BY <1>3 DEF SearchRecord
<1>6. searches' \in Seq(SearchRecord)
  BY <1>0, <1>3, <1>4 DEF TypeOK
<1>7. /\ order' \in Seq(Nat)
      /\ DOMAIN byKey' \subseteq Keys /\ \A k \in DOMAIN byKey' : byKey'[k] \in Nat
      /\ Listing'
  <2>1. CASE Len(order) < MaxSearches
    <3>1. order' = Append(order, n) /\ byKey' = Entered(e.key, n)
      BY <2>1 DEF FirstSearch
    <3>2. Listing'
      BY <1>0, <1>3, <1>4, <2>1, <3>1, RoomListed
    <3>3. order' \in Seq(Nat)
      BY <1>0, <1>4, <3>1 DEF TypeOK
    <3>4. DOMAIN byKey' \subseteq Keys /\ \A k \in DOMAIN byKey' : byKey'[k] \in Nat
      BY <1>0, <1>4, <1>5, <3>1 DEF TypeOK, Entered
    <3> QED BY <3>2, <3>3, <3>4
  <2>2. CASE ~(Len(order) < MaxSearches)
    <3>1. /\ order' = Tail(Append(order, n))
          /\ byKey' = Without(Entered(e.key, n), searches[Head(order)].key)
      BY <2>2 DEF FirstSearch
    <3>2. Listing'
      BY <1>0, <1>3, <1>4, <2>2, <3>1, FullListed
    <3>3. order' \in Seq(Nat)
      <4>1. Append(order, n) \in Seq(Nat) /\ Len(Append(order, n)) # 0
        BY <1>0, <1>4 DEF TypeOK
      <4> QED BY <3>1, <4>1
    <3>4. DOMAIN byKey' \subseteq Keys /\ \A k \in DOMAIN byKey' : byKey'[k] \in Nat
      BY <1>0, <1>4, <1>5, <3>1 DEF TypeOK, Entered, Without
    <3> QED BY <3>2, <3>3, <3>4
  <2> QED BY <2>1, <2>2
<1>8. TypeOK'
  BY <1>0, <1>1, <1>2, <1>6, <1>7 DEF TypeOK, wireVars
<1> QED BY <1>7, <1>8 DEF IInv

-----------------------------------------------------------------------------

LEMMA ListedInductive == IInv /\ [Next]_vars => IInv'
<1> SUFFICES ASSUME IInv, [Next]_vars PROVE IInv'
  OBVIOUS
<1>1. CASE UNCHANGED vars
  BY <1>1 DEF IInv, TypeOK, Listing, TableAgrees, Known, vars, wireVars, table
<1>2. CASE \E s \in Sources : Apply(s)
  BY <1>2, RepeatListed, FirstListed, ResponseListed, NotFoundListed,
     BeaconListed, OtherListed DEF Apply
<1> QED BY <1>1, <1>2, NetworkListed DEF Next

\* Every reachable state of the discovery table is of its type.
THEOREM DiscoveryTypeCorrect == Spec => []TypeOK
<1>1. IInv => TypeOK
  BY DEF IInv
<1> QED BY <1>1, InitListed, ListedInductive, PTL DEF Spec

\* The list of searches and the map by client and id describe the same
\* records, the youngest ones, and no more than the table may hold.
THEOREM TableConsistent == Spec => []TableAgrees
<1>1. IInv => TableAgrees
  BY DEF IInv, Listing
<1> QED BY <1>1, InitListed, ListedInductive, PTL DEF Spec

-----------------------------------------------------------------------------
(* A server that answered has answers.                                     *)

Counted ==
  \A s \in Sources : \A p \in DOMAIN got[s] :
    got[s][p].kind = "response" =>
      got[s][p].server \in DOMAIN servers /\ servers[got[s][p].server].answers > 0

LEMMA Delivered ==
  ASSUME TypeOK, NEW s \in Sources, NEW kind, Arrives(s, kind)
  PROVE  /\ got[s] \in Seq(Frame) /\ Len(got'[s]) = Len(got[s]) + 1
         /\ \A p \in DOMAIN got[s] : got'[s][p] = got[s][p]
         /\ got'[s][Len(got[s]) + 1] = Current(s)
         /\ \A p \in DOMAIN got'[s] : p \in DOMAIN got[s] \/ p = Len(got[s]) + 1
         /\ \A t \in Sources : t # s => got'[t] = got[t]
<1>1. got[s] \in Seq(Frame) /\ Current(s) \in Frame
  BY ArrivedFrame DEF TypeOK
<1>2. got' = [got EXCEPT ![s] = Append(got[s], Current(s))]
  BY DEF Arrives, D!Deliver, Current
<1>3. got'[s] = Append(got[s], Current(s))
  BY <1>2 DEF TypeOK
<1>4. \A t \in Sources : t # s => got'[t] = got[t]
  BY <1>2 DEF TypeOK
<1> QED BY <1>1, <1>3, <1>4

LEMMA CountedStep ==
  ASSUME TypeOK, Counted, TypeOK', NEW s \in Sources, NEW kind, Arrives(s, kind),
         \A v \in DOMAIN servers :
           v \in DOMAIN servers' /\ servers'[v].answers >= servers[v].answers,
         kind = "response" =>
           Current(s).server \in DOMAIN servers' /\ servers'[Current(s).server].answers > 0
  PROVE  Counted'
<1> SUFFICES ASSUME NEW t \in Sources, NEW p \in DOMAIN got'[t], got'[t][p].kind = "response"
             PROVE  /\ got'[t][p].server \in DOMAIN servers'
                    /\ servers'[got'[t][p].server].answers > 0
  BY DEF Counted
<1>1. CASE p \in DOMAIN got[t] /\ got'[t][p] = got[t][p]
  <2> DEFINE v == got[t][p].server
  <2>1. v \in DOMAIN servers /\ servers[v].answers > 0
    BY <1>1 DEF Counted
  <2>2. v \in DOMAIN servers' /\ servers'[v].answers >= servers[v].answers
    BY <2>1
  <2>3. servers[v].answers \in Nat /\ servers'[v].answers \in Nat
    BY <2>1, <2>2 DEF TypeOK, ServerRecord
  <2>4. servers'[v].answers > 0
    BY <2>1, <2>2, <2>3
  <2> QED BY <1>1, <2>2, <2>4
<1>2. CASE t = s /\ p = Len(got[s]) + 1
  <2>1. got'[t][p] = Current(s)
    BY <1>2, Delivered
  <2>2. Current(s).kind = kind
    BY DEF Arrives
  <2> QED BY <2>1, <2>2
<1>3. (p \in DOMAIN got[t] /\ got'[t][p] = got[t][p]) \/ (t = s /\ p = Len(got[s]) + 1)
  <2>1. CASE t = s
    BY <2>1, Delivered
  <2>2. CASE t # s
    BY <2>2, Delivered
  <2> QED BY <2>1, <2>2
<1> QED BY <1>1, <1>2, <1>3

\* Updating a server record never takes answers away.
LEMMA AnswersGrow ==
  ASSUME TypeOK, NEW v, NEW r, servers' = Updated(v, r), r.answers \in Nat,
         NEW s \in Sources, r.answers >= caServer(v, s).answers
  PROVE  /\ \A w \in DOMAIN servers :
              w \in DOMAIN servers' /\ servers'[w].answers >= servers[w].answers
         /\ v \in DOMAIN servers' /\ servers'[v] = r
<1>1. v \in DOMAIN servers' /\ servers'[v] = r
  BY DEF Updated
<1>2. ASSUME NEW w \in DOMAIN servers
      PROVE  w \in DOMAIN servers' /\ servers'[w].answers >= servers[w].answers
  <2>0. w \in DOMAIN servers' /\ servers[w].answers \in Nat
    BY <1>2 DEF Updated, TypeOK, ServerRecord
  <2>1. CASE w = v
    <3>1. caServer(v, s).answers = servers[w].answers
      BY <1>2, <2>1 DEF caServer
    <3> QED BY <1>1, <2>0, <2>1, <3>1
  <2>2. CASE w # v
    <3>1. servers'[w] = servers[w]
      BY <1>2, <2>2 DEF Updated
    <3> QED BY <2>0, <3>1
  <2> QED BY <2>0, <2>1, <2>2
<1> QED BY <1>1, <1>2

LEMMA CountedApply ==
  ASSUME TypeOK, Counted, TypeOK', NEW s \in Sources, Apply(s)
  PROVE  Counted'
<1> DEFINE v == Current(s).server
           srv == caServer(v, s)
<1>0. srv \in ServerRecord /\ srv.answers \in Nat
  BY CaServerType DEF ServerRecord
<1>1. CASE servers' = servers /\ \E kind \in {"search", "other"} : Arrives(s, kind)
  <2>1. \A w \in DOMAIN servers : servers[w].answers \in Nat
    BY DEF TypeOK, ServerRecord
  <2>2. \A w \in DOMAIN servers : w \in DOMAIN servers' /\ servers'[w].answers >= servers[w].answers
    BY <1>1, <2>1
  <2> QED BY <1>1, <2>2, CountedStep
<1>2. CASE Response(s)
  <2>1. PICK r : servers' = Updated(v, r) /\ r.answers = srv.answers + 1
    <3> DEFINE key == searchKey(Current(s).to, Current(s).id)
               counted == [srv EXCEPT !.answers = @ + 1]
               claimed == [srv EXCEPT !.answers = @ + 1,
                                      !.pvs = @ \cup {searches[byKey[key]].pv}]
    <3>1. counted.answers = srv.answers + 1 /\ claimed.answers = srv.answers + 1
      BY <1>0 DEF ServerRecord
    <3>2. CASE Known(key)
      <4>1. servers' = Updated(v, claimed)
        BY <1>2, <3>2 DEF Response
      <4> QED BY <3>1, <4>1
    <3>3. CASE ~Known(key)
      <4>1. servers' = Updated(v, counted)
        BY <1>2, <3>3 DEF Response
      <4> QED BY <3>1, <4>1
    <3> QED BY <3>2, <3>3
  <2>2. r.answers \in Nat /\ r.answers >= srv.answers /\ r.answers > 0
    BY <1>0, <2>1
  <2>3. /\ \A w \in DOMAIN servers : w \in DOMAIN servers' /\ servers'[w].answers >= servers[w].answers
        /\ v \in DOMAIN servers' /\ servers'[v] = r
    BY <2>1, <2>2, AnswersGrow
  <2>4. Arrives(s, "response")
    BY <1>2 DEF Response
  <2> QED BY <2>2, <2>3, <2>4, CountedStep
<1>3. CASE NotFound(s) \/ Beacon(s)
  <2>1. PICK r : servers' = Updated(v, r) /\ r.answers = srv.answers
    BY <1>0, <1>3 DEF NotFound, Beacon, ServerRecord
  <2>2. r.answers \in Nat /\ r.answers >= srv.answers
    BY <1>0, <2>1
  <2>3. \A w \in DOMAIN servers : w \in DOMAIN servers' /\ servers'[w].answers >= servers[w].answers
    BY <2>1, <2>2, AnswersGrow
  <2>4. \E kind \in {"notfound", "beacon"} : Arrives(s, kind)
    BY <1>3 DEF NotFound, Beacon
  <2> QED BY <2>3, <2>4, CountedStep
<1>4. CASE RepeatSearch(s) \/ FirstSearch(s) \/ Other(s)
  <2>1. servers' = servers /\ \E kind \in {"search", "other"} : Arrives(s, kind)
    BY <1>4 DEF RepeatSearch, FirstSearch, Other
  <2> QED BY <1>1, <2>1
<1> QED BY <1>2, <1>3, <1>4 DEF Apply

LEMMA CountedInductive == TypeOK /\ TypeOK' /\ Counted /\ [Next]_vars => Counted'
<1> SUFFICES ASSUME TypeOK, TypeOK', Counted, [Next]_vars PROVE Counted'
  OBVIOUS
<1>1. CASE \E s \in Sources : Apply(s)
  BY <1>1, CountedApply
<1>2. CASE got' = got /\ servers' = servers
  BY <1>2 DEF Counted
<1>3. (\E s \in Sources : Apply(s)) \/ (got' = got /\ servers' = servers)
  BY DEF Next, vars, Ask, Reply, SendOther, Capture, table
<1> QED BY <1>1, <1>2, <1>3

\* "Sends beacons but answered no observed search" is said of no server an
\* answer of which was applied, whatever became of the search it answered.
THEOREM BeaconOnlyIsSound == Spec => []BeaconOnlySound
<1>1. Init => Counted
  BY DEF Init, D!Init, Counted
<1>2. TypeOK /\ Counted => BeaconOnlySound
  <2> SUFFICES ASSUME TypeOK, Counted, NEW v \in DOMAIN servers, BeaconOnly(v),
                      NEW s \in Sources, NEW p \in DOMAIN got[s],
                      got[s][p].kind = "response", got[s][p].server = v
               PROVE  FALSE
    BY DEF BeaconOnlySound
  <2>1. servers[v].answers > 0 /\ servers[v].answers = 0
    BY DEF Counted, BeaconOnly
  <2> QED BY <2>1
<1> QED BY <1>1, <1>2, CountedInductive, DiscoveryTypeCorrect, PTL DEF Spec

-----------------------------------------------------------------------------
(* A listed search has every answer its source captured after it.          *)

IsAnswer(f, key) == f.kind \in {"response", "notfound"} /\ searchKey(f.to, f.id) = key

\* Packet p of the record's source is on the record if it answers it.
Has(r, p) ==
  LET f == got[r.source][p] IN
    IsAnswer(f, r.key) =>
      [server |-> f.server, source |-> r.source, packet |-> p]
        \in IF f.kind = "response" THEN r.responses ELSE r.notFound

Complete(r) ==
  /\ r.packet <= Len(got[r.source])
  /\ \A p \in r.packet + 1 .. Len(got[r.source]) : Has(r, p)

Heard == \A i \in DOMAIN order : Complete(searches[order[i]])

\* Record q is record r, with perhaps more answers.
Extends(q, r) ==
  /\ q.key = r.key /\ q.source = r.source /\ q.packet = r.packet
  /\ r.responses \subseteq q.responses /\ r.notFound \subseteq q.notFound

\* A record stays complete when the frame that arrives is put on it.
LEMMA CompleteKept ==
  ASSUME TypeOK, NEW s \in Sources, NEW kind, Arrives(s, kind),
         NEW r \in SearchRecord, Complete(r),
         NEW q \in SearchRecord, Extends(q, r),
         r.source = s /\ IsAnswer(Current(s), r.key) =>
           Ref(s) \in IF kind = "response" THEN q.responses ELSE q.notFound
  PROVE  Complete(q)'
<1> DEFINE t == r.source
<1>1. t \in Sources /\ r.packet \in Nat \ {0} /\ q.source = t /\ q.packet = r.packet /\ q.key = r.key
  BY DEF SearchRecord, Extends
<1>2. Len(got[s]) \in Nat /\ Len(got[t]) \in Nat
  BY <1>1 DEF TypeOK
<1>3. CASE t # s
  <2>1. got'[t] = got[t]
    BY <1>1, <1>3, Delivered
  <2> QED BY <1>1, <2>1 DEF Complete, Has, Extends, IsAnswer
<1>4. CASE t = s
  <2>1. Len(got'[t]) = Len(got[t]) + 1 /\ r.packet <= Len(got'[t])
    BY <1>1, <1>2, <1>4, Delivered DEF Complete
  <2>2. ASSUME NEW p \in r.packet + 1 .. Len(got'[t])
        PROVE  Has(q, p)'
    <3>1. CASE p <= Len(got[t])
      <4>1. p \in r.packet + 1 .. Len(got[t]) /\ p \in DOMAIN got[t]
        BY <1>1, <1>2, <2>1, <3>1 DEF TypeOK
      <4>2. got'[t][p] = got[t][p] /\ Has(r, p)
        BY <1>4, <4>1, Delivered DEF Complete
      <4> QED BY <1>1, <4>2 DEF Has, Extends, IsAnswer
    <3>2. CASE ~(p <= Len(got[t]))
      <4>1. p = Len(got[t]) + 1
        BY <1>1, <1>2, <2>1, <3>2
      <4>2. got'[t][p] = Current(s) /\ Current(s).kind = kind
        BY <1>4, <4>1, Delivered DEF Arrives
      <4>3. Ref(s) = [server |-> got'[t][p].server, source |-> t, packet |-> p]
        BY <1>4, <4>1, <4>2 DEF Ref
      <4> QED BY <1>1, <1>4, <4>2, <4>3 DEF Has, IsAnswer
    <3> QED BY <3>1, <3>2
  <2> QED BY <1>1, <2>1, <2>2 DEF Complete
<1> QED BY <1>3, <1>4

\* The records listed are records.
LEMMA ListedRecords ==
  ASSUME IInv, NEW i \in DOMAIN order
  PROVE  order[i] \in DOMAIN searches /\ searches[order[i]] \in SearchRecord
<1>1. order[i] \in DOMAIN searches
  BY DEF IInv, Listing, TableAgrees, TypeOK
<1> QED BY <1>1 DEF IInv, TypeOK

LEMMA HeardStep ==
  ASSUME IInv, IInv', Heard, NEW s \in Sources, NEW kind, Arrives(s, kind), order' = order,
         \A i \in DOMAIN order : Extends(searches'[order[i]], searches[order[i]]),
         \A i \in DOMAIN order : IsAnswer(Current(s), searches[order[i]].key) =>
           Ref(s) \in IF kind = "response" THEN searches'[order[i]].responses
                      ELSE searches'[order[i]].notFound
  PROVE  Heard'
<1> SUFFICES ASSUME NEW i \in DOMAIN order PROVE Complete(searches[order[i]])'
  BY DEF Heard
<1>1. Complete(searches[order[i]])
  BY DEF Heard
<1>2. searches[order[i]] \in SearchRecord
  BY ListedRecords
<1>3. searches'[order[i]] \in SearchRecord
  <2>1. order'[i] \in DOMAIN searches' /\ searches' \in Seq(SearchRecord)
    BY DEF IInv, Listing, TableAgrees, TypeOK
  <2> QED BY <2>1
<1>4. TypeOK
  BY DEF IInv
<1>5. ASSUME NEW q, q = searches'[order[i]] PROVE Complete(q)'
  <2>1. \A r \in SearchRecord : r = searches[order[i]] => Complete(q)'
    <3> SUFFICES ASSUME NEW r \in SearchRecord, r = searches[order[i]] PROVE Complete(q)'
      OBVIOUS
    <3>1. Complete(r) /\ Extends(q, r) /\ q \in SearchRecord
      BY <1>1, <1>3, <1>5
    <3>2. r.source = s /\ IsAnswer(Current(s), r.key) =>
            Ref(s) \in IF kind = "response" THEN q.responses ELSE q.notFound
      BY <1>5
    <3> QED BY <1>4, <3>1, <3>2, CompleteKept
  <2> QED BY <1>2, <2>1
<1>6. \A q : q = searches'[order'[i]] => Complete(q)'
  BY <1>5
<1> QED BY <1>6 DEF Complete, Has

\* A search answers nothing, and a new record has nothing to miss.
LEMMA HeardFirst ==
  ASSUME IInv, Heard, NEW s \in Sources, FirstSearch(s), IInv'
  PROVE  Heard'
<1> DEFINE n == Len(searches) + 1
           e == Entry(s)
<1>0. TypeOK /\ Arrives(s, "search") /\ searches' = Append(searches, e)
      /\ searches \in Seq(SearchRecord) /\ order \in Seq(Nat)
  BY DEF IInv, FirstSearch, TypeOK
<1>1. \A j \in DOMAIN searches : searches'[j] = searches[j]
  BY <1>0
<1>2. searches'[n] = e
  BY <1>0
<1>3. \A i \in DOMAIN order' : (\E k \in DOMAIN order : order'[i] = order[k]) \/ order'[i] = n
  <2>1. \A i \in DOMAIN Append(order, n) :
          (\E k \in DOMAIN order : Append(order, n)[i] = order[k]) \/ Append(order, n)[i] = n
    BY <1>0
  <2>2. CASE order' = Append(order, n)
    BY <2>1, <2>2
  <2>3. CASE order' = Tail(Append(order, n))
    <3>1. Append(order, n) \in Seq(Nat) /\ Len(Append(order, n)) # 0
      BY <1>0
    <3>2. \A i \in DOMAIN order' :
            i + 1 \in DOMAIN Append(order, n) /\ order'[i] = Append(order, n)[i + 1]
      BY <2>3, <3>1
    <3> QED BY <2>1, <3>2
  <2> QED BY <2>2, <2>3 DEF FirstSearch
<1>4. ASSUME NEW r \in SearchRecord, Complete(r)
      PROVE  Complete(r)'
  <2>1. ~IsAnswer(Current(s), r.key)
    BY <1>0 DEF Arrives, IsAnswer
  <2>2. Extends(r, r)
    BY DEF Extends
  <2> QED BY <1>0, <1>4, <2>1, <2>2, CompleteKept
<1>5. e.packet = Len(got[s]) + 1 /\ e.source = s
  BY DEF Entry
<1> HIDE DEF n, e
<1>6. Len(got'[s]) = Len(got[s]) + 1 /\ Len(got[s]) \in Nat
  BY <1>0, Delivered
<1>7. ASSUME NEW q, q.packet = Len(got[s]) + 1, q.source = s PROVE Complete(q)'
  <2>1. q.packet <= Len(got'[q.source]) /\ q.packet + 1 .. Len(got'[q.source]) = {}
    BY <1>6, <1>7
  <2> QED BY <2>1 DEF Complete
<1>8. ASSUME NEW i \in DOMAIN order' PROVE Complete(searches[order[i]])'
  <2>1. CASE order'[i] = n
    <3>1. searches'[order'[i]] = e
      BY <1>2, <2>1
    <3>2. \A q : q = searches'[order'[i]] => Complete(q)'
      BY <1>5, <1>7, <3>1
    <3> QED BY <3>2 DEF Complete, Has
  <2>2. CASE \E k \in DOMAIN order : order'[i] = order[k]
    <3>1. PICK k \in DOMAIN order : order'[i] = order[k]
      BY <2>2
    <3>2. searches[order[k]] \in SearchRecord /\ order[k] \in DOMAIN searches
      BY ListedRecords
    <3>3. Complete(searches[order[k]])
      BY DEF Heard
    <3>4. searches'[order'[i]] = searches[order[k]]
      BY <1>1, <3>1, <3>2
    <3>5. \A r \in SearchRecord : Complete(r) => Complete(r)'
      BY <1>4
    <3> QED BY <3>2, <3>3, <3>4, <3>5 DEF Complete, Has
  <2> QED BY <1>3, <2>1, <2>2
<1> QED BY <1>8 DEF Heard

\* The record an answer is for is the one the map leads to.
LEMMA AnswersTheKnown ==
  ASSUME IInv, NEW f, NEW i \in DOMAIN order, IsAnswer(f, searches[order[i]].key)
  PROVE  /\ Known(searchKey(f.to, f.id))
         /\ byKey[searchKey(f.to, f.id)] = order[i]
BY DEF IInv, Listing, TableAgrees, IsAnswer

LEMMA HeardResponse ==
  ASSUME IInv, IInv', Heard, NEW s \in Sources, Response(s)
  PROVE  Heard'
<1> DEFINE key == searchKey(Current(s).to, Current(s).id)
           j == byKey[key]
           r == [searches[j] EXCEPT !.responses = @ \cup {Ref(s)}]
<1>0. Arrives(s, "response") /\ order' = order /\ TypeOK /\ Listing
  BY DEF Response, IInv
<1>1. CASE Known(key)
  <2>1. j \in DOMAIN searches
    BY <1>0, <1>1, KnownRecord DEF Known
  <2>2. searches[j] \in SearchRecord
    BY <1>0, <2>1 DEF TypeOK
  <2>3. /\ r.key = searches[j].key /\ r.source = searches[j].source
        /\ r.packet = searches[j].packet /\ r.notFound = searches[j].notFound
        /\ r.responses = searches[j].responses \cup {Ref(s)}
    BY <2>2 DEF SearchRecord
  <2>4. searches' = [searches EXCEPT ![j] = r]
    BY <1>1 DEF Response
  <2>5. searches'[j] = r /\ \A i \in DOMAIN searches : i # j => searches'[i] = searches[i]
    BY <1>0, <2>1, <2>4 DEF TypeOK
  <2> HIDE DEF r
  <2>6. \A i \in DOMAIN order : Extends(searches'[order[i]], searches[order[i]])
    BY <2>3, <2>5, ListedRecords DEF Extends
  <2>7. \A i \in DOMAIN order : IsAnswer(Current(s), searches[order[i]].key) =>
          Ref(s) \in searches'[order[i]].responses
    BY <2>3, <2>5, AnswersTheKnown
  <2> QED BY <1>0, <2>6, <2>7, HeardStep
<1>2. CASE ~Known(key)
  <2>1. searches' = searches
    BY <1>2 DEF Response
  <2>2. \A i \in DOMAIN order : Extends(searches'[order[i]], searches[order[i]])
    BY <2>1 DEF Extends
  <2>3. \A i \in DOMAIN order : ~IsAnswer(Current(s), searches[order[i]].key)
    BY <1>2, AnswersTheKnown
  <2> QED BY <1>0, <2>2, <2>3, HeardStep
<1> QED BY <1>1, <1>2

LEMMA HeardNotFound ==
  ASSUME IInv, IInv', Heard, NEW s \in Sources, NotFound(s)
  PROVE  Heard'
<1> DEFINE key == searchKey(Current(s).to, Current(s).id)
           j == byKey[key]
           r == [searches[j] EXCEPT !.notFound = @ \cup {Ref(s)}]
<1>0. Arrives(s, "notfound") /\ order' = order /\ TypeOK /\ Listing
  BY DEF NotFound, IInv
<1>1. CASE Known(key)
  <2>1. j \in DOMAIN searches
    BY <1>0, <1>1, KnownRecord DEF Known
  <2>2. searches[j] \in SearchRecord
    BY <1>0, <2>1 DEF TypeOK
  <2>3. /\ r.key = searches[j].key /\ r.source = searches[j].source
        /\ r.packet = searches[j].packet /\ r.responses = searches[j].responses
        /\ r.notFound = searches[j].notFound \cup {Ref(s)}
    BY <2>2 DEF SearchRecord
  <2>4. searches' = [searches EXCEPT ![j] = r]
    BY <1>1 DEF NotFound
  <2>5. searches'[j] = r /\ \A i \in DOMAIN searches : i # j => searches'[i] = searches[i]
    BY <1>0, <2>1, <2>4 DEF TypeOK
  <2> HIDE DEF r
  <2>6. \A i \in DOMAIN order : Extends(searches'[order[i]], searches[order[i]])
    BY <2>3, <2>5, ListedRecords DEF Extends
  <2>7. \A i \in DOMAIN order : IsAnswer(Current(s), searches[order[i]].key) =>
          Ref(s) \in searches'[order[i]].notFound
    BY <2>3, <2>5, AnswersTheKnown
  <2> QED BY <1>0, <2>6, <2>7, HeardStep
<1>2. CASE ~Known(key)
  <2>1. searches' = searches
    BY <1>2 DEF NotFound
  <2>2. \A i \in DOMAIN order : Extends(searches'[order[i]], searches[order[i]])
    BY <2>1 DEF Extends
  <2>3. \A i \in DOMAIN order : ~IsAnswer(Current(s), searches[order[i]].key)
    BY <1>2, AnswersTheKnown
  <2> QED BY <1>0, <2>2, <2>3, HeardStep
<1> QED BY <1>1, <1>2

LEMMA HeardQuiet ==
  ASSUME IInv, IInv', Heard, NEW s \in Sources,
         RepeatSearch(s) \/ Beacon(s) \/ Other(s)
  PROVE  Heard'
<1>1. PICK kind \in {"search", "beacon", "other"} : Arrives(s, kind)
  BY DEF RepeatSearch, Beacon, Other
<1>2. order' = order
  BY DEF RepeatSearch, Beacon, Other
<1>3. \A key : ~IsAnswer(Current(s), key)
  BY <1>1 DEF Arrives, IsAnswer
<1>4. \A i \in DOMAIN order : Extends(searches'[order[i]], searches[order[i]])
  <2>1. CASE searches' = searches
    BY <2>1 DEF Extends
  <2>2. CASE RepeatSearch(s)
    <3> DEFINE j == byKey[searchKey(Current(s).from, Current(s).id)]
    <3>1. j \in DOMAIN searches
      BY <2>2, KnownRecord DEF RepeatSearch, Known, IInv
    <3>2. searches[j] \in SearchRecord /\ searches \in Seq(SearchRecord)
      BY <3>1 DEF IInv, TypeOK
    <3>3. searches' = [searches EXCEPT ![j] = [searches[j] EXCEPT !.count = @ + 1]]
      BY <2>2 DEF RepeatSearch
    <3> HIDE DEF j
    <3>4. Extends(searches'[j], searches[j])
      BY <3>1, <3>2, <3>3 DEF Extends, SearchRecord
    <3>5. \A i \in DOMAIN searches : i # j => searches'[i] = searches[i]
      BY <3>2, <3>3
    <3> QED BY <3>4, <3>5, ListedRecords DEF Extends
  <2> QED BY <2>1, <2>2 DEF Beacon, Other
<1> QED BY <1>1, <1>2, <1>3, <1>4, HeardStep

LEMMA HeardInductive == IInv /\ IInv' /\ Heard /\ [Next]_vars => Heard'
<1> SUFFICES ASSUME IInv, IInv', Heard, [Next]_vars PROVE Heard'
  OBVIOUS
<1>1. CASE \E s \in Sources : Apply(s)
  BY <1>1, HeardFirst, HeardResponse, HeardNotFound, HeardQuiet DEF Apply
<1>2. CASE got' = got /\ searches' = searches /\ order' = order
  BY <1>2 DEF Heard, Complete, Has
<1>3. (\E s \in Sources : Apply(s)) \/ (got' = got /\ searches' = searches /\ order' = order)
  BY DEF Next, vars, Ask, Reply, SendOther, Capture, table
<1> QED BY <1>1, <1>2, <1>3

\* No listed search lacks an answer that its own source captured after it,
\* however the deliveries of the sources interleave.
THEOREM NoAnswerMissed == Spec => []AnswersListed
<1>1. Init => Heard
  BY DEF Init, Heard
<1>2. IInv /\ Heard => AnswersListed
  <2> SUFFICES ASSUME IInv, Heard, NEW i \in DOMAIN order,
                      NEW p \in searches[order[i]].packet + 1 .. Len(got[searches[order[i]].source])
               PROVE  Has(searches[order[i]], p)
    BY DEF AnswersListed, Listed, Has, IsAnswer
  <2> QED BY DEF Heard, Complete
<1> QED BY <1>1, <1>2, InitListed, ListedInductive, HeardInductive, PTL DEF Spec

-----------------------------------------------------------------------------
(* Names are attributed to servers that host them.                         *)

\* No two programs of a host search with the same id.
UniqueIds ==
  \A q, r \in Queries : searchKey(q.client, q.id) = searchKey(r.client, r.id) => q.pv = r.pv

Asks(key, pv) == \E q \in Queries : searchKey(q.client, q.id) = key /\ q.pv = pv

\* A response comes from a server that hosts what was asked.
Honest(f) ==
  f.kind = "response" =>
    \E pv \in Serves[f.server] : Asks(searchKey(f.to, f.id), pv)

Truthful ==
  /\ \A s \in Sources : \A p \in DOMAIN seen[s] : Honest(seen[s][p])
  /\ \A j \in DOMAIN searches : Asks(searches[j].key, searches[j].pv)
  /\ ClaimsTrue

LEMMA HonestFrames ==
  /\ \A q \in Queries : Honest(SearchFrame(q))
  /\ \A v \in Servers : Honest(BeaconFrame(v))
  /\ \A h : Honest(OtherFrame(h))
  /\ \A q \in Queries, v \in Servers : Honest(Answer("notfound", q, NoPort(v)))
  /\ \A q \in Queries, v \in Servers :
       q.pv \in Serves[v] => Honest(Answer("response", q, v))
BY DEF Honest, SearchFrame, BeaconFrame, OtherFrame, Answer, Asks

LEMMA CaptureTruthful ==
  ASSUME TypeOK, Truthful, NEW f \in Frame, Honest(f), Capture(f)
  PROVE  Truthful'
<1>1. PICK S \in SUBSET Sources :
        seen' = [s \in Sources |-> IF s \in S THEN Append(seen[s], f) ELSE seen[s]]
  BY DEF Capture
<1>2. ASSUME NEW s \in Sources, NEW p \in DOMAIN seen'[s] PROVE Honest(seen'[s][p])
  <2>1. seen[s] \in Seq(Frame)
    BY DEF TypeOK
  <2>2. seen'[s] = seen[s] \/ seen'[s] = Append(seen[s], f)
    BY <1>1
  <2>3. seen'[s][p] = f \/ (p \in DOMAIN seen[s] /\ seen'[s][p] = seen[s][p])
    BY <2>1, <2>2
  <2> QED BY <2>3 DEF Truthful
<1>3. searches' = searches /\ servers' = servers
  BY DEF Capture, table
<1>4. \A j \in DOMAIN searches' : Asks(searches'[j].key, searches'[j].pv)
  BY <1>3 DEF Truthful
<1>5. ClaimsTrue'
  BY <1>3 DEF Truthful, ClaimsTrue
<1>6. \A s \in Sources : \A p \in DOMAIN seen'[s] : Honest(seen'[s][p])
  BY <1>2
<1> QED BY <1>4, <1>5, <1>6 DEF Truthful

LEMMA NetworkTruthful ==
  ASSUME TypeOK, Truthful,
         \/ \E q \in Queries : Ask(q)
         \/ \E v \in Servers, i \in DOMAIN asked : Reply(v, i)
         \/ \E v \in Servers : SendOther(BeaconFrame(v))
         \/ \E h \in Bystanders : SendOther(OtherFrame(h))
  PROVE  Truthful'
<1>1. ASSUME NEW v \in Servers, NEW i \in DOMAIN asked, Reply(v, i)
      PROVE  \E f \in Frame : Honest(f) /\ Capture(f)
  <2>1. asked[i] \in Queries
    BY DEF TypeOK
  <2> QED BY <1>1, <2>1, SentFrames, HonestFrames DEF Reply
<1>2. \E f \in Frame : Honest(f) /\ Capture(f)
  BY <1>1, SentFrames, HonestFrames DEF Ask, SendOther
<1> QED BY <1>2, CaptureTruthful

\* The server records change in the counts only, but for the one that answers.
LEMMA ApplyTruthful ==
  ASSUME UniqueIds, IInv, Truthful, NEW s \in Sources, Apply(s)
  PROVE  Truthful'
<1> DEFINE v == Current(s).server
           key == searchKey(Current(s).to, Current(s).id)
<1>0. TypeOK /\ Listing
  BY DEF IInv
<1>1. PICK kind : Arrives(s, kind)
  BY DEF Apply, RepeatSearch, FirstSearch, Response, NotFound, Beacon, Other
<1>2. seen' = seen
  BY <1>0, <1>1, ArrivedFrame
<1>3. Honest(Current(s))
  <2>1. got[s] \in Seq(Frame) /\ seen[s] \in Seq(Frame) /\ Len(got[s]) < Len(seen[s])
    BY <1>0, <1>1 DEF TypeOK, Arrives, D!Deliver
  <2>2. Len(got[s]) + 1 \in DOMAIN seen[s]
    BY <2>1
  <2> QED BY <2>2 DEF Truthful, Current
<1>4. \A j \in DOMAIN searches' : Asks(searches'[j].key, searches'[j].pv)
  <2>1. CASE FirstSearch(s)
    <3>1. searches' = Append(searches, Entry(s)) /\ searches \in Seq(SearchRecord)
      BY <1>0, <2>1 DEF FirstSearch, TypeOK
    <3>2. Asks(Entry(s).key, Entry(s).pv)
      <4>1. Current(s) \in Frame /\ Current(s).kind = "search"
        BY <1>0, <2>1, ArrivedFrame DEF FirstSearch
      <4>2. PICK q \in Queries : Current(s) = SearchFrame(q)
        BY <4>1 DEF Frame, SearchFrame, BeaconFrame, OtherFrame, Answer
      <4> QED BY <4>2 DEF Asks, Entry, SearchFrame
    <3>3. \A j \in DOMAIN searches' :
            searches'[j] = Entry(s) \/ (j \in DOMAIN searches /\ searches'[j] = searches[j])
      BY <3>1
    <3> QED BY <3>2, <3>3 DEF Truthful
  <2>2. CASE searches' = searches
    BY <2>2 DEF Truthful
  <2>3. ASSUME NEW j \in DOMAIN searches, NEW r, searches' = [searches EXCEPT ![j] = r],
               r.key = searches[j].key, r.pv = searches[j].pv
        PROVE  \A i \in DOMAIN searches' : Asks(searches'[i].key, searches'[i].pv)
    <3>3. DOMAIN searches' = DOMAIN searches
      BY <2>3
    <3>4. \A i \in DOMAIN searches : i # j => searches'[i] = searches[i]
      BY <2>3
    <3>5. searches'[j] = r
      BY <2>3
    <3> QED BY <2>3, <3>3, <3>4, <3>5 DEF Truthful
  <2>4. CASE RepeatSearch(s)
    <3> DEFINE j == byKey[searchKey(Current(s).from, Current(s).id)]
    <3>1. j \in DOMAIN searches
      BY <1>0, <2>4, KnownRecord DEF RepeatSearch, Known
    <3> DEFINE r == [searches[j] EXCEPT !.count = @ + 1]
    <3>2. searches' = [searches EXCEPT ![j] = r]
      BY <2>4 DEF RepeatSearch
    <3>3. r.key = searches[j].key /\ r.pv = searches[j].pv
      BY <1>0, <3>1 DEF TypeOK, SearchRecord
    <3> HIDE DEF j, r
    <3> QED BY <2>3, <3>1, <3>2, <3>3
  <2>5. CASE Known(key) /\ (Response(s) \/ NotFound(s))
    <3> DEFINE j == byKey[key]
    <3>1. j \in DOMAIN searches
      BY <1>0, <2>5, KnownRecord DEF Known
    <3> DEFINE r == [searches[j] EXCEPT !.responses = @ \cup {Ref(s)}]
               q == [searches[j] EXCEPT !.notFound = @ \cup {Ref(s)}]
    <3>2. searches' = [searches EXCEPT ![j] = r] \/ searches' = [searches EXCEPT ![j] = q]
      BY <2>5 DEF Response, NotFound
    <3>3. /\ r.key = searches[j].key /\ r.pv = searches[j].pv
          /\ q.key = searches[j].key /\ q.pv = searches[j].pv
      BY <1>0, <3>1 DEF TypeOK, SearchRecord
    <3> HIDE DEF j, r, q
    <3> QED BY <2>3, <3>1, <3>2, <3>3
  <2>6. CASE ~Known(key) /\ (Response(s) \/ NotFound(s))
    BY <2>2, <2>6 DEF Response, NotFound
  <2> QED BY <2>1, <2>2, <2>4, <2>5, <2>6 DEF Apply, Beacon, Other
<1>5. ClaimsTrue'
  <2>1. CASE servers' = servers
    BY <2>1 DEF Truthful, ClaimsTrue
  <2>2. ASSUME NEW r, servers' = Updated(v, r),
               v \in Servers => r.pvs \subseteq caServer(v, s).pvs \cup Serves[v]
        PROVE  ClaimsTrue'
    <3>1. v \in Servers => caServer(v, s).pvs \subseteq Serves[v]
      BY DEF Truthful, ClaimsTrue, caServer
    <3>2. \A w \in DOMAIN servers' : IF w = v THEN servers'[w] = r
                                    ELSE w \in DOMAIN servers /\ servers'[w] = servers[w]
      BY <2>2 DEF Updated
    <3> QED BY <2>2, <3>1, <3>2 DEF Truthful, ClaimsTrue
  <2>3. caServer(v, s) \in ServerRecord
    BY <1>0, CaServerType
  <2>4. CASE NotFound(s)
    BY <2>2, <2>4 DEF NotFound
  <2>5. CASE Beacon(s)
    <3>1. [caServer(v, s) EXCEPT !.beacons = @ + 1].pvs = caServer(v, s).pvs
      BY <2>3 DEF ServerRecord
    <3> QED BY <2>2, <2>5, <3>1 DEF Beacon
  <2>6. CASE Response(s) /\ ~Known(key)
    <3>1. [caServer(v, s) EXCEPT !.answers = @ + 1].pvs = caServer(v, s).pvs
      BY <2>3 DEF ServerRecord
    <3> QED BY <2>2, <2>6, <3>1 DEF Response
  <2>7. CASE Response(s) /\ Known(key)
    <3> DEFINE j == byKey[key]
               r == [caServer(v, s) EXCEPT !.answers = @ + 1, !.pvs = @ \cup {searches[j].pv}]
    <3>1. servers' = Updated(v, r)
      BY <2>7 DEF Response
    <3>2. r.pvs = caServer(v, s).pvs \cup {searches[j].pv}
      BY <2>3 DEF ServerRecord
    <3>3. j \in DOMAIN searches /\ searches[j].key = key
      <4>1. PICK i \in DOMAIN order : searches[order[i]].key = key
        BY <1>0, <2>7 DEF Listing, TableAgrees, Known
      <4>2. byKey[key] = order[i]
        BY <1>0, <4>1 DEF Listing, TableAgrees
      <4>3. j \in DOMAIN searches
        BY <1>0, <2>7, KnownRecord DEF Known
      <4> QED BY <4>1, <4>2, <4>3
    <3>4. Asks(key, searches[j].pv)
      BY <3>3 DEF Truthful
    <3>5. PICK pv \in Serves[v] : Asks(key, pv)
      BY <1>3, <2>7 DEF Honest, Response, Arrives
    <3>6. searches[j].pv = pv
      BY <3>4, <3>5 DEF Asks, UniqueIds
    <3> HIDE DEF r, j
    <3> QED BY <2>2, <3>1, <3>2, <3>5, <3>6
  <2>8. CASE RepeatSearch(s) \/ FirstSearch(s) \/ Other(s)
    BY <2>1, <2>8 DEF RepeatSearch, FirstSearch, Other
  <2> QED BY <2>4, <2>5, <2>6, <2>7, <2>8 DEF Apply
<1>6. \A t \in Sources : \A p \in DOMAIN seen'[t] : Honest(seen'[t][p])
  BY <1>2 DEF Truthful
<1> QED BY <1>4, <1>5, <1>6 DEF Truthful

\* When no two programs of a host use the same search id, a name is never
\* attributed to a server that does not host it.
THEOREM ClaimsAreTrue == ASSUME UniqueIds PROVE Spec => []ClaimsTrue
<1>1. Init => Truthful
  BY DEF Init, D!Init, Truthful, ClaimsTrue
<1>2. IInv /\ Truthful /\ [Next]_vars => Truthful'
  <2> SUFFICES ASSUME IInv, Truthful, [Next]_vars PROVE Truthful'
    OBVIOUS
  <2>1. CASE UNCHANGED vars
    BY <2>1 DEF Truthful, ClaimsTrue, vars, table
  <2>2. CASE \E s \in Sources : Apply(s)
    BY <2>2, UniqueIds, ApplyTruthful
  <2> QED BY <2>1, <2>2, NetworkTruthful DEF Next, IInv
<1>3. Truthful => ClaimsTrue
  BY DEF Truthful
<1> QED BY <1>1, <1>2, <1>3, InitListed, ListedInductive, PTL DEF Spec

-----------------------------------------------------------------------------
(* What the rules say wrongly has a reason.                                *)

\* What happened to the stream of each source.
LEMMA StreamsGrow ==
  ASSUME TypeOK, NEW s \in Sources, NEW kind, Arrives(s, kind)
  PROVE  /\ \A t \in Sources : \A p \in DOMAIN got[t] : p \in DOMAIN got'[t] /\ got'[t][p] = got[t][p]
         /\ \A t \in Sources : \A p \in DOMAIN got'[t] :
              \/ p \in DOMAIN got[t] /\ got'[t][p] = got[t][p]
              \/ t = s /\ p = Len(got[s]) + 1 /\ got'[t][p] = Current(s)
         /\ Len(got[s]) + 1 \in DOMAIN got'[s] /\ got'[s][Len(got[s]) + 1] = Current(s)
<1>1. ASSUME NEW t \in Sources, t # s  PROVE got'[t] = got[t]  BY <1>1, Delivered
<1>2. /\ \A p \in DOMAIN got[s] : p \in DOMAIN got'[s] /\ got'[s][p] = got[s][p]
      /\ \A p \in DOMAIN got'[s] :
           \/ p \in DOMAIN got[s] /\ got'[s][p] = got[s][p]
           \/ p = Len(got[s]) + 1 /\ got'[s][p] = Current(s)
  <2>1. got[s] \in Seq(Frame) /\ got'[s] \in Seq(Frame)  BY ArrivedFrame DEF TypeOK
  <2> QED  BY <2>1, Delivered
<1>3. Len(got[s]) + 1 \in DOMAIN got'[s]
  <2>1. Len(got[s]) \in Nat /\ got'[s] \in Seq(Frame)  BY ArrivedFrame DEF TypeOK
  <2> QED  BY <2>1, Delivered
<1> QED  BY <1>1, <1>2, <1>3, Delivered

\* Record q is record r after the current frame of source s: a response to it
\* may have been added.
Answered(s, q, r) ==
  /\ q.key = r.key /\ q.pv = r.pv /\ q.source = r.source
  /\ \A a \in q.responses :
       \/ a \in r.responses
       \/ a = Ref(s) /\ Current(s).kind = "response" /\ searchKey(Current(s).to, Current(s).id) = r.key

LEMMA RecordsGrow ==
  ASSUME IInv, NEW s \in Sources, Apply(s)
  PROVE  /\ \A n \in DOMAIN searches : n \in DOMAIN searches' /\ Answered(s, searches'[n], searches[n])
         /\ \A n \in DOMAIN searches' :
              n \in DOMAIN searches \/ (Current(s).kind = "search" /\ searches'[n] = Entry(s))
<1> DEFINE Goal == /\ \A n \in DOMAIN searches : n \in DOMAIN searches' /\ Answered(s, searches'[n], searches[n])
                   /\ \A n \in DOMAIN searches' :
                        n \in DOMAIN searches \/ (Current(s).kind = "search" /\ searches'[n] = Entry(s))
<1>0. TypeOK /\ Listing /\ searches \in Seq(SearchRecord)  BY DEF IInv, TypeOK
<1>1. CASE searches' = searches  BY <1>1 DEF Answered
<1>2. ASSUME NEW j \in DOMAIN searches, NEW r, searches' = [searches EXCEPT ![j] = r],
             Answered(s, r, searches[j])
      PROVE  Goal
  <2>1. DOMAIN searches' = DOMAIN searches /\ searches'[j] = r
        /\ \A n \in DOMAIN searches : n # j => searches'[n] = searches[n]
    BY <1>2
  <2>2. \A n \in DOMAIN searches : Answered(s, searches[n], searches[n])  BY DEF Answered
  <2> QED  BY <1>2, <2>1, <2>2
<1>3. CASE FirstSearch(s)
  <2>1. searches' = Append(searches, Entry(s)) /\ Current(s).kind = "search"
    BY <1>3 DEF FirstSearch, Arrives
  <2>2. \A n \in DOMAIN searches : n \in DOMAIN searches' /\ searches'[n] = searches[n]
    BY <1>0, <2>1
  <2>3. \A n \in DOMAIN searches' : n \in DOMAIN searches \/ searches'[n] = Entry(s)
    BY <1>0, <2>1
  <2> QED  BY <2>1, <2>2, <2>3 DEF Answered
<1>4. CASE RepeatSearch(s)
  <2> DEFINE j == byKey[searchKey(Current(s).from, Current(s).id)]
             r == [searches[j] EXCEPT !.count = @ + 1]
  <2>1. j \in DOMAIN searches  BY <1>0, <1>4, KnownRecord DEF RepeatSearch, Known
  <2>2. searches' = [searches EXCEPT ![j] = r]  BY <1>4 DEF RepeatSearch
  <2>3. searches[j] \in SearchRecord  BY <1>0, <2>1
  <2>4. Answered(s, r, searches[j])  BY <2>3 DEF Answered, SearchRecord
  <2> HIDE DEF j, r
  <2> QED  BY <1>2, <2>1, <2>2, <2>4
<1>5. CASE Response(s) \/ NotFound(s)
  <2> DEFINE key == searchKey(Current(s).to, Current(s).id)
             j == byKey[key]
             r == [searches[j] EXCEPT !.responses = @ \cup {Ref(s)}]
             q == [searches[j] EXCEPT !.notFound = @ \cup {Ref(s)}]
  <2>1. CASE ~Known(key)  BY <1>1, <1>5, <2>1 DEF Response, NotFound
  <2>2. CASE Known(key)
    <3>1. j \in DOMAIN searches  BY <1>0, <2>2, KnownRecord DEF Known
    <3>2. searches[j].key = key
      <4>1. PICK i \in DOMAIN order : searches[order[i]].key = key
        BY <1>0, <2>2 DEF Listing, TableAgrees, Known
      <4> QED  BY <1>0, <4>1 DEF Listing, TableAgrees
    <3>3. \/ searches' = [searches EXCEPT ![j] = r] /\ Current(s).kind = "response"
          \/ searches' = [searches EXCEPT ![j] = q]
      BY <1>5, <2>2 DEF Response, NotFound, Arrives
    <3>4. searches[j] \in SearchRecord  BY <1>0, <3>1
    <3>5. Current(s).kind = "response" => Answered(s, r, searches[j])
      <4>1. /\ r.key = searches[j].key /\ r.pv = searches[j].pv /\ r.source = searches[j].source
            /\ r.responses = searches[j].responses \cup {Ref(s)}
        BY <3>4 DEF SearchRecord
      <4> HIDE DEF r, j
      <4> QED  BY <3>2, <4>1 DEF Answered
    <3>6. Answered(s, q, searches[j])
      <4>1. /\ q.key = searches[j].key /\ q.pv = searches[j].pv /\ q.source = searches[j].source
            /\ q.responses = searches[j].responses
        BY <3>4 DEF SearchRecord
      <4> HIDE DEF q, j
      <4> QED  BY <4>1 DEF Answered
    <3> HIDE DEF j, r, q
    <3> QED  BY <1>2, <3>1, <3>3, <3>5, <3>6
  <2> QED  BY <2>1, <2>2
<1> QED  BY <1>1, <1>3, <1>4, <1>5 DEF Apply, Beacon, Other

\* What a query is known by; and that two copies of such searches were sent.
AskedKey(i) == searchKey(asked[i].client, asked[i].id)
Twice(key) == \E i, j \in DOMAIN asked : i # j /\ AskedKey(i) = key /\ AskedKey(j) = key

\* A search was asked; a response is the one reply of a server to one copy of
\* a search, whose name it hosts.
SentBy(f) ==
  /\ f.kind = "search" =>
       \E i \in DOMAIN asked : AskedKey(i) = searchKey(f.from, f.id) /\ asked[i].pv = f.pv
  /\ f.kind = "response" =>
       \E i \in DOMAIN asked :
         /\ <<f.server, i>> \in replied /\ f.server \in Servers
         /\ AskedKey(i) = searchKey(f.to, f.id) /\ asked[i].pv \in Serves[f.server]

SameAnswer(f, g) ==
  /\ f.kind = "response" /\ g.kind = "response" /\ f.server = g.server
  /\ searchKey(f.to, f.id) = searchKey(g.to, g.id)

\* A source captures one answer again only if it answers another copy.
WireInv ==
  /\ \A s \in Sources : \A p \in DOMAIN got[s] : p \in DOMAIN seen[s] /\ got[s][p] = seen[s][p]
  /\ \A s \in Sources : \A p \in DOMAIN seen[s] : SentBy(seen[s][p])
  /\ \A s \in Sources : \A p, q \in DOMAIN seen[s] :
       p # q /\ SameAnswer(seen[s][p], seen[s][q]) => Twice(searchKey(seen[s][p].to, seen[s][p].id))

\* A record is of a search that was asked, its responses are frames applied.
RecordInv ==
  \A n \in DOMAIN searches :
    /\ \E i \in DOMAIN asked : AskedKey(i) = searches[n].key /\ asked[i].pv = searches[n].pv
    /\ \A a \in searches[n].responses :
         /\ a.source \in Sources /\ a.packet \in DOMAIN got[a.source]
         /\ LET f == got[a.source][a.packet] IN
              f.kind = "response" /\ f.server = a.server /\ searchKey(f.to, f.id) = searches[n].key

\* The copies of searches and the replies only become more.
LEMMA AskedGrows ==
  ASSUME \A i \in DOMAIN asked : i \in DOMAIN asked' /\ asked'[i] = asked[i], replied \subseteq replied'
  PROVE  /\ \A i \in DOMAIN asked : AskedKey(i)' = AskedKey(i)
         /\ \A key : Twice(key) => Twice(key)'
         /\ \A f : SentBy(f) => SentBy(f)'
<1>1. \A i \in DOMAIN asked : AskedKey(i)' = AskedKey(i)  BY DEF AskedKey
<1>2. \A key : Twice(key) => Twice(key)'  BY <1>1 DEF Twice
<1>3. ASSUME NEW f, SentBy(f)  PROVE SentBy(f)'  BY <1>1, <1>3 DEF SentBy
<1> QED  BY <1>1, <1>2, <1>3

\* A frame that is sent, with what WireInv needs of it.
LEMMA CaptureTraced ==
  ASSUME IInv, WireInv, RecordInv, NEW f \in Frame, Capture(f), SentBy(f)',
         \A i \in DOMAIN asked : i \in DOMAIN asked' /\ asked'[i] = asked[i], replied \subseteq replied',
         \A g : SentBy(g) /\ SameAnswer(g, f) => Twice(searchKey(f.to, f.id))'
  PROVE  WireInv' /\ RecordInv'
<1>1. /\ \A i \in DOMAIN asked : AskedKey(i)' = AskedKey(i)
      /\ \A key : Twice(key) => Twice(key)' /\ \A g : SentBy(g) => SentBy(g)'
  BY AskedGrows
<1>2. got' = got /\ searches' = searches  BY DEF Capture, table
<1>3. \A s \in Sources : seen[s] \in Seq(Frame) /\ (seen'[s] = seen[s] \/ seen'[s] = Append(seen[s], f))
  <2>1. PICK S \in SUBSET Sources :
          seen' = [s \in Sources |-> IF s \in S THEN Append(seen[s], f) ELSE seen[s]]
    BY DEF Capture
  <2> QED  BY <2>1 DEF IInv, TypeOK
<1>4. ASSUME NEW s \in Sources
      PROVE  /\ \A p \in DOMAIN seen[s] : p \in DOMAIN seen'[s] /\ seen'[s][p] = seen[s][p]
             /\ \A p \in DOMAIN seen'[s] :
                  \/ p \in DOMAIN seen[s] /\ seen'[s][p] = seen[s][p]
                  \/ p = Len(seen[s]) + 1 /\ seen'[s][p] = f
  <2>1. seen[s] \in Seq(Frame) /\ (seen'[s] = seen[s] \/ seen'[s] = Append(seen[s], f))  BY <1>3
  <2> QED  BY <2>1
<1>5. \A s \in Sources : \A p \in DOMAIN got'[s] : p \in DOMAIN seen'[s] /\ got'[s][p] = seen'[s][p]
  BY <1>2, <1>4 DEF WireInv
<1>6. ASSUME NEW s \in Sources, NEW p \in DOMAIN seen'[s]  PROVE SentBy(seen[s][p])'
  <2>1. \A g : SentBy(g) => SentBy(g)'  BY AskedGrows
  <2>2. CASE p \in DOMAIN seen[s] /\ seen'[s][p] = seen[s][p]
    <3>1. SentBy(seen[s][p])  BY <2>2 DEF WireInv
    <3>2. \A g : g = seen[s][p] => SentBy(g)'  BY <2>1, <3>1
    <3> QED  BY <2>2, <3>2 DEF SentBy, AskedKey
  <2>3. CASE seen'[s][p] = f
    <3>1. \A g : g = f => SentBy(g)'  OBVIOUS
    <3> QED  BY <2>3, <3>1 DEF SentBy, AskedKey
  <2> QED  BY <1>4, <2>2, <2>3
<1>7. ASSUME NEW s \in Sources, NEW p \in DOMAIN seen'[s], NEW q \in DOMAIN seen'[s], p # q,
             SameAnswer(seen'[s][p], seen'[s][q]), NEW key, key = searchKey(seen'[s][p].to, seen'[s][p].id)
      PROVE  Twice(key)'
  <2>1. \A k : Twice(k) => Twice(k)'  BY <1>1
  <2>2. key = searchKey(seen'[s][q].to, seen'[s][q].id) /\ SameAnswer(seen'[s][q], seen'[s][p])
    BY <1>7 DEF SameAnswer
  <2>3. CASE p \in DOMAIN seen[s] /\ q \in DOMAIN seen[s]
    <3>1. seen'[s][p] = seen[s][p] /\ seen'[s][q] = seen[s][q]  BY <1>4, <2>3
    <3>2. Twice(key)  BY <1>7, <2>3, <3>1 DEF WireInv
    <3> QED  BY <2>1, <3>2
  <2>4. ASSUME NEW g, SentBy(g), SameAnswer(g, f), key = searchKey(f.to, f.id)  PROVE Twice(key)'
    <3>1. \A k : k = searchKey(f.to, f.id) => Twice(k)'  BY <2>4
    <3> QED  BY <2>4, <3>1
  <2>5. CASE p \in DOMAIN seen[s] /\ seen'[s][q] = f
    <3>1. seen'[s][p] = seen[s][p] /\ SentBy(seen[s][p])  BY <1>4, <2>5 DEF WireInv
    <3> QED  BY <1>7, <2>2, <2>4, <2>5, <3>1
  <2>6. CASE q \in DOMAIN seen[s] /\ seen'[s][p] = f
    <3>1. seen'[s][q] = seen[s][q] /\ SentBy(seen[s][q])  BY <1>4, <2>6 DEF WireInv
    <3> QED  BY <1>7, <2>2, <2>4, <2>6, <3>1
  <2> QED  BY <1>4, <1>7, <2>3, <2>5, <2>6
<1>8. WireInv'
  <2>1. \A s \in Sources : \A p, q \in DOMAIN seen'[s] :
          p # q /\ SameAnswer(seen'[s][p], seen'[s][q])
            => \A key : key = searchKey(seen'[s][p].to, seen'[s][p].id) => Twice(key)'
    BY <1>7
  <2> QED  BY <1>5, <1>6, <2>1 DEF WireInv, Twice, AskedKey
<1>9. RecordInv'
  <2> SUFFICES ASSUME NEW n \in DOMAIN searches
               PROVE  \E i \in DOMAIN asked' : AskedKey(i)' = searches[n].key /\ asked'[i].pv = searches[n].pv
    BY <1>2 DEF RecordInv
  <2>1. PICK i \in DOMAIN asked : AskedKey(i) = searches[n].key /\ asked[i].pv = searches[n].pv
    BY DEF RecordInv
  <2> QED  BY <1>1, <2>1
<1> QED  BY <1>8, <1>9

LEMMA NetworkTraced ==
  ASSUME IInv, WireInv, RecordInv,
         \/ \E q \in Queries : Ask(q)
         \/ \E v \in Servers, i \in DOMAIN asked : Reply(v, i)
         \/ \E v \in Servers : SendOther(BeaconFrame(v))
         \/ \E h \in Bystanders : SendOther(OtherFrame(h))
  PROVE  WireInv' /\ RecordInv'
<1>0. asked \in Seq(Queries) /\ replied \subseteq Servers \X Nat  BY DEF IInv, TypeOK
<1>1. ASSUME NEW q \in Queries, Ask(q)  PROVE WireInv' /\ RecordInv'
  <2>1. asked' = Append(asked, q) /\ replied' = replied /\ Capture(SearchFrame(q))  BY <1>1 DEF Ask
  <2>2. /\ \A i \in DOMAIN asked : i \in DOMAIN asked' /\ asked'[i] = asked[i]
        /\ Len(asked) + 1 \in DOMAIN asked' /\ asked'[Len(asked) + 1] = q
    BY <1>0, <2>1
  <2>3. SentBy(SearchFrame(q))'  BY <2>2 DEF SentBy, SearchFrame, AskedKey
  <2>4. \A g : ~SameAnswer(g, SearchFrame(q))  BY DEF SameAnswer, SearchFrame
  <2> QED  BY <2>1, <2>2, <2>3, <2>4, SentFrames, CaptureTraced
<1>2. ASSUME NEW v \in Servers, NEW i \in DOMAIN asked, Reply(v, i)  PROVE WireInv' /\ RecordInv'
  <2>0. PICK q \in Queries : q = asked[i]  BY <1>0
  <2>1. q \in Queries /\ <<v, i>> \notin replied /\ asked' = asked /\ replied' = replied \cup {<<v, i>>}
    BY <1>0, <1>2 DEF Reply
  <2>2. /\ \A k \in DOMAIN asked : k \in DOMAIN asked' /\ asked'[k] = asked[k]
        /\ replied \subseteq replied'
    BY <2>1
  <2>3. CASE q.pv \in Serves[v]
    <3> DEFINE f == Answer("response", q, v)
    <3>1. f \in Frame /\ Capture(f)  BY <1>2, <2>0, <2>3, SentFrames DEF Reply
    <3>2. f.kind = "response" /\ f.server = v /\ searchKey(f.to, f.id) = AskedKey(i)
      BY <2>0 DEF Answer, AskedKey
    <3> HIDE DEF f
    <3>3. SentBy(f)'
      <4>1. <<v, i>> \in replied' /\ i \in DOMAIN asked' /\ AskedKey(i)' = AskedKey(i) /\ asked'[i].pv \in Serves[v]
        BY <2>0, <2>1, <2>3 DEF AskedKey
      <4> QED  BY <3>2, <4>1 DEF SentBy, AskedKey
    <3>4. ASSUME NEW g, SentBy(g), SameAnswer(g, f)  PROVE Twice(searchKey(f.to, f.id))'
      <4>1. PICK j \in DOMAIN asked :
              <<g.server, j>> \in replied /\ AskedKey(j) = searchKey(g.to, g.id)
        BY <3>4 DEF SentBy, SameAnswer
      <4>2. g.server = v /\ AskedKey(j) = AskedKey(i)  BY <3>2, <3>4, <4>1 DEF SameAnswer
      <4>3. i # j  BY <2>1, <4>1, <4>2
      <4>4. Twice(AskedKey(i))  BY <4>2, <4>3 DEF Twice
      <4> QED  BY <2>1, <3>2, <4>4 DEF Twice, AskedKey
    <3> QED  BY <2>2, <3>1, <3>3, <3>4, CaptureTraced
  <2>4. CASE q.pv \notin Serves[v]
    <3> DEFINE f == Answer("notfound", q, NoPort(v))
    <3>1. f \in Frame /\ Capture(f)  BY <1>2, <2>0, <2>4, SentFrames DEF Reply
    <3>2. f.kind = "notfound"  BY DEF Answer
    <3> HIDE DEF f
    <3>3. SentBy(f)' /\ \A g : ~SameAnswer(g, f)  BY <3>2 DEF SentBy, SameAnswer
    <3> QED  BY <2>2, <3>1, <3>3, CaptureTraced
  <2> QED  BY <2>3, <2>4
<1>3. ASSUME NEW f \in Frame, SendOther(f), f.kind \notin {"search", "response"}
      PROVE  WireInv' /\ RecordInv'
  <2>1. asked' = asked /\ replied' = replied /\ Capture(f)  BY <1>3 DEF SendOther
  <2>2. SentBy(f)' /\ \A g : ~SameAnswer(g, f)  BY <1>3 DEF SentBy, SameAnswer
  <2> QED  BY <2>1, <2>2, CaptureTraced
<1>4. \A v \in Servers : BeaconFrame(v).kind = "beacon"  BY DEF BeaconFrame
<1>5. \A h \in Bystanders : OtherFrame(h).kind = "other"  BY DEF OtherFrame
<1> QED  BY <1>1, <1>2, <1>3, <1>4, <1>5, SentFrames

LEMMA ApplyTraced ==
  ASSUME IInv, WireInv, RecordInv, NEW s \in Sources, Apply(s)
  PROVE  WireInv' /\ RecordInv'
<1>0. TypeOK  BY DEF IInv
<1>1. PICK kind : Arrives(s, kind)
  BY DEF Apply, RepeatSearch, FirstSearch, Response, NotFound, Beacon, Other
<1>2. seen' = seen /\ asked' = asked /\ replied' = replied
  BY <1>0, <1>1, ArrivedFrame DEF wireVars
<1>3. Current(s) = seen[s][Len(got[s]) + 1] /\ Len(got[s]) + 1 \in DOMAIN seen[s]
  <2>1. got[s] \in Seq(Frame) /\ seen[s] \in Seq(Frame) /\ Len(got[s]) < Len(seen[s])
    BY <1>0, <1>1 DEF TypeOK, Arrives, D!Deliver
  <2> QED  BY <2>1 DEF Current
<1>4. WireInv'
  <2>1. ASSUME NEW t \in Sources, NEW p \in DOMAIN got'[t]
        PROVE  p \in DOMAIN seen[t] /\ got'[t][p] = seen[t][p]
    <3>1. CASE p \in DOMAIN got[t] /\ got'[t][p] = got[t][p]  BY <3>1 DEF WireInv
    <3>2. CASE t = s /\ p = Len(got[s]) + 1 /\ got'[t][p] = Current(s)  BY <1>3, <3>2
    <3> QED  BY <1>0, <1>1, <3>1, <3>2, StreamsGrow
  <2> QED  BY <1>2, <2>1 DEF WireInv, SentBy, Twice, AskedKey
<1>5. SentBy(Current(s))  BY <1>3 DEF WireInv
<1>6. ASSUME NEW n \in DOMAIN searches'
      PROVE  /\ \E i \in DOMAIN asked : AskedKey(i) = searches'[n].key /\ asked[i].pv = searches'[n].pv
             /\ \A a \in searches'[n].responses :
                  /\ a.source \in Sources /\ a.packet \in DOMAIN got'[a.source]
                  /\ LET f == got'[a.source][a.packet] IN
                       f.kind = "response" /\ f.server = a.server /\ searchKey(f.to, f.id) = searches'[n].key
  <2>1. CASE n \in DOMAIN searches
    <3>1. Answered(s, searches'[n], searches[n])  BY <2>1, RecordsGrow
    <3>2. \E i \in DOMAIN asked : AskedKey(i) = searches'[n].key /\ asked[i].pv = searches'[n].pv
      BY <2>1, <3>1 DEF RecordInv, Answered
    <3>3. ASSUME NEW a \in searches'[n].responses
          PROVE  /\ a.source \in Sources /\ a.packet \in DOMAIN got'[a.source]
                 /\ LET f == got'[a.source][a.packet] IN
                      f.kind = "response" /\ f.server = a.server /\ searchKey(f.to, f.id) = searches'[n].key
      <4>1. searches'[n].key = searches[n].key  BY <3>1 DEF Answered
      <4>2. CASE a \in searches[n].responses
        <5>1. /\ a.source \in Sources /\ a.packet \in DOMAIN got[a.source]
              /\ LET f == got[a.source][a.packet] IN
                   f.kind = "response" /\ f.server = a.server /\ searchKey(f.to, f.id) = searches[n].key
          BY <2>1, <4>2 DEF RecordInv
        <5>2. a.packet \in DOMAIN got'[a.source] /\ got'[a.source][a.packet] = got[a.source][a.packet]
          BY <1>0, <1>1, <5>1, StreamsGrow
        <5> QED  BY <4>1, <5>1, <5>2
      <4>3. CASE /\ a = Ref(s) /\ Current(s).kind = "response"
                 /\ searchKey(Current(s).to, Current(s).id) = searches[n].key
        <5>1. a.source = s /\ a.packet = Len(got[s]) + 1 /\ a.server = Current(s).server
          BY <4>3 DEF Ref
        <5>2. a.packet \in DOMAIN got'[s] /\ got'[s][a.packet] = Current(s)
          BY <1>0, <1>1, <5>1, StreamsGrow
        <5> QED  BY <4>1, <4>3, <5>1, <5>2
      <4> QED  BY <3>1, <4>2, <4>3 DEF Answered
    <3> QED  BY <3>2, <3>3
  <2>2. CASE Current(s).kind = "search" /\ searches'[n] = Entry(s)
    <3>1. /\ searches'[n].key = searchKey(Current(s).from, Current(s).id)
          /\ searches'[n].pv = Current(s).pv /\ searches'[n].responses = {}
      BY <2>2 DEF Entry
    <3>2. \E i \in DOMAIN asked :
            AskedKey(i) = searchKey(Current(s).from, Current(s).id) /\ asked[i].pv = Current(s).pv
      BY <1>5, <2>2 DEF SentBy
    <3> QED  BY <3>1, <3>2
  <2> QED  BY <2>1, <2>2, RecordsGrow
<1>7. RecordInv'  BY <1>2, <1>6 DEF RecordInv, AskedKey
<1> QED  BY <1>4, <1>7

LEMMA TracedInductive == IInv /\ WireInv /\ RecordInv /\ [Next]_vars => WireInv' /\ RecordInv'
<1> SUFFICES ASSUME IInv, WireInv, RecordInv, [Next]_vars  PROVE WireInv' /\ RecordInv'
  OBVIOUS
<1>1. CASE UNCHANGED vars
  BY <1>1 DEF WireInv, RecordInv, SentBy, Twice, AskedKey, vars, wireVars, table
<1>2. CASE \E s \in Sources : Apply(s)  BY <1>2, ApplyTraced
<1> QED  BY <1>1, <1>2, NetworkTraced DEF Next

LEMMA InitTraced == Init => WireInv /\ RecordInv
BY DEF Init, D!Init, WireInv, RecordInv

\* More than one.
LEMMA TwoElements ==
  /\ \A S : Cardinality(S) > 1 => \E a, b \in S : a # b
  /\ \A S : IsFiniteSet(S) => \A a, b \in S : a # b => Cardinality(S) > 1
<1>1. ASSUME NEW S, Cardinality(S) > 1  PROVE \E a, b \in S : a # b
  <2> SUFFICES ASSUME ~ \E a, b \in S : a # b  PROVE FALSE  OBVIOUS
  <2>1. CASE S = {}
    <3>1. Cardinality(S) = 0  BY <2>1, FS_EmptySet
    <3> QED  BY <1>1, <3>1
  <2>2. CASE \E a : S = {a}
    <3>1. Cardinality(S) = 1  BY <2>2, FS_Singleton
    <3> QED  BY <1>1, <3>1
  <2>3. ASSUME S # {}  PROVE \E a : S = {a}
    <3>1. PICK a \in S : TRUE  BY <2>3
    <3>2. S = {a}  BY <3>1
    <3> QED  BY <3>2
  <2> QED  BY <2>1, <2>2, <2>3
<1>2. ASSUME NEW S, IsFiniteSet(S), NEW a \in S, NEW b \in S, a # b  PROVE Cardinality(S) > 1
  <2>1. IsFiniteSet({a, b}) /\ Cardinality({a, b}) = 2
    <3>1. IsFiniteSet({a}) /\ Cardinality({a}) = 1  BY FS_Singleton
    <3>2. IsFiniteSet({a} \cup {b}) /\ Cardinality({a} \cup {b}) = Cardinality({a}) + 1
      BY <1>2, <3>1, FS_AddElement
    <3>3. {a} \cup {b} = {a, b}  OBVIOUS
    <3> QED  BY <3>1, <3>2, <3>3
  <2>2. {a, b} \subseteq S  BY <1>2
  <2>3. Cardinality({a, b}) <= Cardinality(S) /\ Cardinality(S) \in Nat
    BY <1>2, <2>2, FS_Subset, FS_CardinalityType
  <2> QED  BY <2>1, <2>3
<1> QED  BY <1>1, <1>2

LEMMA ConflictReason ==
  ASSUME IInv, WireInv, RecordInv
  PROVE  ConflictsExplained
<1> SUFFICES ASSUME NEW n \in DOMAIN searches, MultipleServers(searches[n])
             PROVE  \/ \E v, w \in Servers : v # w /\ searches[n].pv \in Serves[v] \cap Serves[w]
                    \/ Cardinality({i \in DOMAIN asked : AskedKey(i) = searches[n].key}) > 1
                    \/ \E a, b \in searches[n].responses : a.source # b.source
  BY ListedRecords DEF ConflictsExplained, Listed, AskedKey
<1> DEFINE r == searches[n]
<1>1. CASE Twice(r.key)
  <2>1. asked \in Seq(Queries)  BY DEF IInv, TypeOK
  <2>2. IsFiniteSet({i \in DOMAIN asked : AskedKey(i) = r.key})
    <3>1. IsFiniteSet(1..Len(asked)) /\ DOMAIN asked = 1..Len(asked)
      <4>1. Len(asked) \in Int /\ 1 \in Int /\ DOMAIN asked = 1..Len(asked)  BY <2>1
      <4> QED  BY <4>1, FS_Interval
    <3>2. {i \in DOMAIN asked : AskedKey(i) = r.key} \subseteq DOMAIN asked  OBVIOUS
    <3> QED  BY <3>1, <3>2, FS_Subset
  <2>3. PICK i, j \in DOMAIN asked : i # j /\ AskedKey(i) = r.key /\ AskedKey(j) = r.key
    BY <1>1 DEF Twice
  <2> QED  BY <2>2, <2>3, TwoElements
<1>2. CASE ~Twice(r.key) /\ \A a, b \in r.responses : a.source = b.source
  <2>1. PICK a, b \in r.responses : a # b  BY TwoElements DEF MultipleServers
  <2>2. r.responses \subseteq Refs
    <3>1. r \in SearchRecord  BY DEF IInv, TypeOK
    <3> QED  BY <3>1 DEF SearchRecord
  <2>3. PICK s \in Sources : a.source = s /\ b.source = s  BY <1>2, <2>1 DEF RecordInv
  <2>4. /\ a.packet \in DOMAIN got[s] /\ b.packet \in DOMAIN got[s]
        /\ got[s][a.packet].kind = "response" /\ got[s][a.packet].server = a.server
        /\ got[s][b.packet].kind = "response" /\ got[s][b.packet].server = b.server
        /\ searchKey(got[s][a.packet].to, got[s][a.packet].id) = r.key
        /\ searchKey(got[s][b.packet].to, got[s][b.packet].id) = r.key
    BY <2>1, <2>3 DEF RecordInv
  <2>5. a.packet # b.packet
    <3> SUFFICES ASSUME a.packet = b.packet  PROVE FALSE  OBVIOUS
    <3>1. a.server = b.server  BY <2>4
    <3> QED  BY <2>1, <2>2, <2>3, <3>1 DEF Refs
  <2> DEFINE f == got[s][a.packet]
             g == got[s][b.packet]
  <2>6. f = seen[s][a.packet] /\ g = seen[s][b.packet] /\ {a.packet, b.packet} \subseteq DOMAIN seen[s]
    BY <2>4 DEF WireInv
  <2>7. SentBy(f) /\ SentBy(g)  BY <2>6 DEF WireInv
  <2>8. ~SameAnswer(f, g)
    <3> SUFFICES ASSUME SameAnswer(f, g)  PROVE FALSE  OBVIOUS
    <3>1. Twice(searchKey(f.to, f.id))  BY <2>5, <2>6 DEF WireInv
    <3> QED  BY <1>2, <2>4, <3>1
  <2>9. f.server # g.server  BY <2>4, <2>8 DEF SameAnswer
  <2>10. PICK i \in DOMAIN asked :
           f.server \in Servers /\ AskedKey(i) = r.key /\ asked[i].pv \in Serves[f.server]
    BY <2>4, <2>7 DEF SentBy
  <2>11. PICK j \in DOMAIN asked :
           g.server \in Servers /\ AskedKey(j) = r.key /\ asked[j].pv \in Serves[g.server]
    BY <2>4, <2>7 DEF SentBy
  <2>12. PICK k \in DOMAIN asked : AskedKey(k) = r.key /\ asked[k].pv = r.pv  BY DEF RecordInv
  <2>13. i = j /\ i = k  BY <1>2, <2>10, <2>11, <2>12 DEF Twice
  <2> QED  BY <2>9, <2>10, <2>11, <2>12, <2>13
<1> QED  BY <1>1, <1>2

-----------------------------------------------------------------------------
(* Where the records come from.                                            *)

OfServer == {"response", "notfound", "beacon"}

\* A frame applied is kept in a record: a search in one with its key, what a
\* server sent in that server's.
Kept(f) ==
  /\ f.kind \in OfServer \cup {"search", "other"}
  /\ f.kind = "search" => \E n \in DOMAIN searches : searches[n].key = searchKey(f.from, f.id)
  /\ f.kind \in OfServer => f.server \in DOMAIN servers

\* Every frame is kept, and the source a record names applied a frame that is
\* kept in it; while they are few, all the searches are listed.
SourceInv ==
  /\ \A s \in Sources : \A p \in DOMAIN got[s] : Kept(got[s][p])
  /\ \A n \in DOMAIN searches :
       /\ searches[n].source \in Sources
       /\ \E p \in DOMAIN got[searches[n].source] :
            LET f == got[searches[n].source][p] IN
              f.kind = "search" /\ searchKey(f.from, f.id) = searches[n].key
  /\ \A v \in DOMAIN servers :
       /\ servers[v].source \in Sources
       /\ \E p \in DOMAIN got[servers[v].source] :
            LET f == got[servers[v].source][p] IN f.kind \in OfServer /\ f.server = v
  /\ Len(searches) <= MaxSearches => Len(order) = Len(searches)

LEMMA FrameKinds == \A f \in Frame : f.kind \in OfServer \cup {"search", "other"}
BY DEF Frame, SearchFrame, BeaconFrame, Answer, OtherFrame, OfServer

\* One server's record was updated: it keeps the source it was made for.
LEMMA OneServer ==
  ASSUME TypeOK, NEW s \in Sources, NEW v, NEW r, servers' = Updated(v, r),
         r.source = caServer(v, s).source
  PROVE  /\ v \in DOMAIN servers'
         /\ \A w \in DOMAIN servers : w \in DOMAIN servers' /\ servers'[w].source = servers[w].source
         /\ \A w \in DOMAIN servers' :
              w \in DOMAIN servers \/ (w = v /\ servers'[w].source = s)
<1>1. /\ DOMAIN servers' = DOMAIN servers \cup {v} /\ servers'[v] = r
      /\ \A w \in DOMAIN servers : w # v => servers'[w] = servers[w]
  BY DEF Updated
<1>2. IF v \in DOMAIN servers THEN r.source = servers[v].source ELSE r.source = s
  BY DEF caServer
<1> QED  BY <1>1, <1>2

LEMMA ServersGrow ==
  ASSUME IInv, NEW s \in Sources, Apply(s)
  PROVE  /\ \A w \in DOMAIN servers : w \in DOMAIN servers' /\ servers'[w].source = servers[w].source
         /\ \A w \in DOMAIN servers' :
              \/ w \in DOMAIN servers
              \/ w = Current(s).server /\ Current(s).kind \in OfServer /\ servers'[w].source = s
         /\ Current(s).kind \in OfServer => Current(s).server \in DOMAIN servers'
<1> DEFINE v == Current(s).server
           srv == caServer(v, s)
<1>0. TypeOK /\ srv \in ServerRecord  BY CaServerType DEF IInv
<1>1. CASE servers' = servers /\ \E kind \in {"search", "other"} : Arrives(s, kind)
  <2>1. Current(s).kind \notin OfServer  BY <1>1 DEF Arrives, OfServer
  <2> QED  BY <1>1, <2>1
<1>2. CASE Response(s) \/ NotFound(s) \/ Beacon(s)
  <2>1. Current(s).kind \in OfServer  BY <1>2 DEF Response, NotFound, Beacon, Arrives, OfServer
  <2>2. PICK r : servers' = Updated(v, r) /\ r.source = srv.source
    <3> DEFINE key == searchKey(Current(s).to, Current(s).id)
               counted == [srv EXCEPT !.answers = @ + 1]
               claimed == [srv EXCEPT !.answers = @ + 1,
                                      !.pvs = @ \cup {searches[byKey[key]].pv}]
               heard == [srv EXCEPT !.beacons = @ + 1]
    <3>1. counted.source = srv.source /\ claimed.source = srv.source /\ heard.source = srv.source
      BY <1>0 DEF ServerRecord
    <3>2. CASE Response(s)
      <4>1. servers' = Updated(v, claimed) \/ servers' = Updated(v, counted)
        BY <3>2 DEF Response
      <4> QED  BY <3>1, <4>1
    <3>3. CASE NotFound(s)  BY <3>3 DEF NotFound
    <3>4. CASE Beacon(s)
      <4>1. servers' = Updated(v, heard)  BY <3>4 DEF Beacon
      <4> QED  BY <3>1, <4>1
    <3> QED  BY <1>2, <3>2, <3>3, <3>4
  <2> QED  BY <1>0, <2>1, <2>2, OneServer
<1>3. CASE RepeatSearch(s) \/ FirstSearch(s) \/ Other(s)
  BY <1>1, <1>3 DEF RepeatSearch, FirstSearch, Other
<1> QED  BY <1>2, <1>3 DEF Apply

\* A search is in a record after it was applied, and a record that is new has
\* a place on the list unless one has to leave it.
LEMMA SearchKept ==
  ASSUME IInv, NEW s \in Sources, Apply(s)
  PROVE  /\ Current(s).kind = "search" =>
              \E n \in DOMAIN searches' : searches'[n].key = searchKey(Current(s).from, Current(s).id)
         /\ (Len(searches) <= MaxSearches => Len(order) = Len(searches))
              => (Len(searches') <= MaxSearches => Len(order') = Len(searches'))
<1>0. /\ TypeOK /\ Listing /\ searches \in Seq(SearchRecord) /\ order \in Seq(Nat)
      /\ MaxSearches \in Nat /\ Len(searches) \in Nat /\ Len(order) \in Nat
  BY SearchBound DEF IInv, TypeOK
<1>1. CASE FirstSearch(s)
  <2>1. searches' = Append(searches, Entry(s))  BY <1>1 DEF FirstSearch
  <2>2. Len(searches) + 1 \in DOMAIN searches' /\ searches'[Len(searches) + 1] = Entry(s)
    BY <1>0, <2>1
  <2>3. Entry(s).key = searchKey(Current(s).from, Current(s).id)  BY DEF Entry
  <2>4. ASSUME Len(searches) <= MaxSearches => Len(order) = Len(searches), Len(searches') <= MaxSearches
        PROVE  Len(order') = Len(searches')
    <3>1. Len(searches') = Len(searches) + 1  BY <1>0, <2>1
    <3>2. Len(order) < MaxSearches /\ Len(order) = Len(searches)  BY <1>0, <2>4, <3>1
    <3>3. order' = Append(order, Len(searches) + 1)  BY <1>1, <3>2 DEF FirstSearch
    <3> QED  BY <1>0, <3>1, <3>2, <3>3
  <2> QED  BY <2>2, <2>3, <2>4
<1>2. CASE RepeatSearch(s)
  <2> DEFINE key == searchKey(Current(s).from, Current(s).id)
  <2>1. byKey[key] \in DOMAIN searches /\ searches[byKey[key]].key = key
    <3>1. key \in DOMAIN byKey  BY <1>2 DEF RepeatSearch, Known
    <3>2. PICK i \in DOMAIN order : searches[order[i]].key = key
      BY <1>0, <3>1 DEF Listing, TableAgrees
    <3>3. byKey[key] = order[i]  BY <1>0, <3>2 DEF Listing, TableAgrees
    <3> QED  BY <1>0, <3>1, <3>2, <3>3, KnownRecord
  <2>2. byKey[key] \in DOMAIN searches' /\ searches'[byKey[key]].key = key
    BY <2>1, RecordsGrow DEF Answered
  <2>3. Len(searches') = Len(searches) /\ order' = order
    BY <1>0, <1>2 DEF RepeatSearch
  <2> QED  BY <2>2, <2>3
<1>3. CASE Response(s) \/ NotFound(s) \/ Beacon(s) \/ Other(s)
  <2>1. Current(s).kind # "search"  BY <1>3 DEF Response, NotFound, Beacon, Other, Arrives
  <2>2. Len(searches') = Len(searches) /\ order' = order
    BY <1>0, <1>3 DEF Response, NotFound, Beacon, Other
  <2> QED  BY <2>1, <2>2
<1> QED  BY <1>1, <1>2, <1>3 DEF Apply

LEMMA ApplySourced ==
  ASSUME IInv, SourceInv, NEW s \in Sources, Apply(s)
  PROVE  SourceInv'
<1>0. TypeOK  BY DEF IInv
<1>1. PICK kind : Arrives(s, kind)
  BY DEF Apply, RepeatSearch, FirstSearch, Response, NotFound, Beacon, Other
<1>2. ASSUME NEW f, Kept(f)  PROVE Kept(f)'
  <2>1. f.kind = "search" => \E n \in DOMAIN searches' : searches'[n].key = searchKey(f.from, f.id)
    BY <1>2, RecordsGrow DEF Kept, Answered
  <2>2. f.kind \in OfServer => f.server \in DOMAIN servers'  BY <1>2, ServersGrow DEF Kept
  <2> QED  BY <1>2, <2>1, <2>2 DEF Kept
<1>3. \A f : f = Current(s) => Kept(f)'
  <2>1. Current(s) \in Frame  BY <1>0, <1>1, ArrivedFrame
  <2> QED  BY <2>1, FrameKinds, SearchKept, ServersGrow DEF Kept
<1>4. \A t \in Sources : \A p \in DOMAIN got'[t] : \A f : f = got'[t][p] => Kept(f)'
  <2> SUFFICES ASSUME NEW t \in Sources, NEW p \in DOMAIN got'[t], NEW f, f = got'[t][p]
               PROVE  Kept(f)'
    OBVIOUS
  <2>1. CASE p \in DOMAIN got[t] /\ got'[t][p] = got[t][p]
    <3>1. Kept(f)  BY <2>1 DEF SourceInv
    <3> QED  BY <1>2, <3>1
  <2>2. CASE f = Current(s)  BY <1>3, <2>2
  <2> QED  BY <1>0, <1>1, <2>1, <2>2, StreamsGrow
<1>5. ASSUME NEW n \in DOMAIN searches'
      PROVE  /\ searches'[n].source \in Sources
             /\ \E p \in DOMAIN got'[searches'[n].source] :
                  LET f == got'[searches'[n].source][p] IN
                    f.kind = "search" /\ searchKey(f.from, f.id) = searches'[n].key
  <2>1. CASE n \in DOMAIN searches
    <3>1. searches'[n].key = searches[n].key /\ searches'[n].source = searches[n].source
      BY <2>1, RecordsGrow DEF Answered
    <3>2. PICK p \in DOMAIN got[searches[n].source] :
            LET f == got[searches[n].source][p] IN
              f.kind = "search" /\ searchKey(f.from, f.id) = searches[n].key
      BY <2>1 DEF SourceInv
    <3>3. searches[n].source \in Sources  BY <2>1 DEF SourceInv
    <3>4. /\ p \in DOMAIN got'[searches[n].source]
          /\ got'[searches[n].source][p] = got[searches[n].source][p]
      BY <1>0, <1>1, <3>2, <3>3, StreamsGrow
    <3> QED  BY <3>1, <3>2, <3>3, <3>4
  <2>2. CASE Current(s).kind = "search" /\ searches'[n] = Entry(s)
    <3>1. searches'[n].source = s /\ searches'[n].key = searchKey(Current(s).from, Current(s).id)
      BY <2>2 DEF Entry
    <3>2. Len(got[s]) + 1 \in DOMAIN got'[s] /\ got'[s][Len(got[s]) + 1] = Current(s)
      BY <1>0, <1>1, StreamsGrow
    <3> QED  BY <2>2, <3>1, <3>2
  <2> QED  BY <2>1, <2>2, RecordsGrow
<1>6. ASSUME NEW v \in DOMAIN servers'
      PROVE  /\ servers'[v].source \in Sources
             /\ \E p \in DOMAIN got'[servers'[v].source] :
                  LET f == got'[servers'[v].source][p] IN f.kind \in OfServer /\ f.server = v
  <2>1. CASE v \in DOMAIN servers
    <3>1. servers'[v].source = servers[v].source  BY <2>1, ServersGrow
    <3>2. PICK p \in DOMAIN got[servers[v].source] :
            LET f == got[servers[v].source][p] IN f.kind \in OfServer /\ f.server = v
      BY <2>1 DEF SourceInv
    <3>3. servers[v].source \in Sources  BY <2>1 DEF SourceInv
    <3>4. /\ p \in DOMAIN got'[servers[v].source]
          /\ got'[servers[v].source][p] = got[servers[v].source][p]
      BY <1>0, <1>1, <3>2, <3>3, StreamsGrow
    <3> QED  BY <3>1, <3>2, <3>3, <3>4
  <2>2. CASE v = Current(s).server /\ Current(s).kind \in OfServer /\ servers'[v].source = s
    <3>1. Len(got[s]) + 1 \in DOMAIN got'[s] /\ got'[s][Len(got[s]) + 1] = Current(s)
      BY <1>0, <1>1, StreamsGrow
    <3> QED  BY <2>2, <3>1
  <2> QED  BY <2>1, <2>2, ServersGrow
<1>7. Len(searches') <= MaxSearches => Len(order') = Len(searches')
  BY SearchKept DEF SourceInv
<1> QED  BY <1>4, <1>5, <1>6, <1>7 DEF SourceInv, Kept

LEMMA SourcedInductive == IInv /\ SourceInv /\ [Next]_vars => SourceInv'
<1> SUFFICES ASSUME IInv, SourceInv, [Next]_vars  PROVE SourceInv'
  OBVIOUS
<1>1. CASE \E s \in Sources : Apply(s)  BY <1>1, ApplySourced
<1>2. CASE got' = got /\ UNCHANGED table  BY <1>2 DEF SourceInv, Kept, table
<1>3. (\E s \in Sources : Apply(s)) \/ (got' = got /\ UNCHANGED table)
  BY DEF Next, vars, Ask, Reply, SendOther, Capture, table
<1> QED  BY <1>1, <1>2, <1>3

LEMMA AbsenceReason ==
  ASSUME IInv, SourceInv
  PROVE  AbsenceExplained
<1> SUFFICES ASSUME NEW s \in Sources, AbsentOn(s), NEW p \in DOMAIN got[s], got[s][p].kind # "other",
                    ~(got[s][p].kind = "search" /\ Len(searches) > MaxSearches)
             PROVE  \E t \in Sources \ {s} : \E i \in DOMAIN got[t] : SameRecord(got[s][p], got[t][i])
  BY DEF AbsenceExplained
<1> DEFINE f == got[s][p]
<1>1. Kept(f)  BY DEF SourceInv
<1>2. CASE f.kind = "search"
  <2>1. PICK n \in DOMAIN searches : searches[n].key = searchKey(f.from, f.id)  BY <1>1, <1>2 DEF Kept
  <2>2. searches[n] \in Listed
    <3>1. /\ searches \in Seq(SearchRecord) /\ order \in Seq(Nat) /\ MaxSearches \in Nat
          /\ \A i \in DOMAIN order : order[i] = Len(searches) - Len(order) + i
      BY SearchBound DEF IInv, TypeOK, Listing, TableAgrees
    <3>2. Len(order) = Len(searches)  BY <1>2, <3>1 DEF SourceInv
    <3>3. n \in DOMAIN order /\ order[n] = n  BY <3>1, <3>2
    <3> QED  BY <3>3 DEF Listed
  <2>3. searches[n].source \in Sources \ {s}  BY <2>2 DEF SourceInv, AbsentOn, Sourced
  <2>4. PICK i \in DOMAIN got[searches[n].source] :
          LET g == got[searches[n].source][i] IN
            g.kind = "search" /\ searchKey(g.from, g.id) = searches[n].key
    BY DEF SourceInv
  <2> QED  BY <1>2, <2>1, <2>3, <2>4 DEF SameRecord
<1>3. CASE f.kind \in OfServer
  <2>1. f.server \in DOMAIN servers  BY <1>1, <1>3 DEF Kept
  <2>2. servers[f.server].source \in Sources \ {s}  BY <2>1 DEF SourceInv, AbsentOn, Sourced
  <2>3. PICK i \in DOMAIN got[servers[f.server].source] :
          LET g == got[servers[f.server].source][i] IN g.kind \in OfServer /\ g.server = f.server
    BY <2>1 DEF SourceInv
  <2> QED  BY <1>3, <2>2, <2>3 DEF SameRecord, OfServer
<1> QED  BY <1>1, <1>2, <1>3 DEF Kept

\* What the rules report wrongly has a reason: a conflict is two servers, a
\* search repeated or one answer captured twice; an absence is another source
\* that delivered the same discovery, or a table that had to drop searches.
THEOREM RulesAreExplained == Spec => []RulesExplained
<1>1. Init => SourceInv
  BY DEF Init, D!Init, SourceInv
<1>2. IInv /\ WireInv /\ RecordInv /\ SourceInv => RulesExplained
  BY ConflictReason, AbsenceReason DEF RulesExplained
<1> QED
  BY <1>1, <1>2, InitListed, ListedInductive, InitTraced, TracedInductive, SourcedInductive, PTL DEF Spec

=============================================================================
