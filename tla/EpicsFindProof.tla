--------------------------- MODULE EpicsFindProof ---------------------------
(***************************************************************************)
(* For every set of servers, addresses, searches and destinations: what    *)
(* the window is reported to show is what was seen, and a verdict of the   *)
(* active search rests on complete searches.                               *)
(***************************************************************************)
EXTENDS EpicsFind, SequenceTheorems, FiniteSetTheorems, TLAPS

Keys == {q.key : q \in Queries}
PVs == {q.pv : q \in Queries}

Frame ==
  [kind : {"search"}, key : Keys, pv : PVs]
    \cup [kind : {"response"}, key : Keys, guid : Guids, addr : Endpoints, found : BOOLEAN]
    \cup [kind : {"beacon"}, guid : Guids, addr : Endpoints]

Search == [pv : PVs, count : Nat, responses : Seq(Guids), notFound : Seq(Guids)]
Server == [addr : Endpoints, answers : Nat, beacons : Nat, pvs : SUBSET PVs]

-----------------------------------------------------------------------------
(* The active search.                                                      *)

\* The state of the search is of its type.
SearchTypes ==
  /\ step \in Steps /\ exit \in {"none", "ok", "not observed", "usage", "error"}
  /\ active \in BOOLEAN /\ queried \subseteq Protos /\ queried # {}
  /\ firstErr \in BOOLEAN
  /\ unsent \subseteq Destinations /\ flight \subseteq Answered /\ whole \subseteq Protos
  /\ responses \in [Protos -> SUBSET Answered] /\ notFound \in [Protos -> SUBSET Answered]

\* Before an error, the searches that are over were whole.
WholeSoFar ==
  /\ step # "over" => exit = "none"
  /\ step \in {"confirm", "ca send", "ca wait"} => whole = {} /\ ~firstErr
  /\ step = "window" => ~active
  /\ step \in {"ca send", "ca wait"} => "ca" \in queried
  /\ step \in {"pva send", "pva wait"} => "pva" \in queried /\ (~firstErr => whole = queried \ {"pva"})
  /\ VerdictWhole

LEMMA InitWhole == Init => SearchTypes /\ WholeSoFar
<1> SUFFICES ASSUME Init  PROVE SearchTypes /\ WholeSoFar
  OBVIOUS
<1>1. queried \subseteq Protos /\ queried # {}
  <2>1. CASE active
    <3>1. queried \in (SUBSET Protos) \ {{}}  BY <2>1 DEF Init
    <3> QED  BY <3>1
  <2>2. CASE ~active
    <3>1. queried = Protos  BY <2>2 DEF Init
    <3>2. Protos # {}  BY DEF Protos
    <3> QED  BY <3>1, <3>2
  <2> QED  BY <2>1, <2>2
<1> QED  BY <1>1 DEF Init, SearchTypes, WholeSoFar, VerdictWhole, Steps, Protos, Answered

\* How a search that ends affects what is kept.
LEMMA FinishWhole ==
  ASSUME SearchTypes, WholeSoFar, NEW err \in BOOLEAN, Finish(err), Sending \/ Waiting,
         \/ err /\ whole' \in {whole, whole \cup {proto}}
         \/ ~err /\ ~firstErr /\ ~cancelled /\ whole' = whole \cup {proto}
  PROVE  SearchTypes' /\ WholeSoFar'
<1>1. /\ firstErr' = err /\ flight' = {} /\ active' = active /\ queried' = queried
      /\ responses' = responses /\ notFound' = notFound
  BY DEF Finish, rest, optionVars
<1>2. proto \in Protos  BY DEF proto, Protos
<1>3. whole' \subseteq Protos  BY <1>2 DEF SearchTypes
<1>4. CASE proto = "ca" /\ "pva" \in queried /\ ~cancelled
  <2>1. step' = "pva send" /\ unsent' = Destinations /\ exit' = exit
    BY <1>4 DEF Finish
  <2>2. step \in {"ca send", "ca wait"}  BY <1>4 DEF proto
  <2>3. whole = {} /\ "ca" \in queried /\ exit = "none"  BY <2>2 DEF WholeSoFar
  <2>4. ~err => whole' = queried \ {"pva"}
    BY <1>4, <2>3 DEF SearchTypes, Protos
  <2> QED
    BY <1>1, <1>3, <1>4, <2>1, <2>3, <2>4 DEF SearchTypes, WholeSoFar, VerdictWhole, Steps
<1>5. CASE ~(proto = "ca" /\ "pva" \in queried /\ ~cancelled)
  <2>1. step' = "over" /\ unsent' = unsent /\ exit' = Verdict(err)
    BY <1>5 DEF Finish
  <2>2. Verdict(err) \in {"error", "not observed", "ok"} /\ (err => Verdict(err) = "error")
    BY DEF Verdict
  <2>3. ASSUME ~err  PROVE whole' = queried
    <3>1. CASE step \in {"ca send", "ca wait"}
      <4>1. proto = "ca"  BY <3>1 DEF proto
      <4>2. whole = {} /\ "ca" \in queried /\ "pva" \notin queried
        BY <1>5, <2>3, <3>1, <4>1 DEF WholeSoFar
      <4> QED  BY <2>3, <4>1, <4>2 DEF SearchTypes, Protos
    <3>2. CASE step \in {"pva send", "pva wait"}
      <4>1. proto = "pva"  BY <3>2 DEF proto
      <4>2. "pva" \in queried /\ whole = queried \ {"pva"}
        BY <2>3, <3>2 DEF WholeSoFar
      <4> QED  BY <2>3, <4>1, <4>2
    <3> QED  BY <3>1, <3>2 DEF Sending, Waiting
  <2> QED
    BY <1>1, <1>3, <2>1, <2>2, <2>3 DEF SearchTypes, WholeSoFar, VerdictWhole, Steps
<1> QED  BY <1>4, <1>5

LEMMA SearchInductive ==
  SearchTypes /\ WholeSoFar /\ [Next]_vars => SearchTypes' /\ WholeSoFar'
<1> SUFFICES ASSUME SearchTypes, WholeSoFar, [Next]_vars  PROVE SearchTypes' /\ WholeSoFar'
  OBVIOUS
<1> DEFINE Goal == SearchTypes' /\ WholeSoFar'
<1>1. CASE UNCHANGED <<optionVars, searchVars, step, exit>>
  BY <1>1 DEF SearchTypes, WholeSoFar, VerdictWhole, optionVars, searchVars
<1>2. CASE \E f : Applied(f)
  BY <1>1, <1>2 DEF Applied
<1>3. CASE WindowEnds \/ WindowFails
  <2>1. /\ UNCHANGED <<optionVars, searchVars>> /\ step = "window" /\ step' = "over"
        /\ exit' \in {"ok", "not observed", "error"}
    BY <1>3 DEF WindowEnds, WindowFails
  <2>2. ~active  BY <2>1 DEF WholeSoFar
  <2> QED
    BY <2>1, <2>2 DEF SearchTypes, WholeSoFar, VerdictWhole, Steps, optionVars, searchVars
<1>4. CASE Cancel
  BY <1>1, <1>4 DEF Cancel, rest
<1>5. CASE Confirm
  <2>1. /\ UNCHANGED <<optionVars, searchVars>> /\ step = "confirm"
        /\ \/ step' = (IF "ca" \in queried THEN "ca send" ELSE "pva send") /\ exit' = exit
           \/ step' = "over" /\ exit' \in {"usage", "error"}
    BY <1>5 DEF Confirm, rest
  <2>2. queried = queried \ {"pva"} \/ "pva" \in queried  OBVIOUS
  <2>3. "ca" \notin queried => "pva" \in queried /\ queried \ {"pva"} = {}
    BY DEF SearchTypes, Protos
  <2> QED
    BY <2>1, <2>3 DEF SearchTypes, WholeSoFar, VerdictWhole, Steps, optionVars, searchVars
<1>6. CASE \E d \in Destinations : Send(d)
  <2>1. PICK d \in Destinations : Send(d)  BY <1>6
  <2>2. PICK R \in SUBSET Reach[d] : flight' = flight \cup {[server |-> v, dest |-> d] : v \in R}
    BY <2>1 DEF Send
  <2>3. R \subseteq Answering  BY <2>2, ReachTyped
  <2>4. flight' \subseteq Answered
    <3>1. {[server |-> v, dest |-> d] : v \in R} \subseteq Answered  BY <2>3 DEF Answered
    <3> QED  BY <2>2, <3>1 DEF SearchTypes
  <2>5. /\ UNCHANGED <<optionVars, responses, notFound, firstErr, whole, step, exit>>
        /\ unsent' = unsent \ {d}
    BY <2>1 DEF Send, rest
  <2> QED  BY <2>4, <2>5 DEF SearchTypes, WholeSoFar, VerdictWhole, optionVars
<1>7. CASE Sent
  <2>1. /\ UNCHANGED <<optionVars, searchVars, exit>> /\ Sending
        /\ step' = IF proto = "ca" THEN "ca wait" ELSE "pva wait"
    BY <1>7 DEF Sent, rest
  <2>2. (step = "ca send" /\ step' = "ca wait") \/ (step = "pva send" /\ step' = "pva wait")
    BY <2>1 DEF Sending, proto
  <2> QED  BY <2>1, <2>2 DEF SearchTypes, WholeSoFar, VerdictWhole, Steps, optionVars, searchVars
<1>8. CASE \E a \in flight : Answer(a)
  <2>1. PICK a \in flight : Answer(a)  BY <1>8
  <2>2. a \in Answered /\ proto \in Protos  BY DEF SearchTypes, proto, Protos
  <2>3. /\ responses' \in [Protos -> SUBSET Answered] /\ notFound' \in [Protos -> SUBSET Answered]
        /\ flight' \subseteq Answered
    BY ZenonT(30), <2>1, <2>2 DEF Answer, SearchTypes
  <2>4. UNCHANGED <<optionVars, unsent, firstErr, whole, step, exit>>  BY <2>1 DEF Answer, rest
  <2> QED  BY <2>3, <2>4 DEF SearchTypes, WholeSoFar, VerdictWhole, optionVars
<1>9. CASE Deadline
  <2>1. Waiting /\ Finish(firstErr \/ cancelled) /\ whole' = IF cancelled THEN whole ELSE whole \cup {proto}
    BY <1>9 DEF Deadline
  <2>2. CASE firstErr \/ cancelled
    <3>1. Finish(TRUE)  BY <2>1, <2>2
    <3> QED  BY <2>1, <3>1, FinishWhole
  <2>3. CASE ~firstErr /\ ~cancelled
    <3>1. Finish(FALSE)  BY <2>1, <2>3
    <3> QED  BY <2>1, <2>3, <3>1, FinishWhole
  <2> QED  BY <2>2, <2>3
<1>10. CASE SearchFails \/ Interrupted
  BY <1>10, FinishWhole DEF SearchFails, Interrupted
<1>11. CASE UNCHANGED vars  BY <1>1, <1>11 DEF vars
<1> QED
  BY <1>2, <1>3, <1>4, <1>5, <1>6, <1>7, <1>8, <1>9, <1>10, <1>11
  DEF Next, PvaSearch, PvaResponse, PvaBeacon

\* A verdict on the name comes only of searches that sent every datagram and
\* waited to the end, whatever failed and whenever the context was cancelled.
THEOREM VerdictIsWhole == Spec => []VerdictWhole
<1>1. WholeSoFar => VerdictWhole  BY DEF WholeSoFar
<1> QED  BY <1>1, InitWhole, SearchInductive, PTL DEF Spec

-----------------------------------------------------------------------------
(* The frames of the window, and what is counted among them.               *)

\* A search with this key was seen before frame i.
Asked(k, i) == \E j \in Frames("search") : got[j].key = k /\ j < i

\* The answers of a server to searches seen before them.
Given(g) ==
  {i \in Frames("response") : got[i].guid = g /\ \E k \in SearchKeys : i \in AnswersTo(k, TRUE)}

LEMMA Appended ==
  ASSUME got \in Seq(Frame), NEW f \in Frame, got' = Append(got, f),
         NEW n, n = Len(got) + 1
  PROVE  /\ got' \in Seq(Frame) /\ n \in Nat
         /\ DOMAIN got' = DOMAIN got \cup {n} /\ n \notin DOMAIN got
         /\ got'[n] = f
         /\ \A i \in DOMAIN got : i \in Nat /\ i < n /\ ~(n < i) /\ got'[i] = got[i]
         /\ ~(n < n)
OBVIOUS

\* What a frame adds to what is counted.
LEMMA FramesGrow ==
  ASSUME got \in Seq(Frame), NEW f \in Frame, got' = Append(got, f),
         NEW n, n = Len(got) + 1
  PROVE  /\ \A kind : Frames(kind)' = Frames(kind) \cup (IF f.kind = kind THEN {n} ELSE {})
         /\ SearchKeys' = SearchKeys \cup (IF f.kind = "search" THEN {f.key} ELSE {})
         /\ \A g : FromServer(g)' = FromServer(g) \cup (IF f.kind # "search" /\ f.guid = g THEN {n} ELSE {})
<1>1. ASSUME NEW kind
      PROVE  Frames(kind)' = Frames(kind) \cup (IF f.kind = kind THEN {n} ELSE {})
  BY Appended DEF Frames
<1>2. SearchKeys' = SearchKeys \cup (IF f.kind = "search" THEN {f.key} ELSE {})
  <2>1. Frames("search")' = Frames("search") \cup (IF f.kind = "search" THEN {n} ELSE {})  BY <1>1
  <2>2. \A i \in Frames("search") : got'[i] = got[i]  BY Appended DEF Frames
  <2>3. got'[n] = f  BY Appended
  <2>4. SearchKeys' = {got'[i].key : i \in Frames("search")'}  BY DEF SearchKeys
  <2>5. SearchKeys = {got[i].key : i \in Frames("search")}  BY DEF SearchKeys
  <2>6. CASE f.kind = "search"
    <3>1. Frames("search")' = Frames("search") \cup {n}  BY <2>1, <2>6
    <3>2. \A x : x \in SearchKeys' <=> \E i \in Frames("search") \cup {n} : got'[i].key = x
      BY <2>4, <3>1
    <3>3. \A x : x \in SearchKeys' <=> x = f.key \/ \E i \in Frames("search") : got[i].key = x
      BY <2>2, <2>3, <3>2
    <3> QED  BY <2>5, <2>6, <3>3
  <2>7. CASE f.kind # "search"
    <3>1. Frames("search")' = Frames("search")  BY <2>1, <2>7
    <3>2. SearchKeys' = {got[i].key : i \in Frames("search")}  BY <2>2, <2>4, <3>1
    <3> QED  BY <2>5, <2>7, <3>2
  <2> QED  BY <2>6, <2>7
<1>3. ASSUME NEW g
      PROVE  FromServer(g)' = FromServer(g) \cup (IF f.kind # "search" /\ f.guid = g THEN {n} ELSE {})
  BY Appended DEF FromServer
<1> QED  BY <1>1, <1>2, <1>3

LEMMA AnswersGrow ==
  ASSUME got \in Seq(Frame), NEW f \in Frame, got' = Append(got, f),
         NEW n, n = Len(got) + 1
  PROVE  /\ \A k, found : AnswersTo(k, found)' = AnswersTo(k, found) \cup
              (IF f.kind = "response" /\ f.key = k /\ f.found = found /\ k \in SearchKeys THEN {n} ELSE {})
         /\ \A g : Given(g)' = Given(g) \cup
              (IF f.kind = "response" /\ f.guid = g /\ f.found = TRUE /\ f.key \in SearchKeys
               THEN {n} ELSE {})
         /\ \A k, found : n \notin AnswersTo(k, found)
         /\ \A g : n \notin Given(g)
<1>1. /\ Frames("response")' = Frames("response") \cup (IF f.kind = "response" THEN {n} ELSE {})
      /\ Frames("search")' = Frames("search") \cup (IF f.kind = "search" THEN {n} ELSE {})
  BY FramesGrow
<1>2. /\ \A i \in Frames("response") : got'[i] = got[i] /\ ~(n < i)
      /\ \A i \in Frames("search") : got'[i] = got[i] /\ i < n
      /\ got'[n] = f /\ ~(n < n) /\ n \notin Frames("response")
  BY Appended DEF Frames
<1>3. \A k : k \in SearchKeys <=> \E j \in Frames("search") : got[j].key = k
  BY DEF SearchKeys
\* A search that comes after an answer does not count.
<1>4. \A k : \A i \in Frames("response") : Asked(k, i)' <=> Asked(k, i)
  BY <1>1, <1>2 DEF Asked
<1>5. \A k : f.kind = "response" => (Asked(k, n)' <=> k \in SearchKeys)
  BY <1>1, <1>2, <1>3 DEF Asked
<1>6. ASSUME NEW k, NEW found
      PROVE  AnswersTo(k, found)' = AnswersTo(k, found) \cup
               (IF f.kind = "response" /\ f.key = k /\ f.found = found /\ k \in SearchKeys THEN {n} ELSE {})
  <2>1. \A i : i \in AnswersTo(k, found)' <=>
          i \in Frames("response")' /\ got'[i].key = k /\ got'[i].found = found /\ Asked(k, i)'
    BY DEF AnswersTo, Asked
  <2>2. \A i : i \in AnswersTo(k, found) <=>
          i \in Frames("response") /\ got[i].key = k /\ got[i].found = found /\ Asked(k, i)
    BY DEF AnswersTo, Asked
  <2>3. \A i \in Frames("response") : i \in AnswersTo(k, found)' <=> i \in AnswersTo(k, found)
    BY <1>1, <1>2, <1>4, <2>1, <2>2
  <2>4. n \in AnswersTo(k, found)' <=>
          f.kind = "response" /\ f.key = k /\ f.found = found /\ k \in SearchKeys
    BY <1>1, <1>2, <1>5, <2>1
  <2>5. \A i : i \in AnswersTo(k, found)' \cup AnswersTo(k, found) => i \in Frames("response") \cup {n}
    BY <1>1, <2>1, <2>2
  <2>6. n \notin AnswersTo(k, found)  BY <1>2, <2>2
  <2> QED  BY <2>3, <2>4, <2>5, <2>6
<1>7. ASSUME NEW g
      PROVE  Given(g)' = Given(g) \cup
               (IF f.kind = "response" /\ f.guid = g /\ f.found = TRUE /\ f.key \in SearchKeys
                THEN {n} ELSE {})
  <2>1. \A i : i \in Given(g)' <=>
          /\ i \in Frames("response")' /\ got'[i].guid = g
          /\ \E k \in SearchKeys' : i \in AnswersTo(k, TRUE)'
    BY DEF Given
  <2>2. \A i : i \in Given(g) <=>
          /\ i \in Frames("response") /\ got[i].guid = g
          /\ \E k \in SearchKeys : i \in AnswersTo(k, TRUE)
    BY DEF Given
  <2>3. \A k : AnswersTo(k, TRUE) # {} => k \in SearchKeys  BY <1>3 DEF AnswersTo
  <2>4. SearchKeys \subseteq SearchKeys' /\ (f.kind = "response" => SearchKeys' = SearchKeys)
    BY FramesGrow
  <2>5. \A i \in Frames("response") : i \in Given(g)' <=> i \in Given(g)
    BY <1>1, <1>2, <1>6, <2>1, <2>2, <2>3, <2>4
  <2>6. n \notin Given(g) /\ \A k : n \notin AnswersTo(k, TRUE)  BY <1>2, <2>2 DEF AnswersTo
  <2>7. n \in Given(g)' <=>
          f.kind = "response" /\ f.guid = g /\ f.found = TRUE /\ f.key \in SearchKeys
    BY <1>1, <1>2, <1>6, <2>1, <2>4, <2>6
  <2>8. \A i : i \in Given(g)' \cup Given(g) => i \in Frames("response") \cup {n}
    BY <1>1, <2>1, <2>2
  <2> QED  BY <2>5, <2>6, <2>7, <2>8
<1>8. (\A k, found : n \notin AnswersTo(k, found)) /\ \A g : n \notin Given(g)
  BY <1>2 DEF AnswersTo, Given
<1> QED  BY <1>6, <1>7, <1>8

\* All of it is finite.
LEMMA FramesFinite ==
  ASSUME got \in Seq(Frame)
  PROVE  /\ \A kind : IsFiniteSet(Frames(kind))
         /\ \A k, found : IsFiniteSet(AnswersTo(k, found))
         /\ \A g : IsFiniteSet(Given(g))
         /\ IsFiniteSet(SearchKeys)
<1>1. IsFiniteSet(DOMAIN got)
  <2>1. Len(got) \in Int /\ 1 \in Int /\ DOMAIN got = 1..Len(got)  OBVIOUS
  <2> QED  BY <2>1, FS_Interval
<1>2. \A kind : IsFiniteSet(Frames(kind))
  <2>1. \A kind : Frames(kind) \subseteq DOMAIN got  BY DEF Frames
  <2> QED  BY <1>1, <2>1, FS_Subset
<1>3. \A k, found : IsFiniteSet(AnswersTo(k, found))
  <2>1. \A k, found : AnswersTo(k, found) \subseteq Frames("response")  BY DEF AnswersTo
  <2> QED  BY <1>2, <2>1, FS_Subset
<1>4. \A g : IsFiniteSet(Given(g))
  <2>1. \A g : Given(g) \subseteq Frames("response")  BY DEF Given
  <2> QED  BY <1>2, <2>1, FS_Subset
<1>5. IsFiniteSet(SearchKeys)
  <2> DEFINE keyOf == [i \in Frames("search") |-> got[i].key]
  <2>1. keyOf \in Surjection(Frames("search"), SearchKeys)  BY DEF SearchKeys, Surjection
  <2> QED  BY <1>2, <2>1, FS_Surjection
<1> QED  BY <1>2, <1>3, <1>4, <1>5

\* One more.
LEMMA OneMore ==
  ASSUME NEW S, IsFiniteSet(S), NEW x, x \notin S
  PROVE  /\ IsFiniteSet(S \cup {x}) /\ Cardinality(S) \in Nat
         /\ Cardinality(S \cup {x}) = Cardinality(S) + 1
BY FS_AddElement, FS_CardinalityType

\* More than one.
LEMMA TwoElements ==
  /\ \A S : Cardinality(S) > 1 => \E a, b \in S : a # b
  /\ \A S : IsFiniteSet(S) => \A a, b \in S : a # b => Cardinality(S) > 1
<1>1. ASSUME NEW S, Cardinality(S) > 1  PROVE \E a, b \in S : a # b
  <2> SUFFICES ASSUME ~ \E a, b \in S : a # b  PROVE FALSE  OBVIOUS
  <2>1. CASE S = {}
    <3>1. Cardinality(S) = 0  BY <2>1, FS_EmptySet
    <3> QED  BY <1>1, <3>1
  <2>2. CASE S # {}
    <3>1. PICK a \in S : TRUE  BY <2>2
    <3>2. S = {a}  BY <3>1
    <3>3. Cardinality(S) = 1  BY <3>2, FS_Singleton
    <3> QED  BY <1>1, <3>3
  <2> QED  BY <2>1, <2>2
<1>2. ASSUME NEW S, IsFiniteSet(S), NEW a \in S, NEW b \in S, a # b  PROVE Cardinality(S) > 1
  <2>1. IsFiniteSet({a}) /\ Cardinality({a}) = 1  BY FS_Singleton
  <2>2. Cardinality({a} \cup {b}) = 2  BY <1>2, <2>1, OneMore
  <2>3. {a} \cup {b} \subseteq S  BY <1>2
  <2>4. Cardinality({a} \cup {b}) <= Cardinality(S) /\ Cardinality(S) \in Nat
    BY <1>2, <2>3, FS_Subset, FS_CardinalityType
  <2> QED  BY <2>2, <2>4
<1> QED  BY <1>1, <1>2

-----------------------------------------------------------------------------
(* The table of the window.                                                *)

\* The list names each record of the map once.
ListOf(order, K) ==
  /\ order \in Seq(K)
  /\ \A i, j \in DOMAIN order : order[i] = order[j] => i = j
KeysOf(order) == {order[i] : i \in DOMAIN order}
Lengthened(all, order, k) == KeysOf(all) = KeysOf(order) \cup {k}
Shortened(order, all) == KeysOf(order) = KeysOf(all) \ {Head(all)}

LEMMA ListGrows ==
  ASSUME NEW K, NEW order, ListOf(order, K), NEW k \in K, k \notin KeysOf(order),
         NEW all, all = Append(order, k)
  PROVE  /\ ListOf(all, K) /\ Len(all) = Len(order) + 1
         /\ Lengthened(all, order, k)
         /\ ListOf(Tail(all), K) /\ Len(Tail(all)) = Len(order)
         /\ Shortened(Tail(all), all)
<1>1. /\ all \in Seq(K) /\ Len(all) = Len(order) + 1 /\ Len(order) \in Nat
      /\ DOMAIN all = 1..Len(all) /\ DOMAIN order = 1..Len(order)
      /\ \A i \in DOMAIN order : i \in DOMAIN all /\ all[i] = order[i]
      /\ all[Len(all)] = k
  BY DEF ListOf
<1>2. \A i \in DOMAIN all : i \in DOMAIN order \/ i = Len(all)  BY <1>1
<1>3. ListOf(all, K)  BY <1>1, <1>2 DEF ListOf, KeysOf
<1>4. KeysOf(all) = KeysOf(order) \cup {k}
  <2>1. KeysOf(all) \subseteq KeysOf(order) \cup {k}  BY <1>1, <1>2 DEF KeysOf
  <2>2. k \in KeysOf(all)  BY <1>1 DEF KeysOf
  <2>3. KeysOf(order) \subseteq KeysOf(all)  BY <1>1 DEF KeysOf
  <2> QED  BY <2>1, <2>2, <2>3
<1> DEFINE rest1 == Tail(all)
<1>5. /\ rest1 \in Seq(K) /\ Len(rest1) = Len(order) /\ DOMAIN rest1 = 1..Len(order)
      /\ \A i \in 1..Len(order) : rest1[i] = all[i + 1]
      /\ Head(all) = all[1]
  BY <1>1
<1>6. \A i \in 1..Len(order) : i + 1 \in DOMAIN all /\ i + 1 # 1  BY <1>1
<1>7. ListOf(rest1, K)
  <2> SUFFICES ASSUME NEW i \in DOMAIN rest1, NEW j \in DOMAIN rest1, rest1[i] = rest1[j]  PROVE i = j
    BY <1>5 DEF ListOf
  <2>1. all[i + 1] = all[j + 1] /\ i + 1 \in DOMAIN all /\ j + 1 \in DOMAIN all  BY <1>5, <1>6
  <2>2. i + 1 = j + 1  BY <1>3, <2>1 DEF ListOf
  <2> QED  BY <1>5, <2>2
<1>8. KeysOf(rest1) = KeysOf(all) \ {Head(all)}
  <2>1. ASSUME NEW i \in DOMAIN rest1  PROVE rest1[i] \in KeysOf(all) \ {Head(all)}
    <3>1. rest1[i] = all[i + 1] /\ i + 1 \in DOMAIN all /\ 1 \in DOMAIN all /\ i + 1 # 1
      BY <1>1, <1>5, <1>6
    <3> QED  BY <1>3, <1>5, <3>1 DEF KeysOf, ListOf
  <2>2. ASSUME NEW i \in DOMAIN all, all[i] # Head(all)  PROVE all[i] \in KeysOf(rest1)
    <3>1. i # 1 /\ i - 1 \in 1..Len(order) /\ (i - 1) + 1 = i  BY <1>1, <1>5, <2>2
    <3>2. rest1[i - 1] = all[i] /\ i - 1 \in DOMAIN rest1  BY <1>5, <3>1
    <3> HIDE DEF rest1
    <3> QED  BY <3>2 DEF KeysOf
  <2> HIDE DEF rest1
  <2> QED  BY <2>1, <2>2 DEF KeysOf
<1> QED  BY <1>1, <1>3, <1>4, <1>5, <1>7, <1>8 DEF Lengthened, Shortened

TableTypes ==
  /\ got \in Seq(Frame)
  /\ ListOf(porder, Keys) /\ Len(porder) <= MaxSearches
  /\ DOMAIN psearch = KeysOf(porder) /\ \A k \in DOMAIN psearch : psearch[k] \in Search
  /\ DOMAIN pservers \subseteq Guids /\ IsFiniteSet(DOMAIN pservers)
  /\ \A g \in DOMAIN pservers : pservers[g] \in Server

\* A server is listed from its first frame on, at the address of that frame.
FirstSeen ==
  /\ \A g \in Guids : g \in DOMAIN pservers <=> FromServer(g) # {}
  /\ \A g \in DOMAIN pservers : FirstFrom(g, pservers[g].addr)

\* While no search had to leave the list, nothing is missing.
Few == Cardinality(SearchKeys) <= MaxSearches
Exact(s, k) ==
  /\ Len(s.responses) = Cardinality(AnswersTo(k, TRUE))
  /\ Len(s.notFound) = Cardinality(AnswersTo(k, FALSE))
AllKept ==
  Few =>
    /\ DOMAIN psearch = SearchKeys /\ Len(porder) = Cardinality(SearchKeys)
    /\ \A k \in DOMAIN psearch : Exact(psearch[k], k)
    /\ \A g \in DOMAIN pservers :
         /\ pservers[g].answers = Cardinality(Given(g))
         /\ \A pv \in pservers[g].pvs : \E k \in DOMAIN psearch : psearch[k].pv = pv

TableInv == TableTypes /\ FirstSeen /\ AllKept

LEMMA InitTable == Init => TableInv
<1> SUFFICES ASSUME Init  PROVE TableInv
  OBVIOUS
<1>1. got = <<>> /\ porder = <<>> /\ DOMAIN psearch = {} /\ DOMAIN pservers = {}
  BY DEF Init, Empty
<1>2. /\ \A kind : Frames(kind) = {} /\ SearchKeys = {} /\ \A g : FromServer(g) = {}
  BY <1>1 DEF Frames, SearchKeys, FromServer
<1>3. Cardinality({}) = 0 /\ IsFiniteSet({})  BY FS_EmptySet
<1>4. TableTypes
  <2>1. Len(porder) = 0 /\ 0 <= MaxSearches  BY <1>1, SearchBound
  <2> QED  BY <1>1, <1>3, <2>1 DEF TableTypes, ListOf, KeysOf
<1>5. FirstSeen  BY <1>1, <1>2 DEF FirstSeen
<1>6. AllKept  BY <1>1, <1>2, <1>3 DEF AllKept
<1> QED  BY <1>4, <1>5, <1>6 DEF TableInv

\* A frame of a server, and the record kept of the server.
LEMMA ServerStep ==
  ASSUME TableTypes, FirstSeen, NEW f \in Frame, f.kind # "search", got' = Append(got, f),
         NEW r \in Server, pservers' = Put(pservers, f.guid, r),
         r.addr = pvaServer(f.guid, f.addr).addr
  PROVE  /\ DOMAIN pservers' \subseteq Guids /\ IsFiniteSet(DOMAIN pservers')
         /\ \A g \in DOMAIN pservers' : pservers'[g] \in Server
         /\ FirstSeen'
<1> DEFINE n == Len(got) + 1
<1>1. f.guid \in Guids /\ f.addr \in Endpoints  BY DEF Frame
<1>2. /\ DOMAIN pservers' = DOMAIN pservers \cup {f.guid} /\ pservers'[f.guid] = r
      /\ \A g \in DOMAIN pservers : g # f.guid => pservers'[g] = pservers[g]
  BY DEF Put
<1>3. /\ \A g : FromServer(g)' = FromServer(g) \cup (IF f.kind # "search" /\ f.guid = g THEN {n} ELSE {})
      /\ \A i \in DOMAIN got : i \in Nat /\ i < n /\ got'[i] = got[i]
      /\ n \in Nat /\ got'[n] = f
  BY FramesGrow, Appended DEF TableTypes
<1> HIDE DEF n
<1>4. \A g : FromServer(g) \subseteq DOMAIN got  BY DEF FromServer
\* The first frame stays the first.
<1>5. ASSUME NEW g, NEW e, FirstFrom(g, e)  PROVE FirstFrom(g, e)'
  <2>1. PICK i \in FromServer(g) : got[i].addr = e /\ \A j \in FromServer(g) : i <= j
    BY <1>5 DEF FirstFrom
  <2>2. i \in FromServer(g)' /\ got'[i].addr = e /\ i <= n  BY <1>3, <1>4, <2>1
  <2>3. \A j \in FromServer(g)' : i <= j  BY <1>3, <2>1, <2>2
  <2> QED  BY <2>2, <2>3 DEF FirstFrom
<1>6. FirstFrom(f.guid, r.addr)'
  <2>1. CASE f.guid \in DOMAIN pservers
    <3>1. r.addr = pservers[f.guid].addr  BY <2>1 DEF pvaServer
    <3>2. FirstFrom(f.guid, pservers[f.guid].addr)  BY <2>1 DEF FirstSeen
    <3> QED  BY <1>5, <3>1, <3>2
  <2>2. CASE f.guid \notin DOMAIN pservers
    <3>1. r.addr = f.addr  BY <2>2 DEF pvaServer
    <3>2. FromServer(f.guid) = {}  BY <1>1, <2>2 DEF FirstSeen
    <3>3. FromServer(f.guid)' = {n}  BY <1>3, <3>2
    <3>4. got'[n].addr = r.addr /\ n <= n  BY <1>3, <3>1
    <3>5. \A j \in FromServer(f.guid)' : n <= j  BY <3>3, <3>4
    <3>6. n \in FromServer(f.guid)'  BY <3>3
    <3> QED  BY <3>4, <3>5, <3>6 DEF FirstFrom
  <2> QED  BY <2>1, <2>2
<1>7. ASSUME NEW g \in DOMAIN pservers', NEW e, e = pservers'[g].addr  PROVE FirstFrom(g, e)'
  <2>1. CASE g = f.guid
    <3>1. e = r.addr  BY <1>2, <1>7, <2>1
    <3>2. \A x : x = r.addr => FirstFrom(f.guid, x)'  BY <1>6 DEF FirstFrom, FromServer
    <3> QED  BY <2>1, <3>1, <3>2 DEF FirstFrom, FromServer
  <2>2. CASE g # f.guid
    <3>1. g \in DOMAIN pservers /\ e = pservers[g].addr  BY <1>2, <1>7, <2>2
    <3> QED  BY <1>5, <3>1 DEF FirstSeen
  <2> QED  BY <2>1, <2>2
<1>8. FirstSeen'
  <2>1. \A g \in Guids : g \in DOMAIN pservers' <=> FromServer(g)' # {}
    BY <1>2, <1>3 DEF FirstSeen
  <2>2. \A g \in DOMAIN pservers' : \A e : e = pservers'[g].addr => FirstFrom(g, e)'  BY <1>7
  <2> QED  BY <2>1, <2>2 DEF FirstSeen, FirstFrom, FromServer
<1>9. IsFiniteSet(DOMAIN pservers')
  <2>1. IsFiniteSet(DOMAIN pservers \cup {f.guid})  BY FS_AddElement DEF TableTypes
  <2> QED  BY <1>2, <2>1
<1>10. /\ DOMAIN pservers' \subseteq Guids
       /\ \A g \in DOMAIN pservers' : pservers'[g] \in Server
  BY <1>1, <1>2 DEF TableTypes
<1> QED  BY <1>8, <1>9, <1>10

LEMMA ServerType ==
  ASSUME TableTypes, NEW g, NEW e \in Endpoints
  PROVE  pvaServer(g, e) \in Server
BY DEF TableTypes, pvaServer, Server

\* What a search, an answer and a beacon leave alone of what is counted.
LEMMA SearchStep ==
  ASSUME TableInv, NEW q \in Queries, PvaSearch(q)
  PROVE  TableInv'
<1> PICK k : k = q.key  OBVIOUS
<1> PICK f : f = [kind |-> "search", key |-> k, pv |-> q.pv]  OBVIOUS
<1> PICK n : n = Len(got) + 1  OBVIOUS
<1> PICK all : all = Append(porder, k)  OBVIOUS
<1> PICK s : s = [pv |-> q.pv, count |-> 1, responses |-> <<>>, notFound |-> <<>>]  OBVIOUS
<1>0. k \in Keys /\ q.pv \in PVs /\ f \in Frame  BY DEF Keys, PVs, Frame
<1>1. got' = Append(got, f) /\ pservers' = pservers  BY DEF PvaSearch, Applied
<1>2. /\ got' \in Seq(Frame)
      /\ SearchKeys' = SearchKeys \cup {k}
      /\ \A g : FromServer(g)' = FromServer(g)
      /\ \A x, found : AnswersTo(x, found)' = AnswersTo(x, found)
      /\ \A g : Given(g)' = Given(g)
      /\ \A i \in DOMAIN got : got'[i] = got[i]
  <2>1. f.kind = "search" /\ f.key = k /\ n = Len(got) + 1  OBVIOUS
  <2>2. got \in Seq(Frame)  BY DEF TableInv, TableTypes
  <2>3. /\ SearchKeys' = SearchKeys \cup {k} /\ \A g : FromServer(g)' = FromServer(g)
    <3>1. SearchKeys' = SearchKeys \cup (IF f.kind = "search" THEN {f.key} ELSE {})
      BY <1>0, <1>1, <2>1, <2>2, FramesGrow
    <3>2. \A g : FromServer(g)' = FromServer(g) \cup (IF f.kind # "search" /\ f.guid = g THEN {n} ELSE {})
      BY <1>0, <1>1, <2>1, <2>2, FramesGrow
    <3> QED  BY <2>1, <3>1, <3>2
  <2>4. /\ \A x, found : AnswersTo(x, found)' = AnswersTo(x, found) /\ \A g : Given(g)' = Given(g)
    <3>1. ASSUME NEW x, NEW found  PROVE AnswersTo(x, found)' = AnswersTo(x, found)
      <4>1. AnswersTo(x, found)' = AnswersTo(x, found) \cup
              (IF f.kind = "response" /\ f.key = x /\ f.found = found /\ x \in SearchKeys THEN {n} ELSE {})
        BY <1>0, <1>1, <2>1, <2>2, AnswersGrow
      <4> QED  BY <2>1, <4>1
    <3>2. ASSUME NEW g  PROVE Given(g)' = Given(g)
      <4>1. Given(g)' = Given(g) \cup
              (IF f.kind = "response" /\ f.guid = g /\ f.found = TRUE /\ f.key \in SearchKeys
               THEN {n} ELSE {})
        BY <1>0, <1>1, <2>1, <2>2, AnswersGrow
      <4> QED  BY <2>1, <4>1
    <3> QED  BY <3>1, <3>2
  <2>5. got' \in Seq(Frame) /\ \A i \in DOMAIN got : got'[i] = got[i]
    BY <1>0, <1>1, <2>2, Appended
  <2> QED  BY <2>3, <2>4, <2>5
<1>3. FirstSeen'
  <2>1. \A g, e : FirstFrom(g, e) => FirstFrom(g, e)'
    <3>1. \A g : FromServer(g) \subseteq DOMAIN got  BY DEF FromServer
    <3> QED  BY <1>2, <3>1 DEF FirstFrom
  <2> QED  BY <1>1, <1>2, <2>1 DEF TableInv, FirstSeen
<1>4. s \in Search  BY <1>0 DEF Search
<1>5. /\ ListOf(porder', Keys) /\ Len(porder') <= MaxSearches
      /\ DOMAIN psearch' = KeysOf(porder') /\ \A x \in DOMAIN psearch' : psearch'[x] \in Search
      /\ k \in DOMAIN psearch =>
           /\ DOMAIN psearch' = DOMAIN psearch /\ Len(porder') = Len(porder)
           /\ \A x \in DOMAIN psearch : /\ psearch'[x].pv = psearch[x].pv
                                        /\ psearch'[x].responses = psearch[x].responses
                                        /\ psearch'[x].notFound = psearch[x].notFound
      /\ k \notin DOMAIN psearch /\ Len(porder) < MaxSearches =>
           /\ DOMAIN psearch' = DOMAIN psearch \cup {k} /\ Len(porder') = Len(porder) + 1
           /\ psearch'[k] = s /\ \A x \in DOMAIN psearch : psearch'[x] = psearch[x]
  <2>0. /\ ListOf(porder, Keys) /\ Len(porder) <= MaxSearches /\ Len(porder) \in Nat /\ MaxSearches \in Nat
        /\ DOMAIN psearch = KeysOf(porder) /\ \A x \in DOMAIN psearch : psearch[x] \in Search
    BY SearchBound DEF TableInv, TableTypes, ListOf
  <2>1. CASE k \in DOMAIN psearch
    <3> DEFINE r == [psearch[k] EXCEPT !.count = @ + 1]
    <3>1. psearch' = [psearch EXCEPT ![k] = r] /\ porder' = porder
      BY <2>1 DEF PvaSearch
    <3>2. psearch[k] \in Search  BY <2>0, <2>1
    <3>3. /\ r \in Search /\ r.pv = psearch[k].pv /\ r.responses = psearch[k].responses
          /\ r.notFound = psearch[k].notFound
      BY <3>2 DEF Search
    <3> HIDE DEF r
    <3>4. DOMAIN psearch' = DOMAIN psearch /\ psearch'[k] = r
          /\ \A x \in DOMAIN psearch : x # k => psearch'[x] = psearch[x]
      BY <2>1, <3>1
    <3> QED  BY <2>0, <2>1, <3>1, <3>3, <3>4
  <2>2. CASE k \notin DOMAIN psearch
    <3>1. /\ ListOf(all, Keys) /\ KeysOf(all) = KeysOf(porder) \cup {k} /\ Len(all) = Len(porder) + 1
          /\ ListOf(Tail(all), Keys) /\ KeysOf(Tail(all)) = KeysOf(all) \ {Head(all)}
          /\ Len(Tail(all)) = Len(porder)
      <4>1. ListOf(porder, Keys) /\ k \in Keys /\ k \notin KeysOf(porder) /\ all = Append(porder, k)
        BY <1>0, <2>0, <2>2
      <4>2. ListOf(all, Keys) /\ ListOf(Tail(all), Keys)  BY <4>1, ListGrows
      <4>3. Len(all) = Len(porder) + 1 /\ Len(Tail(all)) = Len(porder)  BY <4>1, ListGrows
      <4>4. Lengthened(all, porder, k) /\ Shortened(Tail(all), all)  BY <4>1, ListGrows
      <4> QED  BY <4>2, <4>3, <4>4 DEF Lengthened, Shortened
    <3> DEFINE put == Put(psearch, k, s)
    <3>2. /\ DOMAIN put = DOMAIN psearch \cup {k} /\ put[k] = s
          /\ \A x \in DOMAIN psearch : x # k => put[x] = psearch[x]
      BY DEF Put
    <3>3. CASE Len(all) > MaxSearches
      <4>1. psearch' = Without(put, Head(all)) /\ porder' = Tail(all)
        BY <2>2, <3>3 DEF PvaSearch
      <4> HIDE DEF put
      <4>2. /\ DOMAIN psearch' = DOMAIN put \ {Head(all)}
            /\ \A x \in DOMAIN psearch' : psearch'[x] = put[x]
        BY <4>1 DEF Without
      <4>3. \A x \in DOMAIN psearch' : psearch'[x] \in Search
        BY <1>4, <2>0, <3>2, <4>2
      <4>4. ~(Len(porder) < MaxSearches)  BY <2>0, <3>1, <3>3
      <4> QED  BY <2>0, <2>2, <3>1, <3>2, <4>1, <4>2, <4>3, <4>4
    <3>4. CASE ~(Len(all) > MaxSearches)
      <4>1. psearch' = put /\ porder' = all
        BY <2>2, <3>4 DEF PvaSearch
      <4> HIDE DEF put
      <4>2. Len(all) <= MaxSearches  BY <2>0, <3>1, <3>4
      <4> QED  BY <1>4, <2>0, <2>2, <3>1, <3>2, <4>1, <4>2
    <3> QED  BY <3>3, <3>4
  <2> QED  BY <2>1, <2>2
<1>6. TableTypes'  BY <1>1, <1>2, <1>5 DEF TableTypes, TableInv
<1>7. AllKept'
  <2> SUFFICES ASSUME Few'
               PROVE  /\ DOMAIN psearch' = SearchKeys' /\ Len(porder') = Cardinality(SearchKeys')
                      /\ \A x \in DOMAIN psearch' : \A r : r = psearch'[x] => Exact(r, x)'
                      /\ \A g \in DOMAIN pservers :
                           /\ pservers[g].answers = Cardinality(Given(g))
                           /\ \A pv \in pservers[g].pvs : \E x \in DOMAIN psearch' : psearch'[x].pv = pv
    BY <1>1, <1>2 DEF AllKept, Exact
  <2>0. IsFiniteSet(SearchKeys) /\ Cardinality(SearchKeys) \in Nat /\ MaxSearches \in Nat
    BY FramesFinite, FS_CardinalityType, SearchBound DEF TableInv, TableTypes
  <2>1. \A x, r : Exact(r, x)' <=> Exact(r, x)  BY <1>2 DEF Exact
  <2>2. CASE k \in SearchKeys
    <3>1. SearchKeys' = SearchKeys  BY <1>2, <2>2
    <3>2. Few  BY <3>1 DEF Few
    <3>3. k \in DOMAIN psearch  BY <2>2, <3>2 DEF TableInv, AllKept
    <3>4. \A x \in DOMAIN psearch : Exact(psearch'[x], x)
      BY <1>5, <3>2, <3>3 DEF TableInv, AllKept, Exact
    <3>5. \A x \in DOMAIN psearch' : \A r : r = psearch'[x] => Exact(r, x)'
      BY <1>5, <2>1, <3>3, <3>4
    <3> QED  BY <1>5, <3>1, <3>2, <3>3, <3>5 DEF TableInv, AllKept
  <2>3. CASE k \notin SearchKeys
    <3>1. Cardinality(SearchKeys') = Cardinality(SearchKeys) + 1  BY <1>2, <2>0, <2>3, OneMore
    <3>2. Few /\ Cardinality(SearchKeys) < MaxSearches  BY <2>0, <3>1 DEF Few
    <3>3. k \notin DOMAIN psearch /\ Len(porder) < MaxSearches
      BY <2>3, <3>2 DEF TableInv, AllKept
    <3>4. Exact(s, k)
      <4>1. \A found : AnswersTo(k, found) = {}  BY <2>3 DEF AnswersTo, SearchKeys
      <4>2. Len(s.responses) = 0 /\ Len(s.notFound) = 0  OBVIOUS
      <4> QED  BY <4>1, <4>2, FS_EmptySet DEF Exact
    <3>5. \A x \in DOMAIN psearch' : Exact(psearch'[x], x)
      BY <1>5, <3>2, <3>3, <3>4 DEF TableInv, AllKept
    <3>6. \A x \in DOMAIN psearch' : \A r : r = psearch'[x] => Exact(r, x)'
      BY <2>1, <3>5
    <3>7. \A g \in DOMAIN pservers : \A pv \in pservers[g].pvs : \E x \in DOMAIN psearch' : psearch'[x].pv = pv
      BY <1>5, <3>2, <3>3 DEF TableInv, AllKept
    <3>8. \A g \in DOMAIN pservers : pservers[g].answers = Cardinality(Given(g))
      BY <3>2 DEF TableInv, AllKept
    <3>9. DOMAIN psearch' = SearchKeys' /\ Len(porder') = Cardinality(SearchKeys')
      BY <1>2, <1>5, <3>1, <3>2, <3>3 DEF TableInv, AllKept
    <3> QED  BY <3>6, <3>7, <3>8, <3>9
  <2> QED  BY <2>2, <2>3
<1> QED  BY <1>3, <1>6, <1>7 DEF TableInv

\* What a server sends is no search; the records are replaced by r and s.
LEMMA ServerFrame ==
  ASSUME TableInv, NEW f \in Frame, f.kind # "search", got' = Append(got, f), porder' = porder,
         NEW r \in Server, pservers' = Put(pservers, f.guid, r),
         r.addr = pvaServer(f.guid, f.addr).addr,
         DOMAIN psearch' = DOMAIN psearch,
         \A k \in DOMAIN psearch : psearch'[k] \in Search /\ psearch'[k].pv = psearch[k].pv,
         ASSUME Few
         PROVE  /\ \A k \in DOMAIN psearch : \A s : s = psearch'[k] => Exact(s, k)'
                /\ \A g \in Guids \ {f.guid} : Given(g)' = Given(g)
                /\ \A g : g = f.guid => r.answers = Cardinality(Given(g)')
                /\ \A pv \in r.pvs : \/ \E k \in DOMAIN psearch : psearch[k].pv = pv
                                     \/ f.guid \in DOMAIN pservers /\ pv \in pservers[f.guid].pvs
  PROVE  TableInv'
<1> PICK n : n = Len(got) + 1  OBVIOUS
<1>0. TableTypes /\ FirstSeen /\ got \in Seq(Frame)  BY DEF TableInv, TableTypes
<1>1. got' \in Seq(Frame)  BY <1>0, Appended
<1>2. SearchKeys' = SearchKeys
  <2>1. SearchKeys' = SearchKeys \cup (IF f.kind = "search" THEN {f.key} ELSE {})
    BY <1>0, FramesGrow
  <2> QED  BY <2>1
<1>3. /\ DOMAIN pservers' \subseteq Guids /\ IsFiniteSet(DOMAIN pservers')
      /\ \A g \in DOMAIN pservers' : pservers'[g] \in Server
      /\ FirstSeen'
  BY <1>0, ServerStep
<1>4. TableTypes'  BY <1>0, <1>1, <1>3 DEF TableTypes
<1>5. ASSUME Few'
      PROVE  /\ DOMAIN psearch' = SearchKeys' /\ Len(porder') = Cardinality(SearchKeys')
             /\ \A k \in DOMAIN psearch' : \A s : s = psearch'[k] => Exact(s, k)'
             /\ \A g \in DOMAIN pservers' :
                  /\ pservers'[g].answers = Cardinality(Given(g)')
                  /\ \A pv \in pservers'[g].pvs : \E k \in DOMAIN psearch' : psearch'[k].pv = pv
  <2>1. Few  BY <1>2, <1>5 DEF Few
  <2>2. /\ \A k \in DOMAIN psearch : \A s : s = psearch'[k] => Exact(s, k)'
        /\ \A g \in Guids \ {f.guid} : Given(g)' = Given(g)
        /\ \A g : g = f.guid => r.answers = Cardinality(Given(g)')
        /\ \A pv \in r.pvs : \/ \E k \in DOMAIN psearch : psearch[k].pv = pv
                             \/ f.guid \in DOMAIN pservers /\ pv \in pservers[f.guid].pvs
    BY <2>1
  <2>3. /\ DOMAIN pservers' = DOMAIN pservers \cup {f.guid} /\ pservers'[f.guid] = r
        /\ \A g \in DOMAIN pservers : g # f.guid => pservers'[g] = pservers[g]
    BY DEF Put
  <2>4. /\ \A g \in DOMAIN pservers : pservers[g].answers = Cardinality(Given(g))
        /\ \A g \in DOMAIN pservers : \A pv \in pservers[g].pvs : \E k \in DOMAIN psearch : psearch[k].pv = pv
        /\ DOMAIN psearch = SearchKeys /\ Len(porder) = Cardinality(SearchKeys)
    BY <2>1 DEF TableInv, AllKept
  <2>5. ASSUME NEW g \in DOMAIN pservers'  PROVE pservers'[g].answers = Cardinality(Given(g)')
    <3>1. CASE g = f.guid  BY <2>2, <2>3, <3>1
    <3>2. CASE g # f.guid
      <4>1. g \in DOMAIN pservers /\ g \in Guids \ {f.guid}  BY <1>3, <2>3, <3>2
      <4>2. Given(g)' = Given(g)  BY <2>2, <4>1
      <4> QED  BY <2>3, <2>4, <3>2, <4>1, <4>2
    <3> QED  BY <3>1, <3>2
  <2>6. ASSUME NEW g \in DOMAIN pservers', NEW pv \in pservers'[g].pvs
        PROVE  \E k \in DOMAIN psearch' : psearch'[k].pv = pv
    <3>1. \E k \in DOMAIN psearch : psearch[k].pv = pv
      <4>1. CASE g = f.guid  BY <2>2, <2>3, <2>4, <2>6, <4>1
      <4>2. CASE g # f.guid  BY <2>3, <2>4, <2>6, <4>2
      <4> QED  BY <4>1, <4>2
    <3> QED  BY <3>1
  <2> QED  BY <1>2, <2>2, <2>4, <2>5, <2>6
<1>6. AllKept'  BY <1>5 DEF AllKept, Exact
<1> QED  BY <1>3, <1>4, <1>6 DEF TableInv

\* What is counted of no answer.
LEMMA NothingGiven ==
  ASSUME TableInv, NEW g \in Guids, g \notin DOMAIN pservers
  PROVE  Cardinality(Given(g)) = 0
<1>1. FromServer(g) = {}  BY DEF TableInv, FirstSeen
<1>2. Given(g) \subseteq FromServer(g)  BY DEF Given, Frames, FromServer
<1> QED  BY <1>1, <1>2, FS_EmptySet

\* The record of a server before its frame.
LEMMA ServerBefore ==
  ASSUME TableInv, NEW g \in Guids, NEW e \in Endpoints
  PROVE  /\ pvaServer(g, e) \in Server
         /\ Few => pvaServer(g, e).answers = Cardinality(Given(g))
         /\ \A pv \in pvaServer(g, e).pvs : g \in DOMAIN pservers /\ pv \in pservers[g].pvs
<1>1. pvaServer(g, e) \in Server  BY ServerType DEF TableInv
<1>2. CASE g \in DOMAIN pservers
  <2>1. pvaServer(g, e) = pservers[g]  BY <1>2 DEF pvaServer
  <2> QED  BY <1>1, <1>2, <2>1 DEF TableInv, AllKept
<1>3. CASE g \notin DOMAIN pservers
  <2>1. pvaServer(g, e).answers = 0 /\ pvaServer(g, e).pvs = {}  BY <1>3 DEF pvaServer
  <2> QED  BY <1>1, <1>3, <2>1, NothingGiven
<1> QED  BY <1>2, <1>3

LEMMA BeaconStep ==
  ASSUME TableInv, NEW g \in Guids, NEW e \in Endpoints, PvaBeacon(g, e)
  PROVE  TableInv'
<1> PICK f : f = [kind |-> "beacon", guid |-> g, addr |-> e]  OBVIOUS
<1> PICK n : n = Len(got) + 1  OBVIOUS
<1> PICK srv : srv = pvaServer(g, e)  OBVIOUS
<1> PICK r : r = [srv EXCEPT !.beacons = @ + 1]  OBVIOUS
<1>1. f \in Frame /\ f.kind = "beacon" /\ f.guid = g /\ f.addr = e  BY DEF Frame
<1>2. /\ got' = Append(got, f) /\ pservers' = Put(pservers, g, r) /\ psearch' = psearch /\ porder' = porder
      /\ got \in Seq(Frame)
  BY DEF PvaBeacon, Applied, TableInv, TableTypes
<1>3. srv \in Server  BY ServerBefore
<1>4. r \in Server /\ r.addr = srv.addr /\ r.answers = srv.answers /\ r.pvs = srv.pvs
  BY <1>3 DEF Server
<1>5. \A k, found : AnswersTo(k, found)' = AnswersTo(k, found)
  <2> SUFFICES ASSUME NEW k, NEW found  PROVE AnswersTo(k, found)' = AnswersTo(k, found)
    OBVIOUS
  <2>1. AnswersTo(k, found)' = AnswersTo(k, found) \cup
          (IF f.kind = "response" /\ f.key = k /\ f.found = found /\ k \in SearchKeys THEN {n} ELSE {})
    BY <1>1, <1>2, AnswersGrow
  <2> QED  BY <1>1, <2>1
<1>6. \A h : Given(h)' = Given(h)
  <2> SUFFICES ASSUME NEW h  PROVE Given(h)' = Given(h)
    OBVIOUS
  <2>1. Given(h)' = Given(h) \cup
          (IF f.kind = "response" /\ f.guid = h /\ f.found = TRUE /\ f.key \in SearchKeys THEN {n} ELSE {})
    BY <1>1, <1>2, AnswersGrow
  <2> QED  BY <1>1, <2>1
<1>7. ASSUME Few
      PROVE  /\ \A k \in DOMAIN psearch : \A s : s = psearch'[k] => Exact(s, k)'
             /\ \A h \in Guids \ {f.guid} : Given(h)' = Given(h)
             /\ \A h : h = f.guid => r.answers = Cardinality(Given(h)')
             /\ \A pv \in r.pvs : \/ \E k \in DOMAIN psearch : psearch[k].pv = pv
                                  \/ f.guid \in DOMAIN pservers /\ pv \in pservers[f.guid].pvs
  <2>1. \A k \in DOMAIN psearch : Exact(psearch[k], k)  BY <1>7 DEF TableInv, AllKept
  <2>2. \A s, k : Exact(s, k)' <=> Exact(s, k)  BY <1>5 DEF Exact
  <2>3. \A k \in DOMAIN psearch : \A s : s = psearch'[k] => Exact(s, k)'  BY <1>2, <2>1, <2>2
  <2>4. r.answers = Cardinality(Given(g))  BY <1>4, <1>7, ServerBefore
  <2>5. \A pv \in r.pvs : g \in DOMAIN pservers /\ pv \in pservers[g].pvs  BY <1>4, ServerBefore
  <2> QED  BY <1>1, <1>6, <2>3, <2>4, <2>5
<1>8. \A k \in DOMAIN psearch : psearch'[k] \in Search /\ psearch'[k].pv = psearch[k].pv
  BY <1>2 DEF TableInv, TableTypes
<1> QED  BY <1>1, <1>2, <1>4, <1>7, <1>8, ServerFrame

\* An answer is added to the record of its search, if that is listed.
Recorded(k, g, found) ==
  IF k \notin DOMAIN psearch THEN psearch
  ELSE IF found THEN [psearch EXCEPT ![k].responses = Append(@, g)]
  ELSE [psearch EXCEPT ![k].notFound = Append(@, g)]

LEMMA AnsweredRecord ==
  ASSUME TableInv, NEW k, NEW g \in Guids, NEW found \in BOOLEAN,
         psearch' = Recorded(k, g, found)
  PROVE  /\ DOMAIN psearch' = DOMAIN psearch
         /\ \A x \in DOMAIN psearch :
              /\ psearch'[x] \in Search /\ psearch'[x].pv = psearch[x].pv
              /\ Len(psearch'[x].responses) =
                   Len(psearch[x].responses) + (IF x = k /\ found THEN 1 ELSE 0)
              /\ Len(psearch'[x].notFound) =
                   Len(psearch[x].notFound) + (IF x = k /\ ~found THEN 1 ELSE 0)
<1>0. \A x \in DOMAIN psearch : psearch[x] \in Search  BY DEF TableInv, TableTypes
<1>1. \A s \in Search : Len(s.responses) \in Nat /\ Len(s.notFound) \in Nat  BY DEF Search
<1>2. CASE k \notin DOMAIN psearch
  <2>1. psearch' = psearch  BY <1>2 DEF Recorded
  <2>2. \A x \in DOMAIN psearch :
          /\ x # k /\ psearch[x] \in Search
          /\ Len(psearch[x].responses) \in Nat /\ Len(psearch[x].notFound) \in Nat
    BY <1>0, <1>1, <1>2
  <2>3. \A x \in DOMAIN psearch : /\ Len(psearch[x].responses) + 0 = Len(psearch[x].responses)
                                  /\ Len(psearch[x].notFound) + 0 = Len(psearch[x].notFound)
    BY <2>2
  <2> QED  BY <2>1, <2>2, <2>3
<1>3. ASSUME k \in DOMAIN psearch, NEW r, psearch' = [psearch EXCEPT ![k] = r],
             r \in Search, r.pv = psearch[k].pv,
             Len(r.responses) = Len(psearch[k].responses) + (IF found THEN 1 ELSE 0),
             Len(r.notFound) = Len(psearch[k].notFound) + (IF ~found THEN 1 ELSE 0)
      PROVE  /\ DOMAIN psearch' = DOMAIN psearch
             /\ \A x \in DOMAIN psearch :
                  /\ psearch'[x] \in Search /\ psearch'[x].pv = psearch[x].pv
                  /\ Len(psearch'[x].responses) =
                       Len(psearch[x].responses) + (IF x = k /\ found THEN 1 ELSE 0)
                  /\ Len(psearch'[x].notFound) =
                       Len(psearch[x].notFound) + (IF x = k /\ ~found THEN 1 ELSE 0)
  <2>1. DOMAIN psearch' = DOMAIN psearch /\ psearch'[k] = r
        /\ \A x \in DOMAIN psearch : x # k => psearch'[x] = psearch[x]
    BY <1>3
  <2>2. ASSUME NEW x \in DOMAIN psearch, x # k
        PROVE  /\ psearch'[x] = psearch[x] /\ psearch[x] \in Search
               /\ Len(psearch[x].responses) \in Nat /\ Len(psearch[x].notFound) \in Nat
    BY <1>0, <1>1, <2>1, <2>2
  <2>3. ASSUME NEW x \in DOMAIN psearch, x # k
        PROVE  /\ Len(psearch[x].responses) + 0 = Len(psearch[x].responses)
               /\ Len(psearch[x].notFound) + 0 = Len(psearch[x].notFound)
    BY <2>2, <2>3
  <2>4. ASSUME NEW x \in DOMAIN psearch
        PROVE  /\ psearch'[x] \in Search /\ psearch'[x].pv = psearch[x].pv
               /\ Len(psearch'[x].responses) =
                    Len(psearch[x].responses) + (IF x = k /\ found THEN 1 ELSE 0)
               /\ Len(psearch'[x].notFound) =
                    Len(psearch[x].notFound) + (IF x = k /\ ~found THEN 1 ELSE 0)
    <3>1. CASE x = k  BY <1>3, <2>1, <3>1
    <3>2. CASE x # k  BY <2>2, <2>3, <3>2
    <3> QED  BY <3>1, <3>2
  <2> QED  BY <2>1, <2>4
<1>4. CASE k \in DOMAIN psearch
  <2> PICK r1 : r1 = [psearch[k] EXCEPT !.responses = Append(@, g)]  OBVIOUS
  <2> PICK r2 : r2 = [psearch[k] EXCEPT !.notFound = Append(@, g)]  OBVIOUS
  <2>1. psearch[k] \in Search  BY <1>0, <1>4
  <2>6. /\ psearch[k].responses \in Seq(Guids) /\ psearch[k].notFound \in Seq(Guids)
        /\ psearch[k].pv \in PVs /\ psearch[k].count \in Nat
    BY <2>1 DEF Search
  <2>7. ASSUME NEW t \in Seq(Guids)
        PROVE  Append(t, g) \in Seq(Guids) /\ Len(Append(t, g)) = Len(t) + 1 /\ Len(t) + 0 = Len(t)
    OBVIOUS
  <2>8. /\ r1.responses = Append(psearch[k].responses, g) /\ r1.notFound = psearch[k].notFound
        /\ r2.notFound = Append(psearch[k].notFound, g) /\ r2.responses = psearch[k].responses
        /\ r1.pv = psearch[k].pv /\ r2.pv = psearch[k].pv
    BY <2>1 DEF Search
  <2>9. ASSUME NEW t \in Seq(Guids)
        PROVE  /\ [psearch[k] EXCEPT !.responses = t] \in Search
               /\ [psearch[k] EXCEPT !.notFound = t] \in Search
    BY <2>1 DEF Search
  <2>2. /\ r1 \in Search /\ r1.pv = psearch[k].pv
        /\ Len(r1.responses) = Len(psearch[k].responses) + 1
        /\ Len(r1.notFound) = Len(psearch[k].notFound) + 0
    BY <2>6, <2>7, <2>8, <2>9
  <2>3. /\ r2 \in Search /\ r2.pv = psearch[k].pv
        /\ Len(r2.responses) = Len(psearch[k].responses) + 0
        /\ Len(r2.notFound) = Len(psearch[k].notFound) + 1
    BY <2>6, <2>7, <2>8, <2>9
  <2>4. CASE found
    <3>1. psearch' = [psearch EXCEPT ![k] = r1]  BY <1>4, <2>4 DEF Recorded
    <3> QED  BY <1>3, <1>4, <2>2, <2>4, <3>1
  <2>5. CASE ~found
    <3>1. psearch' = [psearch EXCEPT ![k] = r2]  BY <1>4, <2>5 DEF Recorded
    <3> QED  BY <1>3, <1>4, <2>3, <2>5, <3>1
  <2> QED  BY <2>4, <2>5
<1> QED  BY <1>2, <1>4

LEMMA ResponseStep ==
  ASSUME TableInv, NEW g \in Guids, NEW e \in Endpoints, NEW q \in Queries, NEW found \in BOOLEAN,
         PvaResponse(g, e, q, found)
  PROVE  TableInv'
<1> PICK k : k = q.key  OBVIOUS
<1> PICK n : n = Len(got) + 1  OBVIOUS
<1> PICK srv : srv = pvaServer(g, e)  OBVIOUS
<1>1. PICK f \in Frame :
        /\ f.kind = "response" /\ f.guid = g /\ f.addr = e /\ f.key = k /\ f.found = found
        /\ got' = Append(got, f)
  <2> DEFINE f == [kind |-> "response", key |-> k, guid |-> g, addr |-> e, found |-> found]
  <2>1. f \in Frame  BY DEF Frame, Keys
  <2>2. got' = Append(got, f)  BY DEF PvaResponse, Applied
  <2>3. /\ f.kind = "response" /\ f.guid = g /\ f.addr = e /\ f.key = k /\ f.found = found
    OBVIOUS
  <2> HIDE DEF f
  <2> QED  BY <2>1, <2>2, <2>3
<1>2. got' = Append(got, f) /\ porder' = porder /\ got \in Seq(Frame)
  BY <1>1 DEF PvaResponse, TableInv, TableTypes
<1>3. srv \in Server  BY ServerBefore
<1>4. /\ DOMAIN psearch' = DOMAIN psearch
      /\ \A x \in DOMAIN psearch :
           /\ psearch'[x] \in Search /\ psearch'[x].pv = psearch[x].pv
           /\ Len(psearch'[x].responses) =
                Len(psearch[x].responses) + (IF x = k /\ found THEN 1 ELSE 0)
           /\ Len(psearch'[x].notFound) =
                Len(psearch[x].notFound) + (IF x = k /\ ~found THEN 1 ELSE 0)
  <2>1. psearch' = Recorded(k, g, found)
    BY DEF PvaResponse, Recorded
  <2> QED  BY <2>1, AnsweredRecord
<1>5. PICK r \in Server :
        /\ pservers' = Put(pservers, g, r) /\ r.addr = srv.addr
        /\ r.answers = srv.answers + (IF k \in DOMAIN psearch /\ found THEN 1 ELSE 0)
        /\ r.pvs = srv.pvs \cup (IF k \in DOMAIN psearch /\ found THEN {psearch[k].pv} ELSE {})
  <2>1. CASE k \in DOMAIN psearch /\ found
    <3> PICK r : r = [srv EXCEPT !.answers = @ + 1, !.pvs = @ \cup {psearch[k].pv}]  OBVIOUS
    <3>1. pservers' = Put(pservers, g, r)  BY <2>1 DEF PvaResponse
    <3>2. psearch[k] \in Search  BY <2>1 DEF TableInv, TableTypes
    <3>3. psearch[k].pv \in PVs  BY <3>2 DEF Search
    <3>4. /\ r \in Server /\ r.addr = srv.addr /\ r.answers = srv.answers + 1
          /\ r.pvs = srv.pvs \cup {psearch[k].pv}
      <4> PICK x : x = srv.answers + 1  OBVIOUS
      <4> PICK y : y = srv.pvs \cup {psearch[k].pv}  OBVIOUS
      <4>1. x \in Nat /\ y \in SUBSET PVs
        BY <1>3, <3>3 DEF Server
      <4>2. [srv EXCEPT !.answers = x, !.pvs = y] \in Server
        BY <1>3, <4>1 DEF Server
      <4>3. r = [srv EXCEPT !.answers = x, !.pvs = y]
        BY <1>3 DEF Server
      <4>4. r.addr = srv.addr /\ r.answers = srv.answers + 1 /\ r.pvs = srv.pvs \cup {psearch[k].pv}
        BY <1>3, <4>3 DEF Server
      <4> QED  BY <4>1, <4>2, <4>3, <4>4
    <3> QED  BY <2>1, <3>1, <3>4
  <2>2. CASE ~(k \in DOMAIN psearch /\ found)
    <3>1. pservers' = Put(pservers, g, srv)  BY <2>2 DEF PvaResponse
    <3>2. srv.answers + 0 = srv.answers /\ srv.pvs \cup {} = srv.pvs  BY <1>3 DEF Server
    <3> QED  BY <1>3, <2>2, <3>1, <3>2
  <2> QED  BY <2>1, <2>2
<1>6. ASSUME Few
      PROVE  /\ \A x \in DOMAIN psearch : \A s : s = psearch'[x] => Exact(s, x)'
             /\ \A h \in Guids \ {f.guid} : Given(h)' = Given(h)
             /\ \A h : h = f.guid => r.answers = Cardinality(Given(h)')
             /\ \A pv \in r.pvs : \/ \E x \in DOMAIN psearch : psearch[x].pv = pv
                                  \/ f.guid \in DOMAIN pservers /\ pv \in pservers[f.guid].pvs
  <2>1. DOMAIN psearch = SearchKeys /\ \A x \in DOMAIN psearch : Exact(psearch[x], x)
    BY <1>6 DEF TableInv, AllKept
  <2>2. /\ \A x, b : IsFiniteSet(AnswersTo(x, b)) /\ n \notin AnswersTo(x, b)
        /\ \A h : IsFiniteSet(Given(h)) /\ n \notin Given(h)
    BY <1>1, <1>2, FramesFinite, AnswersGrow
  <2>10. ASSUME NEW x, NEW b
         PROVE  AnswersTo(x, b)' = AnswersTo(x, b) \cup
                  (IF f.kind = "response" /\ f.key = x /\ f.found = b /\ x \in SearchKeys
                   THEN {n} ELSE {})
    <3>1. got' = Append(got, f) /\ got \in Seq(Frame) /\ n = Len(got) + 1  BY <1>2
    <3> QED  BY <3>1, AnswersGrow
  <2>3. ASSUME NEW x \in DOMAIN psearch, NEW b
        PROVE  /\ Cardinality(AnswersTo(x, b)) \in Nat
               /\ Cardinality(AnswersTo(x, b)') =
                    Cardinality(AnswersTo(x, b)) + (IF x = k /\ found = b THEN 1 ELSE 0)
    <3>1. AnswersTo(x, b)' = AnswersTo(x, b) \cup
            (IF f.kind = "response" /\ f.key = x /\ f.found = b /\ x \in SearchKeys THEN {n} ELSE {})
      BY <2>10
    <3>2. CASE x = k /\ found = b
      <4>1. AnswersTo(x, b)' = AnswersTo(x, b) \cup {n}  BY <1>1, <2>1, <3>1, <3>2
      <4> QED  BY <2>2, <3>2, <4>1, OneMore
    <3>3. CASE ~(x = k /\ found = b)
      <4>1. AnswersTo(x, b)' = AnswersTo(x, b)  BY <1>1, <3>1, <3>3
      <4>2. Cardinality(AnswersTo(x, b)) \in Nat  BY <2>2, FS_CardinalityType
      <4> QED  BY <3>3, <4>1, <4>2
    <3> QED  BY <3>2, <3>3
  <2>4. ASSUME NEW x \in DOMAIN psearch, NEW s, s = psearch'[x]  PROVE Exact(s, x)'
    <3>1. Exact(psearch[x], x)  BY <2>1
    <3>2. Len(s.responses) = Cardinality(AnswersTo(x, TRUE)')
      <4>1. Cardinality(AnswersTo(x, TRUE)') =
              Cardinality(AnswersTo(x, TRUE)) + (IF x = k /\ found THEN 1 ELSE 0)
        BY <2>3
      <4> QED  BY <1>4, <2>4, <3>1, <4>1 DEF Exact
    <3>3. Len(s.notFound) = Cardinality(AnswersTo(x, FALSE)')
      <4>1. Cardinality(AnswersTo(x, FALSE)') =
              Cardinality(AnswersTo(x, FALSE)) + (IF x = k /\ ~found THEN 1 ELSE 0)
        BY <2>3
      <4> QED  BY <1>4, <2>4, <3>1, <4>1 DEF Exact
    <3> QED  BY <3>2, <3>3 DEF Exact
  <2>5. ASSUME NEW h
        PROVE  Given(h)' = Given(h) \cup
                 (IF f.kind = "response" /\ f.guid = h /\ f.found = TRUE /\ f.key \in SearchKeys
                  THEN {n} ELSE {})
    BY <1>1, <1>2, AnswersGrow, ZenonT(30)
  <2>6. \A h \in Guids \ {f.guid} : Given(h)' = Given(h)  BY <2>5
  <2>7. srv.answers = Cardinality(Given(g)) /\ srv.answers \in Nat
    BY <1>3, <1>6, ServerBefore DEF Server
  <2>8. r.answers = Cardinality(Given(g)')
    <3>1. CASE k \in DOMAIN psearch /\ found
      <4>1. Given(g)' = Given(g) \cup {n}  BY <1>1, <2>1, <2>5, <3>1
      <4>2. Cardinality(Given(g) \cup {n}) = Cardinality(Given(g)) + 1  BY <2>2, OneMore
      <4> QED  BY <1>5, <2>7, <3>1, <4>1, <4>2
    <3>2. CASE ~(k \in DOMAIN psearch /\ found)
      <4>1. Given(g)' = Given(g)  BY <1>1, <2>1, <2>5, <3>2
      <4> QED  BY <1>5, <2>7, <3>2, <4>1
    <3> QED  BY <3>1, <3>2
  <2>9. ASSUME NEW pv \in r.pvs
        PROVE  \/ \E x \in DOMAIN psearch : psearch[x].pv = pv
               \/ g \in DOMAIN pservers /\ pv \in pservers[g].pvs
    <3>1. \A v \in srv.pvs : g \in DOMAIN pservers /\ v \in pservers[g].pvs  BY ServerBefore
    <3> QED  BY <1>5, <2>9, <3>1
  <2> QED  BY <1>1, <2>4, <2>6, <2>8, <2>9
<1> QED  BY <1>1, <1>2, <1>4, <1>5, <1>6, ServerFrame

-----------------------------------------------------------------------------

LEMMA TableInductive == TableInv /\ [Next]_vars => TableInv'
<1> SUFFICES ASSUME TableInv, [Next]_vars  PROVE TableInv'
  OBVIOUS
<1>1. CASE UNCHANGED <<got, tableVars>>
  <2>1. got' = got /\ psearch' = psearch /\ porder' = porder /\ pservers' = pservers
    BY <1>1 DEF tableVars
  <2>2. TableTypes'  BY <2>1 DEF TableInv, TableTypes
  <2>3. FirstSeen'  BY <2>1 DEF TableInv, FirstSeen, FirstFrom, FromServer
  <2>4. /\ \A k, found : AnswersTo(k, found)' = AnswersTo(k, found)
        /\ SearchKeys' = SearchKeys
    BY <2>1 DEF AnswersTo, SearchKeys, Frames
  <2>5. \A g : Given(g)' = Given(g)  BY <2>1, <2>4 DEF Given, Frames
  <2>6. AllKept'  BY <2>1, <2>4, <2>5 DEF TableInv, AllKept, Few, Exact
  <2> QED  BY <2>2, <2>3, <2>6 DEF TableInv
<1>2. CASE \E q \in Queries : PvaSearch(q)  BY <1>2, SearchStep
<1>3. CASE \E g \in Guids, e \in Endpoints, q \in Queries, found \in BOOLEAN : PvaResponse(g, e, q, found)
  BY <1>3, ResponseStep
<1>4. CASE \E g \in Guids, e \in Endpoints : PvaBeacon(g, e)  BY <1>4, BeaconStep
<1> QED
  BY <1>1, <1>2, <1>3, <1>4
  DEF Next, vars, rest, WindowEnds, WindowFails, Cancel, Confirm, Send, Sent, Answer, Finish,
      Deadline, SearchFails, Interrupted

LEMMA RestartReason == TableInv => RestartExact
<1> SUFFICES ASSUME TableInv, NEW e \in Endpoints
             PROVE  Restarted(e) <=> \E g, h \in Guids : g # h /\ FirstFrom(g, e) /\ FirstFrom(h, e)
  BY DEF RestartExact
<1>1. \A g \in DOMAIN pservers : g \in Guids /\ FirstFrom(g, pservers[g].addr)
  BY DEF TableInv, TableTypes, FirstSeen
<1>2. ASSUME NEW g \in Guids, FirstFrom(g, e)  PROVE g \in DOMAIN pservers /\ pservers[g].addr = e
  <2>1. PICK i \in FromServer(g) : got[i].addr = e /\ \A j \in FromServer(g) : i <= j
    BY <1>2 DEF FirstFrom
  <2>2. g \in DOMAIN pservers  BY <2>1 DEF TableInv, FirstSeen
  <2>3. PICK h \in FromServer(g) : got[h].addr = pservers[g].addr /\ \A j \in FromServer(g) : h <= j
    BY <1>1, <2>2 DEF FirstFrom
  <2>4. i \in Int /\ h \in Int
    <3>1. got \in Seq(Frame) /\ FromServer(g) \subseteq DOMAIN got
      BY DEF TableInv, TableTypes, FromServer
    <3> QED  BY <3>1
  <2>5. i <= h /\ h <= i  BY <2>1, <2>3
  <2>6. i = h  BY <2>4, <2>5
  <2> QED  BY <2>1, <2>2, <2>3, <2>6
<1>3. PICK S : S = {g \in DOMAIN pservers : pservers[g].addr = e}  OBVIOUS
<1>4. IsFiniteSet(S)
  <2>1. IsFiniteSet(DOMAIN pservers) /\ S \subseteq DOMAIN pservers  BY <1>3 DEF TableInv, TableTypes
  <2> QED  BY <2>1, FS_Subset
<1>5. Restarted(e) <=> Cardinality(S) > 1  BY <1>3 DEF Restarted
<1>6. Cardinality(S) > 1 <=> \E g, h \in S : g # h  BY <1>4, TwoElements
<1>7. \A g : g \in S <=> g \in Guids /\ FirstFrom(g, e)  BY <1>1, <1>2, <1>3
<1> QED  BY <1>5, <1>6, <1>7

LEMMA AnswersReason == TableInv => AnswersExact /\ NothingSeenExplained
<1> SUFFICES ASSUME TableInv  PROVE AnswersExact /\ NothingSeenExplained
  OBVIOUS
<1>0. /\ Cardinality(SearchKeys) \in Nat /\ MaxSearches \in Nat
      /\ \A k, found : IsFiniteSet(AnswersTo(k, found))
  BY FramesFinite, FS_CardinalityType, SearchBound DEF TableInv, TableTypes
<1>1. ASSUME Few
      PROVE  /\ \A k \in DOMAIN psearch :
                  /\ Len(psearch[k].responses) = Cardinality(AnswersTo(k, TRUE))
                  /\ Unanswered(psearch[k]) => AnswersTo(k, TRUE) \cup AnswersTo(k, FALSE) = {}
             /\ \A g \in DOMAIN pservers :
                  pservers[g].answers =
                    Cardinality({i \in UNION {AnswersTo(k, TRUE) : k \in DOMAIN psearch} : got[i].guid = g})
  <2>1. /\ DOMAIN psearch = SearchKeys /\ \A k \in DOMAIN psearch : Exact(psearch[k], k)
        /\ \A g \in DOMAIN pservers : pservers[g].answers = Cardinality(Given(g))
    BY <1>1 DEF TableInv, AllKept
  <2>2. ASSUME NEW k \in DOMAIN psearch, Unanswered(psearch[k])
        PROVE  AnswersTo(k, TRUE) = {} /\ AnswersTo(k, FALSE) = {}
    <3>1. Len(psearch[k].responses) = 0 /\ Len(psearch[k].notFound) = 0  BY <2>2 DEF Unanswered
    <3>2. Cardinality(AnswersTo(k, TRUE)) = 0 /\ Cardinality(AnswersTo(k, FALSE)) = 0
      BY <2>1, <3>1 DEF Exact
    <3> QED  BY <1>0, <3>2, FS_EmptySet
  <2>3. \A g : {i \in UNION {AnswersTo(k, TRUE) : k \in DOMAIN psearch} : got[i].guid = g} = Given(g)
    <3>1. \A k : AnswersTo(k, TRUE) \subseteq Frames("response")  BY DEF AnswersTo
    <3> QED  BY <2>1, <3>1 DEF Given
  <2> QED  BY <2>1, <2>2, <2>3 DEF Exact
<1>2. ASSUME SearchesFor = {}, ServerClaims # {}  PROVE Cardinality(SearchKeys) > MaxSearches
  <2> SUFFICES ASSUME Few  PROVE FALSE  BY <1>0 DEF Few
  <2>1. PICK g \in DOMAIN pservers : Name \in pservers[g].pvs  BY <1>2 DEF ServerClaims
  <2>2. PICK k \in DOMAIN psearch : psearch[k].pv = Name  BY <2>1 DEF TableInv, AllKept
  <2>3. psearch[k] \in Listed  BY DEF Listed, TableInv, TableTypes, KeysOf
  <2> QED  BY <1>2, <2>2, <2>3 DEF SearchesFor
<1> QED  BY <1>1, <1>2 DEF AnswersExact, NothingSeenExplained, Few

\* What the passive window is reported to show is what was seen: restarts,
\* answers and unanswered searches, and that nothing was seen of the name.
THEOREM WindowIsExact == Spec => []WindowExact
<1>1. SearchTypes /\ TableInv => TypeOK
  <2> SUFFICES ASSUME SearchTypes, TableInv  PROVE TypeOK
    OBVIOUS
  <2>1. DOMAIN psearch = {porder[i] : i \in DOMAIN porder} /\ Len(porder) <= MaxSearches
    BY DEF TableInv, TableTypes, KeysOf
  <2> QED  BY <2>1 DEF TypeOK, SearchTypes, TableInv, TableTypes
<1>2. SearchTypes /\ TableInv => WindowExact
  BY <1>1, RestartReason, AnswersReason DEF WindowExact
<1> QED
  BY <1>2, InitWhole, SearchInductive, InitTable, TableInductive, PTL DEF Spec

=============================================================================
