----------------------------- MODULE EpicsFind -----------------------------
(***************************************************************************)
(* cmd/wirepup/cmd_epics.go: "epics find" for one PV name.  A passive      *)
(* window feeds the PVAccess half of internal/device/epics.go (Discovery   *)
(* has the Channel Access half), which internal/diagnose/rules.go and      *)
(* passiveFindReport read.  With --active, internal/active/ca.go and       *)
(* pva.go then send one datagram for each destination and collect answers  *)
(* until a deadline, first by Channel Access, then by PVAccess.            *)
(* A PVA server is known by its GUID, which is new whenever it starts.     *)
(* The search reads nothing of the window, so that the model runs either:  *)
(* a command with both has the findings of both and the exit of the search.*)
(***************************************************************************)
EXTENDS Naturals, Sequences, FiniteSets

CONSTANTS
  Guids, Endpoints,  \* PVA servers, and the addresses they may have
  Queries,           \* [key, pv]: key is client, sequence and instance id
  Name,              \* the name that is looked for
  MaxSearches,       \* maxSearches of epics.go
  MaxFrames,         \* bound of the model: frames captured
  Answering,         \* servers that may answer the active search
  Hosting,           \* those that host the name
  Destinations,      \* destinations of the active search
  Reach              \* the servers a destination reaches

ASSUME ReachTyped == Reach \in [Destinations -> SUBSET Answering] /\ Hosting \subseteq Answering
ASSUME SearchBound == MaxSearches \in Nat \ {0}

VARIABLES
  got,         \* the frames applied to the table
  psearch, porder, pservers,   \* the table
  step,        \* where the command stands
  active, queried,             \* --active, --search
  cancelled,
  unsent,      \* destinations without a datagram
  flight,      \* datagrams and answers under way: [server, dest, answer]
  responses, notFound,         \* of CASearch and PVASearch
  firstErr, exit,
  whole        \* history: the searches that sent all and waited to the end

tableVars == <<psearch, porder, pservers>>
optionVars == <<active, queried>>
searchVars == <<unsent, flight, responses, notFound, firstErr, whole>>
vars == <<got, tableVars, optionVars, searchVars, step, cancelled, exit>>

Protos == {"ca", "pva"}
Empty == [x \in {} |-> 0]

Init ==
  /\ got = <<>>
  /\ psearch = Empty /\ porder = <<>> /\ pservers = Empty
  /\ active \in BOOLEAN
  /\ queried \in IF active THEN (SUBSET Protos) \ {{}} ELSE {Protos}
  /\ step = (IF active THEN "confirm" ELSE "window") /\ cancelled = FALSE
  /\ unsent = Destinations /\ flight = {}
  /\ responses = [p \in Protos |-> {}] /\ notFound = [p \in Protos |-> {}]
  /\ firstErr = FALSE /\ exit = "none" /\ whole = {}

-----------------------------------------------------------------------------
(* The passive window.  A server may have moved since its last frame.      *)

Applied(f) ==
  /\ step = "window" /\ Len(got) < MaxFrames
  /\ got' = Append(got, f)
  /\ UNCHANGED <<optionVars, searchVars, step, cancelled, exit>>

Put(f, k, v) == [x \in DOMAIN f \cup {k} |-> IF x = k THEN v ELSE f[x]]

Without(f, k) == [x \in DOMAIN f \ {k} |-> f[x]]

\* applyPVA: the searches listed are the latest ones.
PvaSearch(q) ==
  /\ Applied([kind |-> "search", key |-> q.key, pv |-> q.pv])
  /\ IF q.key \in DOMAIN psearch
     THEN psearch' = [psearch EXCEPT ![q.key].count = @ + 1] /\ porder' = porder
     ELSE LET s == [pv |-> q.pv, count |-> 1, responses |-> <<>>, notFound |-> <<>>]
              all == Append(porder, q.key)
          IN IF Len(all) > MaxSearches
             THEN /\ psearch' = Without(Put(psearch, q.key, s), Head(all))
                  /\ porder' = Tail(all)
             ELSE psearch' = Put(psearch, q.key, s) /\ porder' = all
  /\ UNCHANGED pservers

\* Mutant: the address of a known server follows it.
pvaServerMoved(g, e) ==
  IF g \in DOMAIN pservers THEN [pservers[g] EXCEPT !.addr = e]
  ELSE [addr |-> e, answers |-> 0, beacons |-> 0, pvs |-> {}]

pvaServer(g, e) ==
  IF g \in DOMAIN pservers THEN pservers[g]
  ELSE [addr |-> e, answers |-> 0, beacons |-> 0, pvs |-> {}]

PvaResponse(g, e, q, found) ==
  /\ Applied([kind |-> "response", key |-> q.key, guid |-> g, addr |-> e, found |-> found])
  /\ LET srv == pvaServer(g, e)
         known == q.key \in DOMAIN psearch IN
       /\ psearch' = IF ~known THEN psearch
                     ELSE IF found THEN [psearch EXCEPT ![q.key].responses = Append(@, g)]
                     ELSE [psearch EXCEPT ![q.key].notFound = Append(@, g)]
       /\ pservers' = Put(pservers, g,
            IF known /\ found THEN [srv EXCEPT !.answers = @ + 1, !.pvs = @ \cup {psearch[q.key].pv}] ELSE srv)
  /\ UNCHANGED porder

PvaBeacon(g, e) ==
  /\ Applied([kind |-> "beacon", guid |-> g, addr |-> e])
  /\ pservers' = Put(pservers, g, [pvaServer(g, e) EXCEPT !.beacons = @ + 1])
  /\ UNCHANGED <<psearch, porder>>

\* PVASearches: the records in order, those still listed.
Listed == {psearch[porder[i]] : i \in DOMAIN porder}

\* passiveFindReport, its PVA half.
SearchesFor == {s \in Listed : s.pv = Name}
ServerClaims == {g \in DOMAIN pservers : Name \in pservers[g].pvs}

\* pvaRules
Unanswered(s) == s.responses = <<>> /\ s.notFound = <<>>
MultipleServers(s) == Len(s.responses) > 1
Restarted(e) == Cardinality({g \in DOMAIN pservers : pservers[g].addr = e}) > 1

\* findWindow ends, and the report is made.
WindowEnds ==
  /\ step = "window"
  /\ step' = "over" /\ exit' = IF SearchesFor = {} THEN "not observed" ELSE "ok"
  /\ UNCHANGED <<got, tableVars, optionVars, searchVars, cancelled>>

\* The source cannot be opened, or fails.
WindowFails ==
  /\ step = "window" /\ got = <<>>
  /\ step' = "over" /\ exit' = "error"
  /\ UNCHANGED <<got, tableVars, optionVars, searchVars, cancelled>>

-----------------------------------------------------------------------------
(* The active search.                                                      *)

rest == <<got, tableVars, optionVars>>

Cancel ==
  /\ ~cancelled /\ step # "over" /\ active
  /\ cancelled' = TRUE
  /\ UNCHANGED <<rest, searchVars, step, exit>>

\* searchDestinations and confirm.
Confirm ==
  /\ step = "confirm"
  /\ \/ /\ ~cancelled
        /\ step' = IF "ca" \in queried THEN "ca send" ELSE "pva send"
        /\ exit' = exit
     \/ step' = "over" /\ exit' \in {"usage", "error"}
  /\ UNCHANGED <<rest, searchVars, cancelled>>

proto == IF step \in {"ca send", "ca wait"} THEN "ca" ELSE "pva"
Sending == step \in {"ca send", "pva send"}
Waiting == step \in {"ca wait", "pva wait"}

\* One datagram for each destination; each reaches its servers, or not.
Send(d) ==
  /\ Sending /\ ~cancelled /\ d \in unsent
  /\ unsent' = unsent \ {d}
  /\ \E R \in SUBSET Reach[d] : flight' = flight \cup {[server |-> v, dest |-> d] : v \in R}
  /\ UNCHANGED <<rest, responses, notFound, firstErr, whole, step, cancelled, exit>>

Sent ==
  /\ Sending /\ unsent = {}
  /\ step' = IF proto = "ca" THEN "ca wait" ELSE "pva wait"
  /\ UNCHANGED <<rest, searchVars, cancelled, exit>>

Answer(a) ==
  /\ Waiting
  /\ flight' = flight \ {a}
  /\ IF a.server \in Hosting
     THEN responses' = [responses EXCEPT ![proto] = @ \cup {a}] /\ notFound' = notFound
     ELSE notFound' = [notFound EXCEPT ![proto] = @ \cup {a}] /\ responses' = responses
  /\ UNCHANGED <<rest, unsent, firstErr, whole, step, cancelled, exit>>

\* Answers that count, and the last word of runEPICSFind.
Answers == responses["ca"] \cup responses["pva"]
Verdict(err) == IF err THEN "error" ELSE IF Answers = {} THEN "not observed" ELSE "ok"

\* Mutant: a search without an answer is sent again.
FinishRetry(err) ==
  /\ firstErr' = err
  /\ flight' = {} /\ unsent' = Destinations
  /\ IF proto = "ca" /\ "pva" \in queried /\ ~cancelled
     THEN step' = "pva send" /\ exit' = exit
     ELSE IF Answers = {} /\ ~err /\ ~cancelled
          THEN step' = (IF proto = "ca" THEN "ca send" ELSE "pva send") /\ exit' = exit
     ELSE step' = "over" /\ exit' = Verdict(err)
  /\ UNCHANGED <<rest, responses, notFound, cancelled>>

\* The socket is closed; PVA follows CA unless the context ended.
Finish(err) ==
  /\ firstErr' = err
  /\ flight' = {}
  /\ IF proto = "ca" /\ "pva" \in queried /\ ~cancelled
     THEN step' = "pva send" /\ unsent' = Destinations /\ exit' = exit
     ELSE step' = "over" /\ unsent' = unsent /\ exit' = Verdict(err)
  /\ UNCHANGED <<rest, responses, notFound, cancelled>>

\* Mutant: the end of the context is not looked at after the search.
DeadlineUncut ==
  /\ Waiting
  /\ whole' = IF cancelled THEN whole ELSE whole \cup {proto}
  /\ Finish(firstErr)

\* The wait is over, at its deadline or because the context ended.
Deadline ==
  /\ Waiting
  /\ whole' = IF cancelled THEN whole ELSE whole \cup {proto}
  /\ Finish(firstErr \/ cancelled)

\* A send or a receive fails; what was already sent is not listened for.
SearchFails ==
  /\ Sending \/ Waiting
  /\ Finish(TRUE)
  /\ UNCHANGED whole

\* The context ended between two sends.
Interrupted ==
  /\ Sending /\ cancelled /\ unsent # {}
  /\ Finish(TRUE)
  /\ UNCHANGED whole

Next ==
  \/ (\E q \in Queries : PvaSearch(q))
  \/ (\E g \in Guids, e \in Endpoints, q \in Queries, found \in BOOLEAN : PvaResponse(g, e, q, found))
  \/ (\E g \in Guids, e \in Endpoints : PvaBeacon(g, e))
  \/ WindowEnds \/ WindowFails \/ Cancel \/ Confirm
  \/ (\E d \in Destinations : Send(d)) \/ Sent
  \/ (\E a \in flight : Answer(a))
  \/ Deadline \/ SearchFails \/ Interrupted

\* Datagrams are sent without waiting, and deadlines come.
Spec ==
  /\ Init /\ [][Next]_vars
  /\ WF_vars(\E d \in Destinations : Send(d)) /\ WF_vars(Sent)
  /\ WF_vars(Deadline) /\ WF_vars(Interrupted)

-----------------------------------------------------------------------------
(* Properties.                                                             *)

Steps == {"window", "confirm", "ca send", "ca wait", "pva send", "pva wait", "over"}
Answered == [server : Answering, dest : Destinations]

\* The state is of its type; the map and the list of searches agree, and
\* are within their limit.
TypeOK ==
  /\ step \in Steps /\ exit \in {"none", "ok", "not observed", "usage", "error"}
  /\ DOMAIN psearch = {porder[i] : i \in DOMAIN porder} /\ Len(porder) <= MaxSearches
  /\ DOMAIN pservers \subseteq Guids
  /\ unsent \subseteq Destinations /\ flight \subseteq Answered /\ whole \subseteq Protos
  /\ {responses, notFound} \subseteq [Protos -> SUBSET Answered]

Frames(kind) == {i \in DOMAIN got : got[i].kind = kind}
FromServer(g) == {i \in DOMAIN got : got[i].kind # "search" /\ got[i].guid = g}
FirstFrom(g, e) == \E i \in FromServer(g) : got[i].addr = e /\ \A j \in FromServer(g) : i <= j
SearchKeys == {got[i].key : i \in Frames("search")}

\* A restart at an address is reported exactly when two GUIDs were first
\* seen there: a server that moved elsewhere counts, and one that moved to
\* the address does not.
RestartExact ==
  \A e \in Endpoints :
    Restarted(e) <=> \E g, h \in Guids : g # h /\ FirstFrom(g, e) /\ FirstFrom(h, e)

\* The answers to the search with this key that came after its first copy.
AnswersTo(k, found) ==
  {i \in Frames("response") : got[i].key = k /\ got[i].found = found
                             /\ \E j \in Frames("search") : got[j].key = k /\ j < i}

\* While no search had to leave the list, a search has the answers that
\* were seen after it, copies included, and a server those it gave; a
\* search called unanswered had none, not even that the name is unknown.
AnswersExact ==
  Cardinality(SearchKeys) <= MaxSearches =>
    /\ \A k \in DOMAIN psearch :
         /\ Len(psearch[k].responses) = Cardinality(AnswersTo(k, TRUE))
         /\ Unanswered(psearch[k]) => AnswersTo(k, TRUE) \cup AnswersTo(k, FALSE) = {}
    /\ \A g \in DOMAIN pservers :
         pservers[g].answers =
           Cardinality({i \in UNION {AnswersTo(k, TRUE) : k \in DOMAIN psearch} : got[i].guid = g})

\* "Nothing was seen of the name" beside a server that claims it means that
\* more searches were made than the table lists.
NothingSeenExplained ==
  SearchesFor = {} /\ ServerClaims # {} => Cardinality(SearchKeys) > MaxSearches

\* The search says that the name was found, or not, only when every
\* datagram was sent and every wait came to its end; an interrupt in the
\* last wait, which CASearch and PVASearch do not report, is an error.
VerdictWhole == active /\ exit \in {"ok", "not observed"} => whole = queried

\* What the observation window is reported to show.
WindowExact == TypeOK /\ RestartExact /\ AnswersExact /\ NothingSeenExplained

\* A search that was confirmed ends; it is not repeated.
FindEnds == Sending ~> step = "over"
=============================================================================
