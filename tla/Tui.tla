-------------------------------- MODULE Tui --------------------------------
(***************************************************************************)
(* cmd/wirepup/cmd_tui.go and internal/tui/tui.go: the terminal interface. *)
(* One goroutine applies packets to the device table and adds their events *)
(* to the model of the screen, one reads keys, and the main loop selects   *)
(* among keys, a redraw ticker, a ticker for the rules and the end of the  *)
(* context.  A document is read from the table in parts, each under the    *)
(* lock of the table, and nothing holds the lock between the parts.        *)
(* A packet brings a device that claims the one address of the model, so   *)
(* that a part of a document is known by the number of packets it saw.     *)
(* What a line says is left out; how many lines a view has is not.         *)
(***************************************************************************)
EXTENDS Naturals, Sequences

CONSTANTS
  MaxEvents,    \* maxEvents of tui.go
  KeyBuffer,    \* the capacity of the channel of keys
  Body,         \* rows of the screen between header and footer
  Page,         \* lines the space key scrolls
  Typeable,     \* bounds of the model: the keys that are tried,
  MaxPackets,   \* packets captured,
  MaxKeys       \* and keys typed

ASSUME BoundsTyped == {MaxEvents, KeyBuffer, Body, Page} \subseteq Nat \ {0}

Views == 1..5   \* devices, events, EPICS, interfaces, diagnosis
Digits == <<"1", "2", "3", "4", "5">>
Keys == {"quit", "tab", "down", "up", "page", "refresh", "other"} \cup {Digits[v] : v \in Views}
NoKey == "none"
ASSUME TypeableTyped == Typeable \subseteq Keys
NoDoc == [devices |-> 0, conflicts |-> 0]

VARIABLES
  live,         \* no capture file (g.pcap)
  cancelled,    \* the context ended: a signal, or --timeout
  capture,      \* the capturing goroutine: "packet", "events", "ended"
  applied, togo, \* packets the table knows, events still to be added
  logged,       \* the events added so far, each known by its number
  typed, stdin, reading, keys, handled,
  loop,         \* the main loop
  part,         \* the devices read for the document in the making
  model,        \* [view, scroll, events, devices, diagnosis, stats, quit]
  screen        \* what the terminal shows

captureVars == <<capture, applied, togo, logged>>
keyVars == <<typed, stdin, reading, keys, handled>>
loopVars == <<loop, part, screen>>
vars == <<live, cancelled, captureVars, keyVars, loopVars, model>>

New ==
  [view |-> 1, scroll |-> [v \in Views |-> 0], events |-> <<>>,
   devices |-> NoDoc, diagnosis |-> NoDoc, stats |-> "", quit |-> FALSE]

Init ==
  /\ live \in BOOLEAN /\ cancelled = FALSE
  /\ capture = "packet" /\ applied = 0 /\ togo = 0 /\ logged = 0
  /\ typed = <<>> /\ stdin = "open" /\ reading = NoKey /\ keys = <<>> /\ handled = 0
  /\ loop = "start" /\ part = 0 /\ screen = <<>>
  /\ model = New

-----------------------------------------------------------------------------
(* The capturing goroutine.                                                *)

\* The process ends with its main loop.
Elsewhere == loop # "done" /\ UNCHANGED loopVars

\* A packet is applied to the table, then its observations are added one
\* by one: say, the two messages of a Channel Access datagram.
Packet ==
  /\ capture = "packet" /\ applied < MaxPackets
  /\ applied' = applied + 1 /\ togo' = 2 /\ capture' = "events"
  /\ Elsewhere /\ UNCHANGED <<live, cancelled, logged, keyVars, model>>

Kept(events) ==
  IF Len(events) > MaxEvents THEN SubSeq(events, Len(events) - MaxEvents + 1, Len(events)) ELSE events

AddEvent ==
  /\ capture = "events"
  /\ model' = [model EXCEPT !.events = Kept(Append(@, logged + 1))]
  /\ logged' = logged + 1
  /\ togo' = togo - 1
  /\ capture' = IF togo = 1 THEN "packet" ELSE "events"
  /\ Elsewhere /\ UNCHANGED <<live, cancelled, applied, keyVars>>

\* The file is read, the context over, or the live source failed.
SourceEnds ==
  /\ capture = "packet" /\ (live \/ cancelled \/ applied = MaxPackets)
  /\ capture' = "ended"
  /\ model' = [model EXCEPT !.stats = "source ended"]
  /\ Elsewhere /\ UNCHANGED <<live, cancelled, applied, togo, logged, keyVars>>

-----------------------------------------------------------------------------
(* The keyboard and its reader.                                            *)

\* The keys under way from the terminal to the main loop, oldest first.
pending == keys \o (IF reading = NoKey THEN <<>> ELSE <<reading>>) \o typed

Type(k) ==
  /\ stdin = "open" /\ handled + Len(pending) < MaxKeys
  /\ typed' = Append(typed, k)
  /\ Elsewhere /\ UNCHANGED <<live, cancelled, captureVars, stdin, reading, keys, handled, model>>

Cancel ==
  /\ ~cancelled /\ cancelled' = TRUE
  /\ Elsewhere /\ UNCHANGED <<live, captureVars, keyVars, model>>

Read ==
  /\ stdin = "open" /\ reading = NoKey /\ typed # <<>>
  /\ reading' = Head(typed) /\ typed' = Tail(typed)
  /\ Elsewhere /\ UNCHANGED <<live, cancelled, captureVars, stdin, keys, handled, model>>

ReadFails ==
  /\ stdin = "open" /\ reading = NoKey /\ typed = <<>>
  /\ stdin' = "ended"
  /\ Elsewhere /\ UNCHANGED <<live, cancelled, captureVars, typed, reading, keys, handled, model>>

Send ==
  /\ reading # NoKey /\ Len(keys) < KeyBuffer
  /\ keys' = Append(keys, reading) /\ reading' = NoKey
  /\ Elsewhere /\ UNCHANGED <<live, cancelled, captureVars, typed, stdin, handled, model>>

-----------------------------------------------------------------------------
(* The main loop.                                                          *)

Goes(from, to) == loop = from /\ loop' = to /\ UNCHANGED <<live, cancelled, captureVars>>

Quit(m) == [m EXCEPT !.quit = TRUE]

HandleKey(m, k) ==
  CASE k = "quit" -> Quit(m)
    [] k = "tab" -> [m EXCEPT !.view = (@ % 5) + 1]
    [] \E v \in Views : k = Digits[v] -> [m EXCEPT !.view = CHOOSE v \in Views : k = Digits[v]]
    [] k = "down" -> [m EXCEPT !.scroll[m.view] = @ + 1]
    [] k = "up" -> [m EXCEPT !.scroll[m.view] = IF @ > 0 THEN @ - 1 ELSE 0]
    [] k = "page" -> [m EXCEPT !.scroll[m.view] = @ + Page]
    [] k = "refresh" -> [m EXCEPT !.scroll[m.view] = 0]
    [] OTHER -> m

Done == Goes("select", "done") /\ cancelled /\ UNCHANGED <<part, screen, keyVars, model>>

Key ==
  /\ keys # <<>>
  /\ Goes("select", IF Head(keys) = "other" THEN "select" ELSE "draw")
  /\ model' = HandleKey(model, Head(keys))
  /\ handled' = handled + 1 /\ keys' = Tail(keys)
  /\ UNCHANGED <<typed, stdin, reading, part, screen>>

\* refresh: DevicesFrom reads the devices, then the conflicts.
Redraw ==
  /\ Goes("select", "conflicts") \/ Goes("start", "conflicts")
  /\ part' = applied
  /\ UNCHANGED <<screen, keyVars, model>>

\* Mutant: the conflicts are read before the devices.
SetDevicesSwapped ==
  /\ Goes("conflicts", "stats")
  /\ model' = [model EXCEPT !.devices = [devices |-> applied, conflicts |-> part]]
  /\ part' = 0 /\ UNCHANGED <<screen, keyVars>>

SetDevices ==
  /\ Goes("conflicts", "stats")
  /\ model' = [model EXCEPT !.devices = [devices |-> part, conflicts |-> applied]]
  /\ part' = 0 /\ UNCHANGED <<screen, keyVars>>

\* Mutant: the counters replace the note of a file as well.
SetStatsAlways ==
  /\ Goes("stats", IF screen = <<>> THEN "first rules" ELSE "draw")
  /\ model' = [model EXCEPT !.stats = "received"]
  /\ UNCHANGED <<part, screen, keyVars>>

SetStats ==
  /\ Goes("stats", IF screen = <<>> THEN "first rules" ELSE "draw")
  /\ model' = IF live THEN [model EXCEPT !.stats = "received"] ELSE model
  /\ UNCHANGED <<part, screen, keyVars>>

\* Mutant: the rules run once, before the first screen.
RulesOnce ==
  /\ Goes("first rules", "rules")
  /\ part' = applied
  /\ UNCHANGED <<screen, keyVars, model>>

\* RunAll reads the devices, then the conflicts.
Rules ==
  /\ Goes("select", "rules") \/ Goes("first rules", "rules")
  /\ part' = applied
  /\ UNCHANGED <<screen, keyVars, model>>

SetDiagnosis ==
  /\ Goes("rules", IF screen = <<>> THEN "draw" ELSE "select")
  /\ model' = [model EXCEPT !.diagnosis = [devices |-> part, conflicts |-> applied]]
  /\ part' = 0 /\ UNCHANGED <<screen, keyVars>>

\* The lines of a view: titles, one line for each item, notes of absence;
\* the address is in conflict when two devices claim it.
Conflict(doc) == IF doc.conflicts > 1 THEN 1 ELSE 0
OrOne(n) == IF n = 0 THEN 1 ELSE n
deviceLines(doc) == 1 + OrOne(doc.devices) + 3 * Conflict(doc)
eventLines(events) == OrOne(Len(events))
epicsLines == 8
interfaceLines == 2
diagnosisLines(doc) == 3 * 4 + 1 + doc.devices + Conflict(doc)

content(m) ==
  CASE m.view = 1 -> deviceLines(m.devices)
    [] m.view = 2 -> eventLines(m.events)
    [] m.view = 3 -> epicsLines
    [] m.view = 4 -> interfaceLines
    [] OTHER -> diagnosisLines(m.diagnosis)

Clamped(scroll, total) == IF scroll > total THEN total ELSE scroll

\* Render and Screen: the screen shows lines off + 1 to off + Body of the content.
Draw ==
  /\ Goes("draw", IF model.quit THEN "done" ELSE "select")
  /\ LET total == content(model)
         off == Clamped(model.scroll[model.view], total) IN
       /\ model' = [model EXCEPT !.scroll[model.view] = off]
       /\ screen' = [total |-> total, off |-> off]
  /\ UNCHANGED <<part, keyVars>>

Loop == Redraw \/ SetDevices \/ SetStats \/ Rules \/ SetDiagnosis \/ Draw

Next ==
  \/ Packet \/ AddEvent \/ SourceEnds
  \/ (\E k \in Typeable : Type(k)) \/ Cancel \/ Read \/ ReadFails \/ Send
  \/ Done \/ Key \/ Loop

\* The reader of the keys and the main loop run.  select chooses at random
\* among the cases that are ready, and so takes a case that is ready again
\* and again.
Fairness ==
  /\ WF_vars(Read \/ Send)
  /\ WF_vars(SetDevices \/ SetStats \/ SetDiagnosis \/ Draw)
  /\ SF_vars(Redraw) /\ SF_vars(Rules) /\ SF_vars(Key) /\ SF_vars(Done)

Spec == Init /\ [][Next]_vars /\ Fairness

-----------------------------------------------------------------------------
(* Properties.                                                             *)

\* The state is of its type, and the channel holds no more than it can.
TypeOK ==
  /\ capture \in {"packet", "events", "ended"} /\ togo \in 0..2
  /\ Len(keys) <= KeyBuffer /\ reading \in Keys \cup {NoKey}
  /\ loop \in {"start", "conflicts", "stats", "first rules", "rules", "draw", "select", "done"}
  /\ model.view \in Views /\ model.scroll \in [Views -> Nat]
  /\ Len(model.events) <= MaxEvents

\* The ring holds the latest events, in the order in which they were seen.
EventsAreLatest ==
  LET kept == IF logged < MaxEvents THEN logged ELSE MaxEvents IN
    model.events = [i \in 1..kept |-> logged - kept + i]

\* A part of a document that was read later is not older: a conflict may
\* name a device the list still lacks, never the other way round.
PartsInOrder ==
  \A doc \in {model.devices, model.diagnosis} :
    doc.devices <= doc.conflicts /\ doc.conflicts <= applied

\* No key is lost or overtaken between the terminal and the loop, though
\* the terminal, the reader and the channel each hold some of them.
KeysInOrder ==
  [][\/ pending' = pending
     \/ \E k \in Keys : pending' = Append(pending, k)
     \/ pending' = Tail(pending) /\ loop = "select"]_vars

\* After a draw the scroll is within the content, so that the next key up
\* moves the page; a page is empty only at the very end of the content.
ScrollWithinContent ==
  screen # <<>> =>
    /\ screen.off <= screen.total
    /\ {i \in 1..screen.total : screen.off < i /\ i <= screen.off + Body} = {} <=> screen.off = screen.total

\* The note that a capture file has ended stays.
EndNoteKept == [][~live /\ model.stats = "source ended" => model'.stats = "source ended"]_vars

\* A quit key that was typed ends the interface, unless the terminal closes
\* before it is read, and so does the end of the context.
QuitEnds ==
  cancelled \/ (stdin = "open" /\ \E i \in DOMAIN typed : typed[i] = "quit") ~> loop = "done"

\* When the source has ended, the screen comes to show all the table holds,
\* line for line, in whichever view it is.
ScreenCatchesUp ==
  LET all == [devices |-> applied, conflicts |-> applied] IN
    capture = "ended" ~>
      \/ loop = "done"
      \/ /\ model.devices = all /\ model.diagnosis = all
         /\ screen # <<>> /\ screen.total = content(model)

\* What the model holds is in order, and the screen shows a page of it.
ScreenSound == TypeOK /\ EventsAreLatest /\ PartsInOrder /\ ScrollWithinContent

\* What a step may never undo: a key under way, the note that a file ended.
NothingUndone == KeysInOrder /\ EndNoteKept

\* The interface answers: it ends when it is told to, and shows what came.
InterfaceAnswers == QuitEnds /\ ScreenCatchesUp
=============================================================================
