------------------------------ MODULE TuiProof ------------------------------
(***************************************************************************)
(* Theorems about Tui, for every size of the ring of events, of the        *)
(* channel of keys and of the screen, and any number of packets and keys.  *)
(***************************************************************************)
EXTENDS Tui, TLAPS

Notes == {"", "received", "source ended"}
Docs == [devices : Nat, conflicts : Nat]
Models ==
  [view : Views, scroll : [Views -> Nat], events : Seq(Nat),
   devices : Docs, diagnosis : Docs, stats : Notes, quit : BOOLEAN]
Loops == {"start", "conflicts", "stats", "first rules", "rules", "draw", "select", "done"}

\* The captured part, the keys, the loop, and the model that they share.
CaptureTyped ==
  /\ capture \in {"packet", "events", "ended"} /\ togo \in 0..2
  /\ capture = "events" => togo # 0
  /\ applied \in Nat /\ logged \in Nat
KeysTyped ==
  /\ typed \in Seq(Keys) /\ keys \in Seq(Keys) /\ reading \in Keys \cup {NoKey}
  /\ handled \in Nat /\ Len(keys) <= KeyBuffer
LoopTyped == loop \in Loops /\ part \in Nat /\ part <= applied
ModelTyped == live \in BOOLEAN /\ model \in Models

\* What the screen shows is a page of some content.
Shown == screen # <<>> => screen \in [total : Nat, off : Nat] /\ screen.off <= screen.total

Inv == CaptureTyped /\ KeysTyped /\ LoopTyped /\ ModelTyped /\ Shown /\ EventsAreLatest /\ PartsInOrder

-----------------------------------------------------------------------------
(* The operators.                                                          *)

\* A key changes what is looked at, and nothing that came from the capture.
LEMMA HandleKeyKeeps ==
  ASSUME NEW m \in Models, NEW k \in Keys
  PROVE  LET n == HandleKey(m, k) IN
           /\ n \in Models /\ n.events = m.events /\ n.devices = m.devices
           /\ n.diagnosis = m.diagnosis /\ n.stats = m.stats
<1> USE BoundsTyped DEF Models, Docs
<1> DEFINE n == HandleKey(m, k)
<1>1. CASE k = "quit"
  <2>1. ~ \E v \in Views : k = Digits[v]  BY <1>1 DEF Views, Digits
  <2>2. n = [m EXCEPT !.quit = TRUE]  BY <1>1, <2>1 DEF HandleKey, Quit
  <2> QED  BY <2>2
<1>2. CASE k = "tab"
  <2>1. ~ \E v \in Views : k = Digits[v]  BY <1>2 DEF Views, Digits
  <2>2. n = [m EXCEPT !.view = (m.view % 5) + 1]  BY <1>2, <2>1 DEF HandleKey
  <2>3. (m.view % 5) + 1 \in Views  BY DEF Views
  <2> QED  BY <2>2, <2>3
<1>3. CASE \E v \in Views : k = Digits[v]
  <2>1. PICK v \in Views : k = Digits[v]  BY <1>3
  <2>2. k \notin {"quit", "tab", "down", "up", "page", "refresh"}  BY SMTT(30), <2>1 DEF Views, Digits
  <2>3. n = [m EXCEPT !.view = CHOOSE w \in Views : k = Digits[w]]  BY <1>3, <2>2 DEF HandleKey
  <2>4. (CHOOSE w \in Views : k = Digits[w]) \in Views  BY <1>3
  <2> QED  BY <2>3, <2>4
<1>4. CASE k \in {"down", "up", "page", "refresh"}
  <2>1. ~ \E v \in Views : k = Digits[v]  BY <1>4 DEF Views, Digits
  <2>2. PICK s \in Nat : n = [m EXCEPT !.scroll[m.view] = s]
    <3>1. m.view \in Views /\ m.scroll \in [Views -> Nat] /\ m.scroll[m.view] \in Nat  OBVIOUS
    <3>2. CASE k = "down"
      <4>1. n = [m EXCEPT !.scroll[m.view] = m.scroll[m.view] + 1]  BY <3>2, <2>1 DEF HandleKey
      <4>2. m.scroll[m.view] + 1 \in Nat  BY <3>1
      <4> QED  BY <4>1, <4>2
    <3>3. CASE k = "up"
      <4>1. n = [m EXCEPT !.scroll[m.view] = IF m.scroll[m.view] > 0 THEN m.scroll[m.view] - 1 ELSE 0]
        BY <3>3, <2>1 DEF HandleKey
      <4>2. (IF m.scroll[m.view] > 0 THEN m.scroll[m.view] - 1 ELSE 0) \in Nat  BY <3>1
      <4> QED  BY <4>1, <4>2
    <3>4. CASE k = "page"
      <4>1. n = [m EXCEPT !.scroll[m.view] = m.scroll[m.view] + Page]  BY <3>4, <2>1 DEF HandleKey
      <4>2. m.scroll[m.view] + Page \in Nat  BY <3>1
      <4> QED  BY <4>1, <4>2
    <3>5. CASE k = "refresh"
      <4>1. n = [m EXCEPT !.scroll[m.view] = 0]  BY <3>5, <2>1 DEF HandleKey
      <4> QED  BY <4>1
    <3> QED  BY <1>4, <3>2, <3>3, <3>4, <3>5
  <2>3. [m.scroll EXCEPT ![m.view] = s] \in [Views -> Nat]  OBVIOUS
  <2> QED  BY <2>2, <2>3
<1>5. CASE k = "other"
  <2>1. ~ \E v \in Views : k = Digits[v]  BY <1>5 DEF Views, Digits
  <2>2. n = m  BY <1>5, <2>1 DEF HandleKey
  <2> QED  BY <2>2
<1> QED  BY <1>1, <1>2, <1>3, <1>4, <1>5 DEF Keys

\* The latest of n events, and the ring after one more event.
LatestOf(n, k) == [i \in 1..k |-> n - k + i]
Latest(n) == LatestOf(n, IF n < MaxEvents THEN n ELSE MaxEvents)

LEMMA RingGrows ==
  ASSUME NEW n \in Nat, NEW k \in 0..n, k <= MaxEvents, k = n \/ k = MaxEvents,
         NEW ring \in Seq(Nat), ring = LatestOf(n, k)
  PROVE  Kept(Append(ring, n + 1)) = Latest(n + 1)
<1> DEFINE long == Append(ring, n + 1)
<1>1. MaxEvents \in Nat /\ MaxEvents >= 1 /\ k \in Nat /\ k <= n  BY BoundsTyped
<1>2. Len(ring) = k /\ \A i \in 1..k : ring[i] = n - k + i  BY <1>1 DEF LatestOf
<1>3. long \in Seq(Nat) /\ Len(long) = k + 1  BY <1>2
<1>4. \A i \in 1..(k + 1) : long[i] = n - k + i  BY <1>1, <1>2
<1>5. CASE k < MaxEvents
  <2>1. k = n /\ Latest(n + 1) = LatestOf(n + 1, k + 1)
    <3>1. k = n  BY <1>1, <1>5
    <3>2. (IF n + 1 < MaxEvents THEN n + 1 ELSE MaxEvents) = k + 1  BY <1>1, <1>5, <3>1
    <3> QED  BY <3>1, <3>2 DEF Latest
  <2>2. Kept(long) = long  BY <1>1, <1>3, <1>5 DEF Kept
  <2>3. \A i \in 1..(k + 1) : n - k + i = n + 1 - (k + 1) + i  BY <1>1
  <2> HIDE DEF long
  <2>4. long = [i \in 1..(k + 1) |-> long[i]]  BY <1>3
  <2>5. long = LatestOf(n + 1, k + 1)  BY <1>4, <2>3, <2>4 DEF LatestOf
  <2> QED  BY <2>1, <2>2, <2>5 DEF long
<1>6. CASE k = MaxEvents
  <2>1. Latest(n + 1) = LatestOf(n + 1, k)
    <3>1. (IF n + 1 < MaxEvents THEN n + 1 ELSE MaxEvents) = k  BY <1>1, <1>6
    <3> QED  BY <3>1 DEF Latest
  <2>2. Len(long) > MaxEvents /\ Len(long) - MaxEvents + 1 = 2  BY <1>1, <1>3, <1>6
  <2>3. Kept(long) = SubSeq(long, 2, k + 1)  BY <1>3, <2>2 DEF Kept
  <2>4. \A i \in 1..k : long[i + 1] = n + 1 - k + i
    <3> TAKE i \in 1..k
    <3>1. i + 1 \in 1..(k + 1) /\ n - k + (i + 1) = n + 1 - k + i  BY <1>1
    <3> QED  BY <1>4, <3>1
  <2> HIDE DEF long
  <2>5. SubSeq(long, 2, k + 1) = [i \in 1..k |-> long[i + 1]]  BY <1>1, <1>3
  <2>6. [i \in 1..k |-> long[i + 1]] = [i \in 1..k |-> n + 1 - k + i]  BY <2>4
  <2>7. LatestOf(n + 1, k) = [i \in 1..k |-> n + 1 - k + i]  BY DEF LatestOf
  <2> QED  BY <2>1, <2>3, <2>5, <2>6, <2>7 DEF long
<1> QED  BY <1>1, <1>5, <1>6

LEMMA ContentCounts ==
  ASSUME NEW m \in Models
  PROVE  content(m) \in Nat
<1>1. Len(m.events) \in Nat /\ m.devices \in Docs /\ m.diagnosis \in Docs  BY DEF Models
<1>2. ASSUME NEW d \in Docs  PROVE Conflict(d) \in Nat /\ d.devices \in Nat  BY DEF Conflict, Docs
<1>3. ASSUME NEW n \in Nat  PROVE OrOne(n) \in Nat  BY DEF OrOne
<1>4. deviceLines(m.devices) \in Nat
  <2>1. Conflict(m.devices) \in Nat /\ OrOne(m.devices.devices) \in Nat  BY <1>1, <1>2, <1>3
  <2> QED  BY <2>1 DEF deviceLines
<1>5. eventLines(m.events) \in Nat  BY <1>1, <1>3 DEF eventLines
<1>6. diagnosisLines(m.diagnosis) \in Nat  BY <1>1, <1>2 DEF diagnosisLines
<1> QED  BY <1>4, <1>5, <1>6 DEF content, epicsLines, interfaceLines

-----------------------------------------------------------------------------
(* Keys under way, and facts on sequences.                                 *)

Hand(k) == IF k = NoKey THEN <<>> ELSE <<k>>

LEMMA ConcatAssoc ==
  ASSUME NEW S, NEW s \in Seq(S), NEW t \in Seq(S), NEW u \in Seq(S)
  PROVE  (s \o t) \o u = s \o (t \o u)
OBVIOUS

\* A key that is typed, read or sent.
LEMMA ConcatAppend ==
  ASSUME NEW S, NEW s \in Seq(S), NEW t \in Seq(S), NEW k \in S
  PROVE  s \o Append(t, k) = Append(s \o t, k)
OBVIOUS

LEMMA ConcatTail ==
  ASSUME NEW S, NEW s \in Seq(S), NEW t \in Seq(S), s # <<>>
  PROVE  Tail(s) \o t = Tail(s \o t)
OBVIOUS

LEMMA ConcatHead ==
  ASSUME NEW S, NEW s \in Seq(S), s # <<>>
  PROVE  <<Head(s)>> \o Tail(s) = s
OBVIOUS

LEMMA HeadTyped ==
  ASSUME NEW S, NEW s \in Seq(S), s # <<>>
  PROVE  Head(s) \in S
OBVIOUS

LEMMA ConcatLast ==
  ASSUME NEW S, NEW s \in Seq(S), NEW k \in S
  PROVE  s \o <<k>> = Append(s, k)
OBVIOUS

LEMMA ConcatEmpty ==
  ASSUME NEW S, NEW s \in Seq(S)
  PROVE  s \o <<>> = s /\ <<>> \o s = s
OBVIOUS

-----------------------------------------------------------------------------
(* The invariant.                                                          *)

LEMMA InitInv == Init => Inv
<1> SUFFICES ASSUME Init  PROVE Inv  OBVIOUS
<1> USE BoundsTyped DEF Init
<1>1. CaptureTyped /\ LoopTyped /\ Shown  BY DEF CaptureTyped, LoopTyped, Loops, Shown
<1>2. KeysTyped  BY DEF KeysTyped, NoKey
<1>3. ModelTyped
  <2>1. NoDoc \in Docs /\ 1 \in Views /\ <<>> \in Seq(Nat)  BY DEF Docs, NoDoc, Views
  <2>2. New \in Models  BY <2>1 DEF New, Models, Notes
  <2> QED  BY <2>2 DEF ModelTyped
<1>4. EventsAreLatest
  <2>1. model.events = <<>>  BY DEF New
  <2>2. logged < MaxEvents /\ logged = 0  OBVIOUS
  <2>3. [i \in 1..0 |-> 0 - 0 + i] = <<>>  OBVIOUS
  <2> QED  BY <2>1, <2>2, <2>3 DEF EventsAreLatest
<1>5. PartsInOrder
  <2>1. model.devices = NoDoc /\ model.diagnosis = NoDoc  BY DEF New
  <2> QED  BY <2>1 DEF PartsInOrder, NoDoc
<1> QED  BY <1>1, <1>2, <1>3, <1>4, <1>5 DEF Inv

\* What is left alone keeps its part of the invariant.
LEMMA Quiet ==
  /\ CaptureTyped /\ UNCHANGED captureVars => CaptureTyped'
  /\ KeysTyped /\ UNCHANGED keyVars => KeysTyped'
  /\ LoopTyped /\ UNCHANGED <<loop, part, applied>> => LoopTyped'
  /\ ModelTyped /\ UNCHANGED <<live, model>> => ModelTyped'
  /\ Shown /\ UNCHANGED screen => Shown'
  /\ EventsAreLatest /\ UNCHANGED logged /\ model'.events = model.events => EventsAreLatest'
  /\ PartsInOrder /\ UNCHANGED applied /\ model'.devices = model.devices
        /\ model'.diagnosis = model.diagnosis => PartsInOrder'
  /\ UNCHANGED model => UNCHANGED <<model.events, model.devices, model.diagnosis>>
BY DEF CaptureTyped, captureVars, KeysTyped, keyVars, LoopTyped, ModelTyped, Shown,
  EventsAreLatest, PartsInOrder

LEMMA CaptureKeeps ==
  ASSUME Inv, Packet \/ AddEvent \/ SourceEnds
  PROVE  Inv'
<1> USE BoundsTyped DEF Inv, Elsewhere, loopVars
<1>1. CASE Packet
  <2> USE <1>1 DEF Packet
  <2>1. CaptureTyped'  BY DEF CaptureTyped
  <2>2. applied \in Nat /\ applied <= applied' /\ applied' \in Nat  BY DEF CaptureTyped
  <2>3. LoopTyped'  BY <2>2 DEF LoopTyped
  <2>4. PartsInOrder'
    <3>1. model.devices \in Docs /\ model.diagnosis \in Docs  BY DEF ModelTyped, Models
    <3> QED  BY <2>2, <3>1 DEF PartsInOrder, Docs
  <2> QED  BY <2>1, <2>3, <2>4, Quiet
<1>2. CASE AddEvent
  <2> USE <1>2 DEF AddEvent
  <2> DEFINE k == IF logged < MaxEvents THEN logged ELSE MaxEvents
  <2>1. CaptureTyped' /\ logged \in Nat /\ logged' \in Nat  BY DEF CaptureTyped
  <2>2. model \in Models /\ model.events \in Seq(Nat)  BY DEF ModelTyped, Models
  <2>3. model' = [model EXCEPT !.events = Kept(Append(model.events, logged + 1))]  OBVIOUS
  <2>4. model'.events = Kept(Append(model.events, logged + 1))  BY <2>2, <2>3 DEF Models
  <2>5. EventsAreLatest'
    <3>1. k \in 0..logged /\ k <= MaxEvents /\ (k = logged \/ k = MaxEvents)  BY <2>1
    <3>2. model.events = LatestOf(logged, k)  BY DEF EventsAreLatest, LatestOf
    <3>3. Kept(Append(model.events, logged + 1)) = Latest(logged + 1)
      <4> HIDE DEF k
      <4> QED  BY <2>1, <2>2, <3>1, <3>2, RingGrows
    <3>4. logged' = logged + 1  OBVIOUS
    <3>5. model'.events = Latest(logged')  BY <2>4, <3>3, <3>4
    <3> QED  BY <3>5 DEF EventsAreLatest, Latest, LatestOf
  <2>6. ModelTyped'
    <3>1. Append(model.events, logged + 1) \in Seq(Nat)  BY <2>1, <2>2
    <3>2. ASSUME NEW e \in Seq(Nat)  PROVE Kept(e) \in Seq(Nat)  BY DEF Kept
    <3>3. Kept(Append(model.events, logged + 1)) \in Seq(Nat)  BY <3>1, <3>2
    <3> QED  BY <2>2, <2>3, <3>3 DEF ModelTyped, Models
  <2>7. model'.devices = model.devices /\ model'.diagnosis = model.diagnosis  BY <2>2, <2>3 DEF Models
  <2> QED  BY <2>1, <2>5, <2>6, <2>7, Quiet
<1>3. CASE SourceEnds
  <2> USE <1>3 DEF SourceEnds
  <2>1. CaptureTyped'  BY DEF CaptureTyped
  <2>2. /\ ModelTyped' /\ model'.events = model.events /\ model'.devices = model.devices
        /\ model'.diagnosis = model.diagnosis
    BY DEF ModelTyped, Models, Notes
  <2> QED  BY <2>1, <2>2, Quiet
<1> QED  BY <1>1, <1>2, <1>3

LEMMA KeyboardKeeps ==
  ASSUME Inv, (\E k \in Typeable : Type(k)) \/ Cancel \/ Read \/ ReadFails \/ Send
  PROVE  Inv'
<1> USE DEF Inv, Elsewhere, loopVars
<1>1. UNCHANGED <<live, model, captureVars, loopVars>>
  BY DEF Type, Cancel, Read, ReadFails, Send
<1>2. KeysTyped'
  <2> USE BoundsTyped DEF KeysTyped
  <2>1. ASSUME NEW k \in Typeable, Type(k)  PROVE KeysTyped'  BY <2>1, TypeableTyped DEF Type
  <2>2. CASE Cancel  BY <2>2, Quiet DEF Cancel
  <2>3. CASE Read  BY <2>3 DEF Read
  <2>4. CASE ReadFails  BY <2>4 DEF ReadFails
  <2>5. CASE Send  BY <2>5 DEF Send
  <2> QED  BY <2>1, <2>2, <2>3, <2>4, <2>5
<1> QED  BY <1>1, <1>2, Quiet DEF captureVars

LEMMA LoopKeeps ==
  ASSUME Inv, Done \/ Key \/ Loop
  PROVE  Inv'
<1> USE DEF Inv, Goes
<1>1. UNCHANGED <<live, captureVars>>  BY DEF Done, Key, Loop, Redraw, SetDevices, SetStats, Rules, SetDiagnosis, Draw
<1>2. CaptureTyped' /\ UNCHANGED <<applied, logged>>  BY <1>1, Quiet DEF captureVars
<1>3. applied \in Nat /\ part \in Nat /\ part <= applied /\ model \in Models
  BY DEF CaptureTyped, LoopTyped, ModelTyped
<1>4. CASE Done
  <2>1. LoopTyped'  BY <1>2, <1>4 DEF Done, LoopTyped, Loops
  <2> QED  BY <1>1, <1>2, <1>4, <2>1, Quiet DEF Done
<1>5. CASE Key
  <2>1. LoopTyped'  BY <1>2, <1>5 DEF Key, LoopTyped, Loops
  <2>2. KeysTyped' /\ Head(keys) \in Keys  BY <1>5, BoundsTyped DEF Key, KeysTyped
  <2>3. /\ model' \in Models /\ model'.events = model.events /\ model'.devices = model.devices
        /\ model'.diagnosis = model.diagnosis
    BY <1>3, <1>5, <2>2, HandleKeyKeeps DEF Key
  <2>4. ModelTyped'  BY <1>1, <2>3 DEF ModelTyped
  <2> QED  BY <1>2, <1>5, <2>1, <2>2, <2>3, <2>4, Quiet DEF Key
<1>6. CASE Redraw \/ Rules
  <2>1. loop' \in Loops /\ part' = applied  BY <1>6 DEF Redraw, Rules, Loops
  <2>2. LoopTyped'  BY <1>2, <1>3, <2>1 DEF LoopTyped
  <2> QED  BY <1>1, <1>2, <1>6, <2>2, Quiet DEF Redraw, Rules
<1>7. CASE SetDevices \/ SetDiagnosis
  <2> DEFINE doc == [devices |-> part, conflicts |-> applied]
  <2>1. LoopTyped'
    <3>1. loop' \in Loops /\ part' = 0  BY <1>7 DEF SetDevices, SetDiagnosis, Loops
    <3> QED  BY <1>2, <1>3, <3>1 DEF LoopTyped
  <2>2. doc \in Docs /\ doc.devices <= doc.conflicts /\ doc.conflicts <= applied  BY <1>3 DEF Docs
  <2>3. model' = [model EXCEPT !.devices = doc] \/ model' = [model EXCEPT !.diagnosis = doc]
    BY <1>7 DEF SetDevices, SetDiagnosis
  <2> HIDE DEF doc
  <2>4. model' \in Models /\ model'.events = model.events  BY <1>3, <2>2, <2>3 DEF Models
  <2>5. model'.devices \in {model.devices, doc} /\ model'.diagnosis \in {model.diagnosis, doc}
    BY <1>3, <2>3 DEF Models
  <2>6. PartsInOrder'  BY <1>2, <2>2, <2>5 DEF PartsInOrder
  <2>7. ModelTyped'  BY <1>1, <2>4 DEF ModelTyped
  <2> QED  BY <1>2, <1>7, <2>1, <2>4, <2>6, <2>7, Quiet DEF SetDevices, SetDiagnosis
<1>8. CASE SetStats
  <2>1. LoopTyped'  BY <1>2, <1>8 DEF SetStats, LoopTyped, Loops
  <2>2. /\ model' \in Models /\ model'.events = model.events /\ model'.devices = model.devices
        /\ model'.diagnosis = model.diagnosis
    BY <1>3, <1>8 DEF SetStats, Models, Notes
  <2>3. ModelTyped'  BY <1>1, <2>2 DEF ModelTyped
  <2> QED  BY <1>2, <1>8, <2>1, <2>2, <2>3, Quiet DEF SetStats
<1>9. CASE Draw
  <2> DEFINE total == content(model)
             off == Clamped(model.scroll[model.view], total)
  <2>1. LoopTyped'  BY <1>2, <1>9 DEF Draw, LoopTyped, Loops
  <2>2. total \in Nat /\ off \in Nat /\ off <= total
    <3>1. total \in Nat /\ model.scroll[model.view] \in Nat  BY <1>3, ContentCounts DEF Models
    <3> QED  BY <3>1 DEF Clamped
  <2>3. model' = [model EXCEPT !.scroll[model.view] = off] /\ screen' = [total |-> total, off |-> off]
    BY <1>9 DEF Draw
  <2> HIDE DEF total, off
  <2>4. Shown'  BY <2>2, <2>3 DEF Shown
  <2>5. /\ model' \in Models /\ model'.events = model.events /\ model'.devices = model.devices
        /\ model'.diagnosis = model.diagnosis
    BY <1>3, <2>2, <2>3 DEF Models
  <2>6. ModelTyped'  BY <1>1, <2>5 DEF ModelTyped
  <2> QED  BY <1>2, <1>9, <2>1, <2>4, <2>5, <2>6, Quiet DEF Draw
<1> QED  BY <1>4, <1>5, <1>6, <1>7, <1>8, <1>9 DEF Loop

LEMMA StutterKeeps == Inv /\ UNCHANGED vars => Inv'
BY Quiet DEF Inv, vars, captureVars, keyVars, loopVars

LEMMA InvInductive == Inv /\ [Next]_vars => Inv'
BY CaptureKeeps, KeyboardKeeps, LoopKeeps, StutterKeeps DEF Next

LEMMA Invariant == Spec => []Inv
BY InitInv, InvInductive, PTL DEF Spec

-----------------------------------------------------------------------------
(* The theorems.                                                           *)

LEMMA PageShown ==
  ASSUME NEW total \in Nat, NEW off \in Nat, off <= total
  PROVE  {i \in 1..total : off < i /\ i <= off + Body} = {} <=> off = total
<1> DEFINE page == {i \in 1..total : off < i /\ i <= off + Body}
<1>1. Body \in Nat /\ Body >= 1  BY BoundsTyped
<1>2. CASE off < total
  <2>1. off + 1 \in page  BY <1>1, <1>2
  <2> QED  BY <1>2, <2>1
<1>3. CASE off = total  BY <1>3
<1> QED  BY <1>2, <1>3

\* The state of the terminal interface is of its type, the ring holds the
\* latest events in their order, no part of a document is older than an
\* earlier one, and the screen shows a page of its content.
THEOREM ScreenIsSound == Spec => []ScreenSound
<1>1. Inv => TypeOK
  <2> SUFFICES ASSUME Inv  PROVE TypeOK  OBVIOUS
  <2>1. Len(model.events) <= MaxEvents
    <3> DEFINE k == IF logged < MaxEvents THEN logged ELSE MaxEvents
    <3>1. k \in Nat /\ k <= MaxEvents  BY BoundsTyped DEF Inv, CaptureTyped
    <3>2. model.events = [i \in 1..k |-> logged - k + i]  BY DEF Inv, EventsAreLatest
    <3> HIDE DEF k
    <3>3. Len(model.events) = k  BY <3>1, <3>2
    <3> QED  BY <3>1, <3>3
  <2> QED  BY <2>1 DEF TypeOK, Inv, CaptureTyped, KeysTyped, LoopTyped, Loops, ModelTyped, Models
<1>2. Inv => ScrollWithinContent
  <2> SUFFICES ASSUME Inv, screen # <<>>
               PROVE  /\ screen.off <= screen.total
                      /\ {i \in 1..screen.total : screen.off < i /\ i <= screen.off + Body} = {}
                           <=> screen.off = screen.total
    BY DEF ScrollWithinContent
  <2>1. screen.total \in Nat /\ screen.off \in Nat /\ screen.off <= screen.total  BY DEF Inv, Shown
  <2> QED  BY <2>1, PageShown
<1>3. Inv => ScreenSound  BY <1>1, <1>2 DEF ScreenSound, Inv
<1> QED  BY <1>3, Invariant, PTL

\* The keys under way, as they are with each part that holds some of them.
LEMMA PendingIs ==
  /\ pending = (keys \o Hand(reading)) \o typed
  /\ pending' = (keys' \o Hand(reading')) \o typed'
  /\ Hand(NoKey) = <<>> /\ \A k \in Keys : Hand(k) = <<k>>
BY DEF pending, Hand, Keys, NoKey, Digits, Views

LEMMA KeyOrder ==
  ASSUME Inv, [Next]_vars
  PROVE  \/ pending' = pending
         \/ \E k \in Keys : pending' = Append(pending, k)
         \/ pending' = Tail(pending) /\ loop = "select"
<1> DEFINE Goal == \/ pending' = pending
                   \/ \E k \in Keys : pending' = Append(pending, k)
                   \/ pending' = Tail(pending) /\ loop = "select"
<1>1. /\ keys \in Seq(Keys) /\ typed \in Seq(Keys) /\ reading \in Keys \cup {NoKey}
  BY DEF Inv, KeysTyped
<1>2. Hand(reading) \in Seq(Keys) /\ keys \o Hand(reading) \in Seq(Keys)  BY <1>1 DEF Hand
<1>3. CASE UNCHANGED <<keys, reading, typed>>  BY <1>3, PendingIs
<1>4. ASSUME NEW k \in Typeable, Type(k)  PROVE Goal
  <2>1. k \in Keys /\ typed' = Append(typed, k) /\ UNCHANGED <<keys, reading>>  BY <1>4, TypeableTyped DEF Type
  <2>2. pending' = Append(pending, k)  BY <1>1, <1>2, <2>1, PendingIs, ConcatAppend
  <2> QED  BY <2>1, <2>2
<1>5. CASE Read
  <2>1. /\ reading = NoKey /\ typed # <<>> /\ reading' = Head(typed) /\ typed' = Tail(typed)
        /\ keys' = keys /\ Head(typed) \in Keys /\ Tail(typed) \in Seq(Keys)
    BY <1>1, <1>5 DEF Read
  <2>2. pending = keys \o typed  BY <1>1, <2>1, PendingIs, ConcatEmpty
  <2>3. pending' = (keys \o <<Head(typed)>>) \o Tail(typed)  BY <2>1, PendingIs
  <2>4. pending' = keys \o (<<Head(typed)>> \o Tail(typed))
    <3>1. <<Head(typed)>> \in Seq(Keys)  BY <2>1
    <3> QED  BY <1>1, <2>1, <2>3, <3>1, ConcatAssoc
  <2> QED  BY <1>1, <2>1, <2>2, <2>4, ConcatHead
<1>6. CASE Send
  <2>1. reading \in Keys /\ keys' = Append(keys, reading) /\ reading' = NoKey /\ typed' = typed
    BY <1>1, <1>6 DEF Send
  <2>2. pending = Append(keys, reading) \o typed  BY <1>1, <2>1, PendingIs, ConcatLast
  <2>3. Append(keys, reading) \in Seq(Keys)  BY <1>1, <2>1
  <2>4. pending' = Append(keys, reading) \o typed
    BY <2>1, <2>3, PendingIs, ConcatEmpty
  <2> QED  BY <2>2, <2>4
<1>7. CASE Key
  <2>1. keys # <<>> /\ keys' = Tail(keys) /\ UNCHANGED <<typed, reading>> /\ loop = "select"
    BY <1>7 DEF Key, Goes
  <2>2. keys \o Hand(reading) # <<>>  BY <1>1, <1>2, <2>1
  <2>3. (Tail(keys) \o Hand(reading)) \o typed = Tail((keys \o Hand(reading)) \o typed)
    <3>1. Tail(keys) \o Hand(reading) = Tail(keys \o Hand(reading))  BY <1>1, <1>2, <2>1, ConcatTail
    <3> QED  BY <1>1, <1>2, <2>2, <3>1, ConcatTail
  <2> QED  BY <2>1, <2>3, PendingIs
<1>8. CASE Packet \/ AddEvent \/ SourceEnds \/ Cancel \/ ReadFails \/ Done \/ Loop \/ UNCHANGED vars
  <2>1. UNCHANGED <<keys, reading, typed>>
    BY <1>8 DEF Packet, AddEvent, SourceEnds, Cancel, ReadFails, Done, Loop, Redraw, SetDevices,
      SetStats, Rules, SetDiagnosis, Draw, vars, keyVars
  <2> QED  BY <2>1, <1>3
<1> QED  BY <1>4, <1>5, <1>6, <1>7, <1>8 DEF Next

LEMMA NoteStays ==
  ASSUME Inv, [Next]_vars, ~live, model.stats = "source ended"
  PROVE  model'.stats = "source ended"
<1>1. model \in Models  BY DEF Inv, ModelTyped
<1>2. CASE AddEvent  BY <1>1, <1>2 DEF AddEvent, Models
<1>3. CASE SourceEnds  BY <1>1, <1>3 DEF SourceEnds, Models
<1>4. CASE Key
  <2>1. Head(keys) \in Keys
    <3>1. keys # <<>> /\ keys \in Seq(Keys)  BY <1>4 DEF Key, Inv, KeysTyped
    <3> QED  BY <3>1, HeadTyped
  <2>2. model' = HandleKey(model, Head(keys))  BY <1>4 DEF Key
  <2> QED  BY <1>1, <2>1, <2>2, HandleKeyKeeps
<1>5. CASE SetDevices \/ SetDiagnosis  BY <1>1, <1>5 DEF SetDevices, SetDiagnosis, Models
<1>6. CASE SetStats  BY <1>6 DEF SetStats
<1>7. CASE Draw
  <2>1. PICK off : model' = [model EXCEPT !.scroll[model.view] = off]  BY <1>7 DEF Draw
  <2> QED  BY <1>1, <2>1 DEF Models
<1>8. CASE UNCHANGED model  BY <1>8
<1>9. ASSUME NEW k \in Typeable, Type(k)  PROVE UNCHANGED model  BY <1>9 DEF Type
<1>10. CASE Packet \/ Cancel \/ Read \/ ReadFails \/ Send \/ Done \/ Redraw \/ Rules \/ UNCHANGED vars
  <2>1. UNCHANGED model
    BY <1>10 DEF Packet, Cancel, Read, ReadFails, Send, Done, Redraw, Rules, vars
  <2> QED  BY <2>1
<1> QED  BY <1>2, <1>3, <1>4, <1>5, <1>6, <1>7, <1>8, <1>9, <1>10 DEF Next, Loop

\* No key is lost or overtaken between the terminal and the loop, and the
\* note that a capture file has ended stays.
THEOREM NothingIsUndone == Spec => NothingUndone
<1>1. Inv /\ [Next]_vars =>
        [\/ pending' = pending
         \/ \E k \in Keys : pending' = Append(pending, k)
         \/ pending' = Tail(pending) /\ loop = "select"]_vars
  BY KeyOrder
<1>2. Inv /\ [Next]_vars =>
        [~live /\ model.stats = "source ended" => model'.stats = "source ended"]_vars
  BY NoteStays
<1>3. Spec => KeysInOrder  BY <1>1, Invariant, PTL DEF Spec, KeysInOrder
<1>4. Spec => EndNoteKept  BY <1>2, Invariant, PTL DEF Spec, EndNoteKept
<1> QED  BY <1>3, <1>4 DEF NothingUndone
=============================================================================
