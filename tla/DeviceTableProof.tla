-------------------------- MODULE DeviceTableProof --------------------------
(***************************************************************************)
(* For every set of packets, sources and limits: the table of devices says *)
(* of addresses, conflicts, times and events what the packets said, and    *)
(* the report of the diagnosis rests on what was captured.                 *)
(***************************************************************************)
EXTENDS Diagnosis, SequenceTheorems, FiniteSetTheorems, WellFoundedInduction, TLAPS

-----------------------------------------------------------------------------
(* Tables.                                                                 *)

Tab(order, devices, traits, addresses, claims, dhcp, neighbors, told) ==
  [order |-> order, devices |-> devices, traits |-> traits, addresses |-> addresses,
   claims |-> claims, dhcp |-> dhcp, neighbors |-> neighbors, told |-> told]

IsTab(T) ==
  T = Tab(T.order, T.devices, T.traits, T.addresses, T.claims, T.dhcp, T.neighbors, T.told)

LEMMA TabFields ==
  ASSUME NEW o, NEW d, NEW t, NEW a, NEW c, NEW x, NEW n, NEW f, NEW R, R = Tab(o, d, t, a, c, x, n, f)
  PROVE  /\ IsTab(R)
         /\ R.order = o /\ R.devices = d /\ R.traits = t /\ R.addresses = a
         /\ R.claims = c /\ R.dhcp = x /\ R.neighbors = n /\ R.told = f
BY DEF IsTab, Tab

IsTable(T) ==
  /\ IsTab(T)
  /\ T.order \in Seq(MACs)
  /\ T.devices \in [MACs -> Device]
  /\ T.traits = [m \in MACs |-> T.traits[m]]
  /\ T.addresses \in [MACs -> [Addrs -> Address]]
  /\ T.claims \in [Addrs -> Conflict]
  /\ T.dhcp \in [Exchanges -> DHCPTransaction]
  /\ T.neighbors \in [Neighbors -> Neighbor]

\* The state of an address of a device.
State(T, m, a) == T.addresses[m][a].state

\* What touch leaves behind of a device.
Touched(d, at) ==
  IF d.first # 0 THEN [d EXCEPT !.last = Later(@, at)]
  ELSE [NoDevice EXCEPT !.first = at, !.last = at]

LEMMA TimesTyped == Times = 1..MaxTime /\ MaxTime \in Nat /\ MaxTime >= 1 /\ Times \subseteq 0..MaxTime
BY BoundsTyped DEF Times

LEMMA TouchedType ==
  ASSUME NEW d \in Device, NEW at \in Times
  PROVE  Touched(d, at) \in Device /\ Touched(d, at).first # 0
<1>1. at \in 0..MaxTime /\ at # 0 /\ Later(d.last, at) \in 0..MaxTime
  BY TimesTyped DEF Device, Later
<1>2. CASE d.first # 0
  <2>1. Touched(d, at) = [d EXCEPT !.last = Later(d.last, at)]  BY <1>2 DEF Touched
  <2> QED  BY <1>1, <1>2, <2>1 DEF Device
<1>3. CASE d.first = 0
  <2>1. Touched(d, at) = [first |-> at, last |-> at, confirmed |-> FALSE, overflow |-> 0]
    BY <1>3 DEF Touched, NoDevice
  <2> QED  BY <1>1, <2>1 DEF Device
<1> QED  BY <1>2, <1>3

\* R is T after m was touched.
IsTouched(R, T, m, at) ==
  /\ IsTable(R) /\ Known(R, m)
  /\ R.devices = [T.devices EXCEPT ![m] = Touched(T.devices[m], at)]
  /\ R.order = (IF Known(T, m) THEN T.order ELSE Append(T.order, m))
  /\ R.told = (IF Known(T, m) THEN T.told ELSE T.told \cup {<<"device", m>>})
  /\ R.traits = T.traits /\ R.addresses = T.addresses /\ R.claims = T.claims
  /\ R.dhcp = T.dhcp /\ R.neighbors = T.neighbors

LEMMA TouchEffect ==
  ASSUME NEW T, IsTable(T), NEW m \in MACs, NEW at \in Times, NEW R, R = touch(T, m, at)
  PROVE  IsTouched(R, T, m, at)
<1>1. T.devices[m] \in Device  BY DEF IsTable
<1>2. Touched(T.devices[m], at) \in Device /\ Touched(T.devices[m], at).first # 0  BY <1>1, TouchedType
<1> DEFINE D == [T.devices EXCEPT ![m] = Touched(T.devices[m], at)]
<1>3. D \in [MACs -> Device] /\ D[m].first # 0  BY <1>2 DEF IsTable
<1>4. CASE Known(T, m)
  <2>1. R = Tab(T.order, D, T.traits, T.addresses, T.claims, T.dhcp, T.neighbors, T.told)
    BY <1>4 DEF touch, Touched, Known, IsTable, IsTab, Tab
  <2> HIDE DEF D
  <2>2. /\ IsTab(R) /\ R.order = T.order /\ R.devices = D /\ R.traits = T.traits /\ R.addresses = T.addresses
        /\ R.claims = T.claims /\ R.dhcp = T.dhcp /\ R.neighbors = T.neighbors /\ R.told = T.told
    BY <2>1, TabFields
  <2> QED  BY <1>3, <1>4, <2>2 DEF IsTouched, IsTable, Known, D
<1>5. CASE ~Known(T, m)
  <2> DEFINE O == Append(T.order, m)
             F == T.told \cup {<<"device", m>>}
  <2>1. R = Tab(O, D, T.traits, T.addresses, T.claims, T.dhcp, T.neighbors, F)
    BY <1>5 DEF touch, Touched, Known, IsTable, IsTab, Tab
  <2>2. O \in Seq(MACs)  BY DEF IsTable
  <2> HIDE DEF D, O, F
  <2>3. /\ IsTab(R) /\ R.order = O /\ R.devices = D /\ R.traits = T.traits /\ R.addresses = T.addresses
        /\ R.claims = T.claims /\ R.dhcp = T.dhcp /\ R.neighbors = T.neighbors /\ R.told = F
    BY <2>1, TabFields
  <2> QED  BY <1>3, <1>5, <2>2, <2>3 DEF IsTouched, IsTable, Known, D, O, F
<1> QED  BY <1>4, <1>5

\* Traits added to a device, and the events of it.
Marked(T, m, X, Y) == [T EXCEPT !.traits[m] = @ \cup X, !.told = @ \cup Y]

IsMarked(R, T, m, X, Y) ==
  /\ IsTable(R)
  /\ R.traits = [T.traits EXCEPT ![m] = @ \cup X] /\ R.told = T.told \cup Y
  /\ R.devices = T.devices /\ R.order = T.order /\ R.addresses = T.addresses
  /\ R.claims = T.claims /\ R.dhcp = T.dhcp /\ R.neighbors = T.neighbors

LEMMA TraitEffect ==
  ASSUME NEW T, IsTable(T), NEW m \in MACs, NEW X, NEW Y, NEW R, R = Marked(T, m, X, Y)
  PROVE  IsMarked(R, T, m, X, Y)
<1> DEFINE V == [T.traits EXCEPT ![m] = @ \cup X]
           F == T.told \cup Y
<1>1. R = Tab(T.order, T.devices, V, T.addresses, T.claims, T.dhcp, T.neighbors, F)
  BY DEF IsTable, IsTab, Tab, Marked
<1>2. V = [k \in MACs |-> V[k]]  BY DEF IsTable
<1> HIDE DEF V, F
<1>3. /\ IsTab(R) /\ R.order = T.order /\ R.devices = T.devices /\ R.traits = V /\ R.addresses = T.addresses
      /\ R.claims = T.claims /\ R.dhcp = T.dhcp /\ R.neighbors = T.neighbors /\ R.told = F
  BY <1>1, TabFields
<1> QED  BY <1>2, <1>3 DEF IsMarked, IsTable, V, F

LEMMA MarksAre ==
  ASSUME NEW T, IsTable(T), NEW m \in MACs, NEW p
  PROVE  /\ addProtocol(T, m, p) = Marked(T, m, {<<"protocol", p>>}, {})
         /\ addVLAN(T, m, p) = Marked(T, m, {<<"vlan", p>>}, {<<"vlan", m, p>>})
         /\ p # "" => addName(T, m, p) = Marked(T, m, {<<"name", p>>}, {})
<1>1. addProtocol(T, m, p) = Marked(T, m, {<<"protocol", p>>}, {})
  BY DEF addProtocol, Marked, IsTable, IsTab, Tab
<1>2. addVLAN(T, m, p) = Marked(T, m, {<<"vlan", p>>}, {<<"vlan", m, p>>})
  BY DEF addVLAN, Marked
<1>3. p # "" => addName(T, m, p) = Marked(T, m, {<<"name", p>>}, {})
  BY DEF addName, Marked, IsTable, IsTab, Tab
<1> QED  BY <1>1, <1>2, <1>3

\* What raising a claim makes of an address and of the claims on it.
Entry(e, state, at) ==
  [state |-> state, first |-> IF e.first = 0 THEN at ELSE e.first, last |-> Later(e.last, at)]

IsNew(c, m) == \A i \in 1..Len(c.macs) : c.macs[i] # m
WithMAC(c, m) == IF IsNew(c, m) THEN Append(c.macs, m) ELSE c.macs

Claim(c, m, at) ==
  [macs |-> WithMAC(c, m), first |-> IF c.macs = <<>> THEN at ELSE c.first, last |-> at]

Clash(c, m, a) ==
  IF IsNew(c, m) /\ Len(WithMAC(c, m)) > 1 THEN {<<"conflict", a, WithMAC(c, m)>>} ELSE {}

LEMMA EntryType ==
  ASSUME NEW e \in Address, NEW state \in States, NEW at \in Times
  PROVE  Entry(e, state, at) \in Address
BY TimesTyped DEF Entry, Address, Later

LEMMA ClaimType ==
  ASSUME NEW c \in Conflict, NEW m \in MACs, NEW at \in Times
  PROVE  Claim(c, m, at) \in Conflict
<1>1. WithMAC(c, m) \in Seq(MACs)  BY DEF WithMAC, Conflict
<1>2. at \in 0..MaxTime  BY TimesTyped
<1> QED  BY <1>1, <1>2 DEF Claim, Conflict

\* A table with other devices, addresses, claims and events.
Changed(T, D, A, C, F) == Tab(T.order, D, T.traits, A, C, T.dhcp, T.neighbors, F)

LEMMA ChangedIsTable ==
  ASSUME NEW T, IsTable(T), NEW D \in [MACs -> Device], NEW A \in [MACs -> [Addrs -> Address]],
         NEW C \in [Addrs -> Conflict], NEW F, NEW R, R = Changed(T, D, A, C, F)
  PROVE  /\ IsTable(R) /\ R.devices = D /\ R.addresses = A /\ R.claims = C /\ R.told = F
         /\ R.order = T.order /\ R.traits = T.traits /\ R.dhcp = T.dhcp /\ R.neighbors = T.neighbors
<1>1. /\ IsTab(R) /\ R.order = T.order /\ R.devices = D /\ R.traits = T.traits /\ R.addresses = A
      /\ R.claims = C /\ R.dhcp = T.dhcp /\ R.neighbors = T.neighbors /\ R.told = F
  BY TabFields DEF Changed
<1> QED  BY <1>1 DEF IsTable

LEMMA NoteClaimEffect ==
  ASSUME NEW T, IsTable(T), NEW m \in MACs, NEW a \in Addrs, NEW state, NEW at \in Times
  PROVE  /\ ~Strong(state) => noteClaim(T, m, a, state, at) = T
         /\ Strong(state) =>
              noteClaim(T, m, a, state, at) =
                Changed(T, T.devices, T.addresses, [T.claims EXCEPT ![a] = Claim(T.claims[a], m, at)],
                        T.told \cup Clash(T.claims[a], m, a))
BY DEF noteClaim, Changed, Claim, Clash, WithMAC, IsNew, IsTable, IsTab, Tab

\* The devices and addresses behind a claim that is raised.
Confirm(D, m, state) == [D EXCEPT ![m].confirmed = @ \/ Strong(state)]
Enter(A, m, a, state, at) == [A EXCEPT ![m][a] = Entry(A[m][a], state, at)]

\* R is T with a claim raised.
IsRaised(R, T, m, a, state, at) ==
  /\ IsTable(R)
  /\ R.order = T.order /\ R.traits = T.traits /\ R.dhcp = T.dhcp /\ R.neighbors = T.neighbors
  /\ R.devices = Confirm(T.devices, m, state)
  /\ R.addresses = Enter(T.addresses, m, a, state, at)
  /\ R.claims = (IF Strong(state) THEN [T.claims EXCEPT ![a] = Claim(T.claims[a], m, at)] ELSE T.claims)
  /\ R.told = T.told \cup {<<"address", m, a, state>>}
                 \cup (IF Strong(state) THEN Clash(T.claims[a], m, a) ELSE {})

LEMMA RaisedEffect ==
  ASSUME NEW T, IsTable(T), NEW m \in MACs, NEW a \in Addrs, NEW state \in States, NEW at \in Times,
         NEW R, R = raised(T, m, a, state, at)
  PROVE  IsRaised(R, T, m, a, state, at)
<1> DEFINE D == Confirm(T.devices, m, state)
           A == Enter(T.addresses, m, a, state, at)
           F == T.told \cup {<<"address", m, a, state>>}
           C == [T.claims EXCEPT ![a] = Claim(T.claims[a], m, at)]
           M == Changed(T, D, A, T.claims, F)
<1>1. D \in [MACs -> Device]
  <2>1. T.devices[m] \in Device  BY DEF IsTable
  <2>2. (T.devices[m].confirmed \/ Strong(state)) \in BOOLEAN  OBVIOUS
  <2> QED  BY <2>1, <2>2 DEF IsTable, Confirm, Device
<1>2. A \in [MACs -> [Addrs -> Address]]
  <2>1. T.addresses[m][a] \in Address  BY DEF IsTable
  <2>2. Entry(T.addresses[m][a], state, at) \in Address  BY <2>1, EntryType
  <2> QED  BY <2>2 DEF IsTable, Enter
<1>3. C \in [Addrs -> Conflict]
  <2>1. T.claims[a] \in Conflict  BY DEF IsTable
  <2>2. Claim(T.claims[a], m, at) \in Conflict  BY <2>1, ClaimType
  <2> QED  BY <2>2 DEF IsTable
<1>4. R = noteClaim(M, m, a, state, at)
  <2> DEFINE N == [T EXCEPT !.addresses[m][a] =
                              [state |-> state, first |-> IF @.first = 0 THEN at ELSE @.first, last |-> Later(@.last, at)],
                            !.devices[m].confirmed = @ \/ Strong(state),
                            !.told = @ \cup {<<"address", m, a, state>>}]
             E == [state |-> state, first |-> IF T.addresses[m][a].first = 0 THEN at ELSE T.addresses[m][a].first,
                   last |-> Later(T.addresses[m][a].last, at)]
  <2>1. N = M
    <3>1. IsTab(T)  BY DEF IsTable
    <3>2. D = [T.devices EXCEPT ![m].confirmed = T.devices[m].confirmed \/ Strong(state)]  BY DEF Confirm
    <3>3. A = [T.addresses EXCEPT ![m][a] = E]  BY DEF Enter, Entry
    <3>4. N = [T EXCEPT !.addresses = A, !.devices = D, !.told = F]
      BY <3>1, <3>2, <3>3 DEF IsTab, Tab
    <3> HIDE DEF N, A, D, F
    <3> QED  BY <3>1, <3>4 DEF IsTab, Tab, Changed
  <2>2. R = noteClaim(N, m, a, state, at)  BY DEF raised
  <2> QED  BY <2>1, <2>2
<1> HIDE DEF D, A, C, F
<1>5. T.claims \in [Addrs -> Conflict]  BY DEF IsTable
<1>6. /\ IsTable(M) /\ M.devices = D /\ M.addresses = A /\ M.claims = T.claims /\ M.told = F
      /\ M.order = T.order /\ M.traits = T.traits /\ M.dhcp = T.dhcp /\ M.neighbors = T.neighbors
  BY <1>1, <1>2, <1>5, ChangedIsTable
<1> HIDE DEF M
<1>7. CASE ~Strong(state)
  <2>1. noteClaim(M, m, a, state, at) = M  BY <1>6, <1>7 DEF noteClaim
  <2> QED  BY <1>4, <1>6, <1>7, <2>1 DEF IsRaised, D, A, F
<1>8. CASE Strong(state)
  <2> DEFINE G == M.told \cup Clash(M.claims[a], m, a)
  <2>1. R = Changed(M, M.devices, M.addresses, C, G)
    <3>1. C = [M.claims EXCEPT ![a] = Claim(M.claims[a], m, at)]  BY <1>6 DEF C
    <3> QED  BY <1>4, <1>6, <1>8, <3>1, NoteClaimEffect
  <2>2. G = F \cup Clash(T.claims[a], m, a)  BY <1>6
  <2> HIDE DEF G
  <2>3. /\ IsTable(R) /\ R.devices = M.devices /\ R.addresses = M.addresses /\ R.claims = C /\ R.told = G
        /\ R.order = M.order /\ R.traits = M.traits /\ R.dhcp = M.dhcp /\ R.neighbors = M.neighbors
    BY <1>1, <1>2, <1>3, <1>6, <2>1, ChangedIsTable
  <2> QED  BY <1>6, <1>8, <2>2, <2>3 DEF IsRaised, D, A, C, F
<1> QED  BY <1>7, <1>8

-----------------------------------------------------------------------------
(* What a table says of what was told to it: S holds what was said of      *)
(* addresses, <<device, address, state>>, L when devices were heard,       *)
(* <<device, time>>, and E when packets came, <<time, source>>.            *)

\* An address is in the strongest state it was given.
Ranked(T, S) ==
  \A m \in MACs, a \in Addrs :
    /\ State(T, m, a) # "none" => <<m, a, State(T, m, a)>> \in S
    /\ \A said \in States \ {"seen"} : <<m, a, said>> \in S => Rank(said) <= Rank(State(T, m, a))

\* The claims and the confirmed devices are those of the strong states.
Listing(T) ==
  /\ \A a \in Addrs :
       /\ Distinct(T.claims[a].macs)
       /\ \A m \in MACs : m \in Listed(T.claims[a].macs) <=> Strong(State(T, m, a))
  /\ \A m \in MACs : T.devices[m].confirmed <=> \E a \in Addrs : Strong(State(T, m, a))

\* The weak addresses are within the limit, and what the limit took is counted.
Limited(T, S) ==
  \A m \in MACs, a \in Addrs :
    /\ weakCount(T, m, a) <= MaxWeak
    /\ <<m, a, "seen">> \in S /\ State(T, m, a) = "none" => T.devices[m].overflow > 0

\* The times of the devices.
Dated(T, L) ==
  \A m \in MACs :
    /\ Known(T, m) <=> \E at \in Times : <<m, at>> \in L
    /\ \A at \in Times : <<m, at>> \in L => at <= T.devices[m].last
    /\ Known(T, m) => T.devices[m].first <= T.devices[m].last /\ <<m, T.devices[m].last>> \in L
    /\ ~Known(T, m) => T.devices[m] = NoDevice

\* The events tell of everything the table knows.
Telling(T) ==
  /\ Distinct(T.order)
  /\ \A m \in MACs :
       /\ Known(T, m) <=> m \in Listed(T.order)
       /\ Known(T, m) <=> <<"device", m>> \in T.told
       /\ \A id \in Nat : <<"vlan", id>> \in T.traits[m] => <<"vlan", m, id>> \in T.told
       /\ \A a \in Addrs :
            State(T, m, a) # "none" => Known(T, m) /\ <<"address", m, a, State(T, m, a)>> \in T.told
  /\ \A a \in Addrs : Len(T.claims[a].macs) > 1 => <<"conflict", a, T.claims[a].macs>> \in T.told
  /\ \A n \in Neighbors : T.neighbors[n].first # 0 <=> <<"neighbor", n>> \in T.told

\* The times of the claims.
Timed(T, E) ==
  \A a \in Addrs :
    LET c == T.claims[a] IN
      /\ c.macs # <<>> => \E e \in E : e[1] = c.first
      /\ c.last < c.first => \E e, f \in E : e[2] # f[2]

True(T, S, L, E) ==
  IsTable(T) /\ Ranked(T, S) /\ Listing(T) /\ Limited(T, S) /\ Dated(T, L) /\ Telling(T) /\ Timed(T, E)

\* A sequence without repetition stays one when a new element is appended.
LEMMA AppendNew ==
  ASSUME NEW X, NEW s \in Seq(X), NEW x \in X, Distinct(s), x \notin Listed(s)
  PROVE  Distinct(Append(s, x)) /\ Listed(Append(s, x)) = Listed(s) \cup {x}
<1> DEFINE r == Append(s, x)
<1>1. /\ Len(r) = Len(s) + 1 /\ Len(s) \in Nat /\ r[Len(s) + 1] = x
      /\ \A i \in 1..Len(s) : r[i] = s[i] /\ s[i] \in X
  OBVIOUS
<1> HIDE DEF r
<1>2. Distinct(r)
  <2> SUFFICES ASSUME NEW i \in 1..Len(r), NEW j \in 1..Len(r), r[i] = r[j]  PROVE i = j
    BY DEF Distinct
  <2> QED  BY <1>1 DEF Distinct, Listed
<1>3. Listed(r) = Listed(s) \cup {x}
  BY <1>1 DEF Listed
<1> QED  BY <1>2, <1>3 DEF r

\* touch: the device was heard.
LEMMA TouchTrue ==
  ASSUME NEW T, NEW S, NEW L, NEW E, True(T, S, L, E), NEW m \in MACs, NEW at \in Times,
         NEW R, R = touch(T, m, at)
  PROVE  /\ True(R, S, L \cup {<<m, at>>}, E) /\ Known(R, m)
         /\ \A k \in MACs : Known(T, k) => Known(R, k)
         /\ R.dhcp = T.dhcp /\ R.neighbors = T.neighbors
<1>1. IsTable(T)  BY DEF True
<1>2. /\ IsTable(R) /\ Known(R, m)
      /\ R.devices = [T.devices EXCEPT ![m] = Touched(T.devices[m], at)]
      /\ R.order = (IF Known(T, m) THEN T.order ELSE Append(T.order, m))
      /\ R.told = (IF Known(T, m) THEN T.told ELSE T.told \cup {<<"device", m>>})
      /\ R.traits = T.traits /\ R.addresses = T.addresses /\ R.claims = T.claims
      /\ R.dhcp = T.dhcp /\ R.neighbors = T.neighbors
  <2>1. IsTouched(R, T, m, at)  BY <1>1, TouchEffect
  <2> QED  BY <2>1 DEF IsTouched
<1>3. \A k \in MACs : k # m => R.devices[k] = T.devices[k]  BY <1>1, <1>2 DEF IsTable
<1>4. \A k \in MACs : T.devices[k] \in Device  BY <1>1 DEF IsTable
<1>5. R.devices[m] = Touched(T.devices[m], at)  BY <1>1, <1>2 DEF IsTable
<1>6. /\ R.devices[m].confirmed = T.devices[m].confirmed /\ R.devices[m].overflow = T.devices[m].overflow
      /\ R.devices[m].first = (IF Known(T, m) THEN T.devices[m].first ELSE at)
      /\ R.devices[m].last = (IF Known(T, m) THEN Later(T.devices[m].last, at) ELSE at)
  <2>1. CASE Known(T, m)
    <3>1. R.devices[m] = [T.devices[m] EXCEPT !.last = Later(T.devices[m].last, at)]
      BY <1>5, <2>1 DEF Touched, Known
    <3> QED  BY <1>4, <2>1, <3>1 DEF Device
  <2>2. CASE ~Known(T, m)
    <3>1. T.devices[m] = NoDevice  BY <2>2 DEF True, Dated
    <3>2. R.devices[m] = [first |-> at, last |-> at, confirmed |-> FALSE, overflow |-> 0]
      BY <1>5, <2>2 DEF Touched, Known, NoDevice
    <3> QED  BY <2>2, <3>1, <3>2 DEF NoDevice
  <2> QED  BY <2>1, <2>2
<1>7. \A k \in MACs : R.devices[k].confirmed = T.devices[k].confirmed /\ R.devices[k].overflow = T.devices[k].overflow
  BY <1>3, <1>6
<1>8. \A k \in MACs, a \in Addrs : State(R, k, a) = State(T, k, a) /\ weakCount(R, k, a) = weakCount(T, k, a)
  BY <1>2 DEF State, weakCount
<1>9. \A k \in MACs : Known(R, k) <=> Known(T, k) \/ k = m  BY <1>2, <1>3 DEF Known
<1>10. Ranked(R, S)  BY <1>8 DEF Ranked, True
<1>11. Listing(R)  BY <1>2, <1>7, <1>8 DEF Listing, True
<1>12. Limited(R, S)  BY <1>7, <1>8 DEF Limited, True
<1>13. Timed(R, E)  BY <1>2 DEF Timed, True
<1>14. Dated(R, L \cup {<<m, at>>})
  <2> SUFFICES ASSUME NEW k \in MACs
      PROVE  /\ Known(R, k) <=> \E t \in Times : <<k, t>> \in L \cup {<<m, at>>}
             /\ \A t \in Times : <<k, t>> \in L \cup {<<m, at>>} => t <= R.devices[k].last
             /\ Known(R, k) => R.devices[k].first <= R.devices[k].last
                               /\ <<k, R.devices[k].last>> \in L \cup {<<m, at>>}
             /\ ~Known(R, k) => R.devices[k] = NoDevice
    BY DEF Dated
  <2>1. Dated(T, L)  BY DEF True
  <2>2. CASE k # m
    <3>1. \A t : <<k, t>> \in L \cup {<<m, at>>} <=> <<k, t>> \in L  BY <2>2
    <3> QED  BY <1>3, <1>9, <2>1, <2>2, <3>1 DEF Dated
  <2>3. CASE k = m
    <3>1. /\ T.devices[m].first \in 0..MaxTime /\ T.devices[m].last \in 0..MaxTime /\ at \in 0..MaxTime /\ MaxTime \in Nat
      BY <1>4, TimesTyped DEF Device
    <3>2. \A t : <<m, t>> \in L \cup {<<m, at>>} <=> <<m, t>> \in L \/ t = at  OBVIOUS
    <3>3. \A t \in Times : t \in Nat  BY TimesTyped
    <3>4. CASE Known(T, m)
      <4>1. /\ R.devices[m].first = T.devices[m].first /\ R.devices[m].last = Later(T.devices[m].last, at)
        BY <1>6, <3>4
      <4>2. /\ T.devices[m].first <= T.devices[m].last /\ <<m, T.devices[m].last>> \in L
            /\ \A t \in Times : <<m, t>> \in L => t <= T.devices[m].last
        BY <2>1, <3>4 DEF Dated
      <4> QED  BY <1>2, <2>3, <3>1, <3>2, <3>3, <4>1, <4>2 DEF Later
    <3>5. CASE ~Known(T, m)
      <4>1. R.devices[m].first = at /\ R.devices[m].last = at  BY <1>6, <3>5
      <4>2. \A t \in Times : <<m, t>> \notin L  BY <2>1, <3>5 DEF Dated
      <4> QED  BY <1>2, <2>3, <3>1, <3>2, <4>1, <4>2
    <3> QED  BY <3>4, <3>5
  <2> QED  BY <2>2, <2>3
<1>15. Telling(R)
  <2>1. Telling(T)  BY DEF True
  <2>2. CASE Known(T, m)
    <3>1. R.order = T.order /\ R.told = T.told /\ \A k \in MACs : Known(R, k) <=> Known(T, k)
      BY <1>2, <1>9, <2>2
    <3> QED  BY <1>2, <1>8, <2>1, <3>1 DEF Telling
  <2>3. CASE ~Known(T, m)
    <3>1. R.order = Append(T.order, m) /\ R.told = T.told \cup {<<"device", m>>}  BY <1>2, <2>3
    <3>2. Distinct(R.order) /\ Listed(R.order) = Listed(T.order) \cup {m}
      <4>1. Distinct(T.order) /\ m \notin Listed(T.order)  BY <2>1, <2>3 DEF Telling
      <4>2. T.order \in Seq(MACs)  BY <1>1 DEF IsTable
      <4> QED  BY <3>1, <4>1, <4>2, AppendNew
    <3>3. /\ \A k : <<"device", k>> \in R.told <=> <<"device", k>> \in T.told \/ k = m
          /\ \A n : <<"neighbor", n>> \in R.told <=> <<"neighbor", n>> \in T.told
          /\ \A x : x \in T.told => x \in R.told
      BY <3>1
    <3> QED  BY <1>2, <1>8, <1>9, <2>1, <3>2, <3>3 DEF Telling
  <2> QED  BY <2>2, <2>3
<1> QED  BY <1>2, <1>9, <1>10, <1>11, <1>12, <1>13, <1>14, <1>15 DEF True

\* Protocols, names and tags change nothing else.
LEMMA MarkTrue ==
  ASSUME NEW T, NEW S, NEW L, NEW E, True(T, S, L, E), NEW m \in MACs, NEW X, NEW Y,
         \/ Y = {} /\ \A id \in Nat : <<"vlan", id>> \notin X
         \/ \E id \in Nat : X = {<<"vlan", id>>} /\ Y = {<<"vlan", m, id>>},
         NEW R, R = Marked(T, m, X, Y)
  PROVE  /\ True(R, S, L, E) /\ R.dhcp = T.dhcp /\ R.neighbors = T.neighbors
         /\ \A k \in MACs : Known(R, k) <=> Known(T, k)
<1>1. IsTable(T)  BY DEF True
<1>2. /\ IsTable(R)
      /\ R.traits = [T.traits EXCEPT ![m] = @ \cup X] /\ R.told = T.told \cup Y
      /\ R.devices = T.devices /\ R.order = T.order /\ R.addresses = T.addresses
      /\ R.claims = T.claims /\ R.dhcp = T.dhcp /\ R.neighbors = T.neighbors
  <2>1. IsMarked(R, T, m, X, Y)  BY <1>1, TraitEffect
  <2> QED  BY <2>1 DEF IsMarked
<1>3. \A k \in MACs, a \in Addrs : State(R, k, a) = State(T, k, a) /\ weakCount(R, k, a) = weakCount(T, k, a)
  BY <1>2 DEF State, weakCount
<1>4. \A k \in MACs : Known(R, k) <=> Known(T, k)  BY <1>2 DEF Known
<1>5. Ranked(R, S) /\ Listing(R) /\ Limited(R, S) /\ Dated(R, L) /\ Timed(R, E)
  BY <1>2, <1>3, <1>4 DEF True, Ranked, Listing, Limited, Dated, Timed
<1>6. Telling(R)
  <2>1. Telling(T)  BY DEF True
  <2>2. /\ \A k : <<"device", k>> \in R.told <=> <<"device", k>> \in T.told
        /\ \A n : <<"neighbor", n>> \in R.told <=> <<"neighbor", n>> \in T.told
        /\ \A x : x \in T.told => x \in R.told
    BY <1>2
  <2>3. ASSUME NEW k \in MACs, NEW id \in Nat, <<"vlan", id>> \in R.traits[k]
        PROVE  <<"vlan", k, id>> \in R.told
    <3>1. CASE <<"vlan", id>> \in T.traits[k]
      BY <2>1, <2>2, <3>1 DEF Telling
    <3>2. CASE <<"vlan", id>> \notin T.traits[k]
      <4>1. T.traits = [c \in MACs |-> T.traits[c]]  BY <1>1 DEF IsTable
      <4>2. k = m /\ <<"vlan", id>> \in X  BY <1>2, <2>3, <3>2, <4>1
      <4>3. <<"vlan", m, id>> \in Y  BY <4>2
      <4> QED  BY <1>2, <4>2, <4>3
    <3> QED  BY <3>1, <3>2
  <2> QED  BY <1>2, <1>3, <1>4, <2>1, <2>2, <2>3 DEF Telling
<1> QED  BY <1>1, <1>2, <1>4, <1>5, <1>6 DEF True

\* Ranks of states.
LEMMA Ranks ==
  /\ \A state \in States : Rank(state) \in 0..3 /\ (Rank(state) = 0 <=> state = "none")
  /\ Rank("none") = 0 /\ Rank("seen") = 1 /\ ~Strong("seen") /\ ~Strong("none")
  /\ \A state \in States : Strong(state) <=> Rank(state) >= 2
BY DEF Rank, States, Strong

\* A fact of an address that is no address of the model changes nothing.
LEMMA MoreSaid ==
  ASSUME NEW T, NEW S, NEW L, NEW E, True(T, S, L, E), NEW m, NEW state
  PROVE  True(T, S \cup {<<m, NoAddr, state>>}, L, E)
<1>1. \A k, a, s : a \in Addrs => (<<k, a, s>> \in S \cup {<<m, NoAddr, state>>} <=> <<k, a, s>> \in S)
  BY KeysTyped
<1>2. Ranked(T, S \cup {<<m, NoAddr, state>>})  BY <1>1 DEF Ranked, True
<1>3. Limited(T, S \cup {<<m, NoAddr, state>>})  BY <1>1 DEF Limited, True
<1> QED  BY <1>2, <1>3 DEF True

\* A claim that is known already is dated again.
Refreshed(T, m, a, at) == [T EXCEPT !.addresses[m][a].last = Later(@, at)]

LEMMA RefreshTrue ==
  ASSUME NEW T, NEW S, NEW L, NEW E, True(T, S, L, E), NEW m \in MACs, NEW a \in Addrs,
         NEW state \in States \ {"none"}, NEW at \in Times,
         State(T, m, a) # "none", Rank(state) <= Rank(State(T, m, a)),
         NEW R, R = Refreshed(T, m, a, at)
  PROVE  /\ True(R, S \cup {<<m, a, state>>}, L, E) /\ R.dhcp = T.dhcp /\ R.neighbors = T.neighbors
         /\ \A k \in MACs : Known(R, k) <=> Known(T, k)
<1>1. IsTable(T)  BY DEF True
<1> DEFINE A == [T.addresses EXCEPT ![m][a].last = Later(T.addresses[m][a].last, at)]
<1>2. T.addresses[m][a] \in Address /\ T.addresses \in [MACs -> [Addrs -> Address]]  BY <1>1 DEF IsTable
<1>3. Later(T.addresses[m][a].last, at) \in 0..MaxTime  BY <1>2, TimesTyped DEF Address, Later
<1>4. A \in [MACs -> [Addrs -> Address]]  BY <1>2, <1>3 DEF Address
<1>5. \A k \in MACs, b \in Addrs : A[k][b].state = T.addresses[k][b].state  BY <1>2 DEF Address
<1>6. R = Changed(T, T.devices, A, T.claims, T.told)
  <2>1. Refreshed(T, m, a, at) = [T EXCEPT !.addresses = A]  BY DEF Refreshed
  <2> HIDE DEF A
  <2> QED  BY <1>1, <2>1 DEF IsTable, IsTab, Tab, Changed
<1> HIDE DEF A
<1>7. /\ IsTable(R) /\ R.devices = T.devices /\ R.addresses = A /\ R.claims = T.claims /\ R.told = T.told
      /\ R.order = T.order /\ R.traits = T.traits /\ R.dhcp = T.dhcp /\ R.neighbors = T.neighbors
  <2>1. T.devices \in [MACs -> Device] /\ T.claims \in [Addrs -> Conflict]  BY <1>1 DEF IsTable
  <2> QED  BY SMTT(30), <1>1, <1>4, <1>6, <2>1, ChangedIsTable
<1>8. \A k \in MACs, b \in Addrs : State(R, k, b) = State(T, k, b)  BY <1>5, <1>7 DEF State
<1>9. \A k \in MACs, b \in Addrs : weakCount(R, k, b) = weakCount(T, k, b)
  <2> SUFFICES ASSUME NEW k \in MACs, NEW b \in Addrs  PROVE weakCount(R, k, b) = weakCount(T, k, b)
    OBVIOUS
  <2>1. Family(b) \subseteq Addrs  BY DEF Family, Addrs
  <2>2. {c \in Family(b) : R.addresses[k][c].state = "seen"} = {c \in Family(b) : T.addresses[k][c].state = "seen"}
    BY <1>5, <1>7, <2>1
  <2> QED  BY <2>2 DEF weakCount
<1>10. \A k \in MACs : Known(R, k) <=> Known(T, k)  BY <1>7 DEF Known
<1>11. Ranked(R, S \cup {<<m, a, state>>})  BY <1>8 DEF Ranked, True
<1>12. Limited(R, S \cup {<<m, a, state>>})  BY <1>7, <1>8, <1>9 DEF Limited, True
<1>13. Listing(R)  BY <1>7, <1>8 DEF True, Listing
<1>14. Dated(R, L)  BY <1>7, <1>10 DEF True, Dated
<1>15. Telling(R)  BY <1>7, <1>8, <1>10 DEF True, Telling
<1>16. Timed(R, E)  BY <1>7 DEF True, Timed
<1> QED  BY <1>7, <1>10, <1>11, <1>12, <1>13, <1>14, <1>15, <1>16 DEF True

\* A weak address beyond the limit is counted.
Dropped(T, m) == [T EXCEPT !.devices[m].overflow = @ + 1]

LEMMA DropTrue ==
  ASSUME NEW T, NEW S, NEW L, NEW E, True(T, S, L, E), NEW m \in MACs, NEW a \in Addrs, Known(T, m),
         NEW R, R = Dropped(T, m)
  PROVE  /\ True(R, S \cup {<<m, a, "seen">>}, L, E) /\ R.dhcp = T.dhcp /\ R.neighbors = T.neighbors
         /\ \A k \in MACs : Known(R, k) <=> Known(T, k)
<1>1. IsTable(T)  BY DEF True
<1> DEFINE D == [T.devices EXCEPT ![m].overflow = T.devices[m].overflow + 1]
<1>2. T.devices[m] \in Device /\ T.devices \in [MACs -> Device]  BY <1>1 DEF IsTable
<1>3. D \in [MACs -> Device]  BY <1>2 DEF Device
<1>4. /\ \A k \in MACs : k # m => D[k] = T.devices[k]
      /\ D[m].first = T.devices[m].first /\ D[m].last = T.devices[m].last
      /\ D[m].confirmed = T.devices[m].confirmed
      /\ D[m].overflow = T.devices[m].overflow + 1 /\ T.devices[m].overflow \in Nat
  BY <1>2 DEF Device
<1>5. R = Changed(T, D, T.addresses, T.claims, T.told)
  <2>1. Dropped(T, m) = [T EXCEPT !.devices = D]  BY DEF Dropped
  <2> HIDE DEF D
  <2> QED  BY <1>1, <2>1 DEF IsTable, IsTab, Tab, Changed
<1> HIDE DEF D
<1>6. /\ IsTable(R) /\ R.devices = D /\ R.addresses = T.addresses /\ R.claims = T.claims /\ R.told = T.told
      /\ R.order = T.order /\ R.traits = T.traits /\ R.dhcp = T.dhcp /\ R.neighbors = T.neighbors
  <2>1. T.addresses \in [MACs -> [Addrs -> Address]] /\ T.claims \in [Addrs -> Conflict]  BY <1>1 DEF IsTable
  <2> QED  BY <1>1, <1>3, <1>5, <2>1, ChangedIsTable
<1>7. \A k \in MACs, b \in Addrs : State(R, k, b) = State(T, k, b) /\ weakCount(R, k, b) = weakCount(T, k, b)
  BY <1>6 DEF State, weakCount
<1>8. \A k \in MACs : Known(R, k) <=> Known(T, k)  BY <1>4, <1>6 DEF Known
<1>9. /\ \A k \in MACs : R.devices[k].confirmed = T.devices[k].confirmed
      /\ \A k \in MACs : T.devices[k].overflow > 0 => R.devices[k].overflow > 0
      /\ R.devices[m].overflow > 0
  BY <1>4, <1>6
<1>10. Ranked(R, S \cup {<<m, a, "seen">>})  BY <1>7 DEF Ranked, True
<1>11. Limited(R, S \cup {<<m, a, "seen">>})
  <2>1. \A k, b : <<k, b, "seen">> \in S \cup {<<m, a, "seen">>} => <<k, b, "seen">> \in S \/ k = m
    OBVIOUS
  <2> QED  BY <1>7, <1>9, <2>1 DEF Limited, True
<1>12. Listing(R)  BY <1>6, <1>7, <1>9 DEF Listing, True
<1>13. Dated(R, L)
  <2>1. \A k \in MACs : R.devices[k].first = T.devices[k].first /\ R.devices[k].last = T.devices[k].last
    BY <1>4, <1>6
  <2>2. \A k \in MACs : ~Known(R, k) => R.devices[k] = T.devices[k]  BY <1>4, <1>6, <1>8
  <2> QED  BY <1>8, <2>1, <2>2 DEF Dated, True
<1>14. Telling(R) /\ Timed(R, E)
  BY <1>6, <1>7, <1>8 DEF True, Telling, Timed
<1> QED  BY <1>6, <1>8, <1>10, <1>11, <1>12, <1>13, <1>14 DEF True

\* The weak addresses of a device after a claim was raised.
WeakSet(T, m, a) == {b \in Family(a) : State(T, m, b) = "seen"}

LEMMA WeakSets ==
  ASSUME NEW T, NEW m, NEW a
  PROVE  /\ weakCount(T, m, a) = Cardinality(WeakSet(T, m, a))
         /\ IsFiniteSet(WeakSet(T, m, a)) /\ WeakSet(T, m, a) \subseteq Family(a)
<1>1. weakCount(T, m, a) = Cardinality(WeakSet(T, m, a))  BY DEF weakCount, WeakSet, State
<1>2. WeakSet(T, m, a) \in SUBSET Addrs  BY DEF WeakSet, Family, Addrs
<1>3. IsFiniteSet(WeakSet(T, m, a))  BY <1>2, FS_Subset, KeysTyped
<1> QED  BY <1>1, <1>3 DEF WeakSet

LEMMA WeakRaised ==
  ASSUME NEW T, NEW R, NEW m \in MACs, NEW a \in Addrs, NEW state \in States,
         state = "seen" => weakCount(T, m, a) < MaxWeak,
         \A k \in MACs, b \in Addrs : State(R, k, b) = (IF k = m /\ b = a THEN state ELSE State(T, k, b)),
         NEW k \in MACs, NEW b \in Addrs, weakCount(T, k, b) <= MaxWeak
  PROVE  weakCount(R, k, b) <= MaxWeak
<1> DEFINE W == WeakSet(T, k, b)
           V == WeakSet(R, k, b)
<1>1. /\ weakCount(T, k, b) = Cardinality(W) /\ weakCount(R, k, b) = Cardinality(V)
      /\ IsFiniteSet(W) /\ IsFiniteSet(V)
  BY WeakSets
<1>2. \A c \in Family(b) : c \in Addrs  BY DEF Family, Addrs
<1>3. \A c : c \in V <=> c \in Family(b) /\ State(R, k, c) = "seen"  BY DEF WeakSet
<1>4. \A c : c \in W <=> c \in Family(b) /\ State(T, k, c) = "seen"  BY DEF WeakSet
<1> HIDE DEF W, V
<1>5. Cardinality(W) \in Nat /\ Cardinality(V) \in Nat /\ MaxWeak \in Nat
  BY <1>1, FS_CardinalityType, BoundsTyped
<1>6. CASE k = m /\ a \in Family(b) /\ state = "seen"
  <2>1. V \subseteq W \cup {a}  BY <1>2, <1>3, <1>4
  <2>2. Family(a) = Family(b)
    BY <1>6, KeysTyped DEF Family, Addrs
  <2>3. weakCount(T, k, b) = weakCount(T, m, a)  BY <1>6, <2>2 DEF weakCount
  <2>4. Cardinality(W) < MaxWeak  BY <1>1, <1>6, <2>3
  <2>5. IsFiniteSet(W \cup {a}) /\ Cardinality(W \cup {a}) <= Cardinality(W) + 1 /\ Cardinality(W \cup {a}) \in Nat
    <3>1. /\ IsFiniteSet(W \cup {a})
          /\ Cardinality(W \cup {a}) = IF a \in W THEN Cardinality(W) ELSE Cardinality(W) + 1
      BY <1>1, FS_AddElement
    <3> QED  BY <1>5, <3>1
  <2>6. Cardinality(V) <= Cardinality(W \cup {a})  BY <2>1, <2>5, FS_Subset
  <2> QED  BY <1>1, <1>5, <2>4, <2>5, <2>6
<1>7. CASE ~(k = m /\ a \in Family(b) /\ state = "seen")
  <2>1. V \subseteq W  BY <1>2, <1>3, <1>4, <1>7
  <2>2. Cardinality(V) <= Cardinality(W)  BY <1>1, <2>1, FS_Subset
  <2> QED  BY <1>1, <1>5, <2>2
<1> QED  BY <1>6, <1>7

\* The claims d on an address are c after one more.
IsClaimed(d, c, m, at) ==
  /\ d.macs # <<>> /\ Distinct(d.macs)
  /\ Listed(d.macs) = Listed(c.macs) \cup {m}
  /\ IsNew(c, m) \/ d.macs = c.macs
  /\ d.macs = WithMAC(c, m)
  /\ d.last = at /\ d.first = (IF c.macs = <<>> THEN at ELSE c.first)

LEMMA ClaimEffect ==
  ASSUME NEW c \in Conflict, Distinct(c.macs), NEW m \in MACs, NEW at
  PROVE  IsClaimed(Claim(c, m, at), c, m, at)
<1>1. Claim(c, m, at).macs = WithMAC(c, m)  BY DEF Claim
<1>2. c.macs \in Seq(MACs)  BY DEF Conflict
<1>3. Claim(c, m, at).last = at /\ Claim(c, m, at).first = (IF c.macs = <<>> THEN at ELSE c.first)
  BY DEF Claim
<1>4. CASE IsNew(c, m)
  <2>1. WithMAC(c, m) = Append(c.macs, m)  BY <1>4 DEF WithMAC
  <2>2. m \notin Listed(c.macs)  BY <1>4 DEF IsNew, Listed
  <2>3. Distinct(Append(c.macs, m)) /\ Listed(Append(c.macs, m)) = Listed(c.macs) \cup {m}
    BY <1>2, <2>2, AppendNew
  <2>4. Append(c.macs, m) \in Seq(MACs) /\ Append(c.macs, m) # <<>>  BY <1>2
  <2> QED  BY <1>1, <1>3, <1>4, <2>1, <2>3, <2>4 DEF IsClaimed
<1>5. CASE ~IsNew(c, m)
  <2>1. WithMAC(c, m) = c.macs  BY <1>5 DEF WithMAC
  <2>2. m \in Listed(c.macs) /\ c.macs # <<>>  BY <1>2, <1>5 DEF IsNew, Listed
  <2> QED  BY <1>1, <1>2, <1>3, <2>1, <2>2 DEF IsClaimed
<1> QED  BY <1>4, <1>5

LEMMA RaiseTrue ==
  ASSUME NEW T, NEW S, NEW L, NEW E, True(T, S, L, E), NEW m \in MACs, NEW a \in Addrs, Known(T, m),
         NEW state \in States \ {"none"}, NEW at \in Times, NEW s, <<at, s>> \in E,
         \A e \in E : e[2] = s => e[1] <= at,
         State(T, m, a) = "none" \/ Rank(state) > Rank(State(T, m, a)),
         state = "seen" => weakCount(T, m, a) < MaxWeak,
         NEW R, IsRaised(R, T, m, a, state, at)
  PROVE  /\ True(R, S \cup {<<m, a, state>>}, L, E) /\ R.dhcp = T.dhcp /\ R.neighbors = T.neighbors
         /\ \A k \in MACs : Known(R, k) <=> Known(T, k)
<1>1. IsTable(T) /\ IsTable(R)  BY DEF True, IsRaised
<1> DEFINE G == S \cup {<<m, a, state>>}
<1>2. \A k \in MACs, b \in Addrs : State(R, k, b) = (IF k = m /\ b = a THEN state ELSE State(T, k, b))
  <2>1. R.addresses = [T.addresses EXCEPT ![m][a] = Entry(T.addresses[m][a], state, at)]
    BY DEF IsRaised, Enter
  <2>2. Entry(T.addresses[m][a], state, at).state = state  BY DEF Entry
  <2> QED  BY <1>1, <2>1, <2>2 DEF State, IsTable
<1>3. /\ \A k \in MACs : R.devices[k].first = T.devices[k].first /\ R.devices[k].last = T.devices[k].last
                         /\ R.devices[k].overflow = T.devices[k].overflow
      /\ \A k \in MACs : k # m => R.devices[k] = T.devices[k]
  BY <1>1 DEF IsRaised, Confirm, IsTable, Device
<1>4. R.devices[m].confirmed <=> T.devices[m].confirmed \/ Strong(state)
  <2> DEFINE c == T.devices[m].confirmed \/ Strong(state)
  <2>1. R.devices = [T.devices EXCEPT ![m].confirmed = c]  BY DEF IsRaised, Confirm
  <2> HIDE DEF c
  <2>2. R.devices[m].confirmed = c  BY <1>1, <2>1 DEF IsTable, Device
  <2> QED  BY <2>2 DEF c
<1>5. \A k \in MACs : Known(R, k) <=> Known(T, k)  BY <1>3 DEF Known
<1>6. State(T, m, a) \in States /\ state \in States /\ Rank(state) > Rank(State(T, m, a))
      /\ Rank(state) \in 0..3 /\ Rank(State(T, m, a)) \in 0..3
  <2>1. State(T, m, a) \in States  BY <1>1 DEF IsTable, Address, State
  <2> QED  BY <2>1, Ranks
<1>7. \A said \in States : Rank(said) \in 0..3  BY Ranks
<1>8. Ranked(R, G)
  <2>1. Ranked(T, S)  BY DEF True
  <2> SUFFICES ASSUME NEW k \in MACs, NEW b \in Addrs
      PROVE  /\ State(R, k, b) # "none" => <<k, b, State(R, k, b)>> \in G
             /\ \A said \in States \ {"seen"} : <<k, b, said>> \in G => Rank(said) <= Rank(State(R, k, b))
    BY DEF Ranked
  <2>2. CASE k = m /\ b = a
    <3>1. State(R, k, b) = state  BY <1>2, <2>2
    <3>2. ASSUME NEW said \in States \ {"seen"}, <<k, b, said>> \in G  PROVE Rank(said) <= Rank(state)
      <4>1. CASE said = state  BY <1>6, <4>1
      <4>2. CASE <<m, a, said>> \in S
        <5>1. Rank(said) <= Rank(State(T, m, a))  BY <2>1, <4>2 DEF Ranked
        <5> QED  BY <1>6, <1>7, <5>1
      <4> QED  BY <2>2, <3>2, <4>1, <4>2
    <3> QED  BY <2>2, <3>1, <3>2
  <2>3. CASE ~(k = m /\ b = a)
    <3>1. State(R, k, b) = State(T, k, b)  BY <1>2, <2>3
    <3>2. \A x : <<k, b, x>> \in G <=> <<k, b, x>> \in S  BY <2>3
    <3> QED  BY <2>1, <3>1, <3>2 DEF Ranked
  <2> QED  BY <2>2, <2>3
<1>9. Limited(R, G)
  <2>1. Limited(T, S)  BY DEF True
  <2> SUFFICES ASSUME NEW k \in MACs, NEW b \in Addrs
      PROVE  /\ weakCount(R, k, b) <= MaxWeak
             /\ <<k, b, "seen">> \in G /\ State(R, k, b) = "none" => R.devices[k].overflow > 0
    BY DEF Limited
  <2>2. weakCount(R, k, b) <= MaxWeak
    <3>1. weakCount(T, k, b) <= MaxWeak  BY <2>1 DEF Limited
    <3> QED  BY <1>2, <1>6, <3>1, WeakRaised
  <2>3. ASSUME <<k, b, "seen">> \in G, State(R, k, b) = "none"  PROVE R.devices[k].overflow > 0
    <3>1. ~(k = m /\ b = a)  BY <1>2, <2>3
    <3>2. <<k, b, "seen">> \in S /\ State(T, k, b) = "none"  BY <1>2, <2>3, <3>1
    <3> QED  BY <1>3, <2>1, <3>2 DEF Limited
  <2> QED  BY <2>2, <2>3
<1>10. /\ \A b \in Addrs : b # a => R.claims[b] = T.claims[b]
       /\ ~Strong(state) => R.claims[a] = T.claims[a]
       /\ Strong(state) => R.claims[a] = Claim(T.claims[a], m, at)
  <2>1. T.claims \in [Addrs -> Conflict]  BY <1>1 DEF IsTable
  <2>2. CASE Strong(state)
    <3>1. R.claims = [T.claims EXCEPT ![a] = Claim(T.claims[a], m, at)]  BY <2>2 DEF IsRaised
    <3> QED  BY <2>1, <2>2, <3>1
  <2>3. CASE ~Strong(state)
    <3>1. R.claims = T.claims  BY <2>3 DEF IsRaised
    <3> QED  BY <2>3, <3>1
  <2> QED  BY <2>2, <2>3
<1>11. T.claims[a] \in Conflict /\ Distinct(T.claims[a].macs)
  BY <1>1 DEF IsTable, True, Listing
<1>12. Strong(state) =>
         /\ R.claims[a].macs # <<>> /\ Distinct(R.claims[a].macs)
         /\ Listed(R.claims[a].macs) = Listed(T.claims[a].macs) \cup {m}
         /\ IsNew(T.claims[a], m) \/ R.claims[a].macs = T.claims[a].macs
         /\ R.claims[a].macs = WithMAC(T.claims[a], m)
         /\ R.claims[a].last = at
         /\ R.claims[a].first = (IF T.claims[a].macs = <<>> THEN at ELSE T.claims[a].first)
  <2>1. IsClaimed(Claim(T.claims[a], m, at), T.claims[a], m, at)  BY <1>11, ClaimEffect
  <2> QED  BY <1>10, <2>1 DEF IsClaimed
<1>13. Strong(State(T, m, a)) => Strong(state)  BY <1>6, Ranks
<1>14. Listing(R)
  <2>1. Listing(T)  BY DEF True
  <2>2. ASSUME NEW b \in Addrs
        PROVE  /\ Distinct(R.claims[b].macs)
               /\ \A k \in MACs : k \in Listed(R.claims[b].macs) <=> Strong(State(R, k, b))
    <3>1. CASE b # a  BY <1>2, <1>10, <2>1, <3>1 DEF Listing
    <3>2. CASE b = a /\ ~Strong(state)
      <4>1. R.claims[b] = T.claims[b]  BY <1>10, <3>2
      <4>2. \A k \in MACs : Strong(State(R, k, a)) <=> Strong(State(T, k, a))
        BY <1>2, <1>13, <3>2
      <4> QED  BY <2>1, <3>2, <4>1, <4>2 DEF Listing
    <3>3. CASE b = a /\ Strong(state)
      <4>1. \A k \in MACs : Strong(State(R, k, a)) <=> Strong(State(T, k, a)) \/ k = m
        BY <1>2, <3>3
      <4> QED  BY <1>12, <2>1, <3>3, <4>1 DEF Listing
    <3> QED  BY <3>1, <3>2, <3>3
  <2>3. ASSUME NEW k \in MACs  PROVE R.devices[k].confirmed <=> \E b \in Addrs : Strong(State(R, k, b))
    <3>1. T.devices[k].confirmed <=> \E b \in Addrs : Strong(State(T, k, b))  BY <2>1 DEF Listing
    <3>2. CASE k # m
      <4>1. \A b \in Addrs : State(R, k, b) = State(T, k, b)  BY <1>2, <3>2
      <4>2. R.devices[k] = T.devices[k]  BY <1>3, <3>2
      <4> QED  BY <3>1, <4>1, <4>2
    <3>3. CASE k = m
      <4>1. \A b \in Addrs : b # a => State(R, m, b) = State(T, m, b)  BY <1>2
      <4>2. State(R, m, a) = state  BY <1>2
      <4> QED  BY <1>4, <1>13, <3>1, <3>3, <4>1, <4>2
    <3> QED  BY <3>2, <3>3
  <2> QED  BY <2>2, <2>3 DEF Listing
<1>15. Dated(R, L)
  <2>1. Dated(T, L)  BY DEF True
  <2>2. \A k \in MACs : ~Known(R, k) => R.devices[k] = T.devices[k]  BY <1>3, <1>5
  <2> QED  BY <1>3, <1>5, <2>1, <2>2 DEF Dated
<1>16. Telling(R)
  <2>1. Telling(T)  BY DEF True
  <2>2. R.told = T.told \cup {<<"address", m, a, state>>}
                    \cup (IF Strong(state) THEN Clash(T.claims[a], m, a) ELSE {})
    BY DEF IsRaised
  <2>3. /\ \A x : x \in T.told => x \in R.told
        /\ <<"address", m, a, state>> \in R.told
        /\ Strong(state) => Clash(T.claims[a], m, a) \subseteq R.told
    BY <2>2
  <2>4. /\ \A k : <<"device", k>> \in R.told <=> <<"device", k>> \in T.told
        /\ \A n : <<"neighbor", n>> \in R.told <=> <<"neighbor", n>> \in T.told
    BY <2>2 DEF Clash
  <2>5. /\ R.order = T.order /\ R.traits = T.traits /\ R.neighbors = T.neighbors  BY DEF IsRaised
  <2>6. ASSUME NEW b \in Addrs, Len(R.claims[b].macs) > 1
        PROVE  <<"conflict", b, R.claims[b].macs>> \in R.told
    <3>1. CASE R.claims[b].macs = T.claims[b].macs
      BY <2>1, <2>3, <2>6, <3>1 DEF Telling
    <3>2. CASE R.claims[b].macs # T.claims[b].macs
      <4>1. b = a /\ Strong(state)  BY <1>10, <3>2
      <4>2. IsNew(T.claims[a], m) /\ R.claims[a].macs = WithMAC(T.claims[a], m)  BY <1>12, <3>2, <4>1
      <4>3. <<"conflict", a, WithMAC(T.claims[a], m)>> \in Clash(T.claims[a], m, a)
        BY <2>6, <4>1, <4>2 DEF Clash
      <4> QED  BY <2>3, <4>1, <4>2, <4>3
    <3> QED  BY <3>1, <3>2
  <2>7. ASSUME NEW k \in MACs, NEW b \in Addrs, State(R, k, b) # "none"
        PROVE  Known(R, k) /\ <<"address", k, b, State(R, k, b)>> \in R.told
    <3>1. CASE k = m /\ b = a  BY <1>2, <1>5, <2>3, <3>1
    <3>2. CASE ~(k = m /\ b = a)
      <4>1. State(R, k, b) = State(T, k, b)  BY <1>2, <3>2
      <4> QED  BY <1>5, <2>1, <2>3, <2>7, <4>1 DEF Telling
    <3> QED  BY <3>1, <3>2
  <2> QED  BY <1>5, <2>1, <2>3, <2>4, <2>5, <2>6, <2>7 DEF Telling
<1>17. Timed(R, E)
  <2>1. Timed(T, E)  BY DEF True
  <2> SUFFICES ASSUME NEW b \in Addrs
      PROVE  /\ R.claims[b].macs # <<>> => \E e \in E : e[1] = R.claims[b].first
             /\ R.claims[b].last < R.claims[b].first => \E e, f \in E : e[2] # f[2]
    BY DEF Timed
  <2>2. CASE R.claims[b] = T.claims[b]  BY <2>1, <2>2 DEF Timed
  <2>3. CASE R.claims[b] # T.claims[b]
    <3>1. b = a /\ Strong(state)  BY <1>10, <2>3
    <3>2. R.claims[a].last = at  BY <1>12, <3>1
    <3>3. PICK e \in E : e[1] = R.claims[a].first
      <4>1. CASE T.claims[a].macs = <<>>
        <5>1. R.claims[a].first = at  BY <1>12, <3>1, <4>1
        <5> QED  BY <5>1
      <4>2. CASE T.claims[a].macs # <<>>
        <5>1. R.claims[a].first = T.claims[a].first  BY <1>12, <3>1, <4>2
        <5> QED  BY <2>1, <4>2, <5>1 DEF Timed
      <4> QED  BY <4>1, <4>2
    <3>4. R.claims[a].last \in Nat /\ R.claims[a].first \in Nat
      BY <1>1 DEF IsTable, Conflict
    <3>5. R.claims[a].last < R.claims[a].first => e[2] # s
      BY <3>2, <3>3, <3>4
    <3>6. R.claims[a].last < R.claims[a].first => \E g, f \in E : g[2] # f[2]
      <4>1. <<at, s>>[2] = s  OBVIOUS
      <4> QED  BY <3>3, <3>5, <4>1
    <3> QED  BY <3>1, <3>3, <3>6
  <2> QED  BY <2>2, <2>3
<1> QED  BY <1>1, <1>5, <1>8, <1>9, <1>14, <1>15, <1>16, <1>17 DEF True, IsRaised

\* What is asked of the packet being applied: it came at a time from a
\* source, whose earlier packets are not younger.
Latest(E, at, s) == <<at, s>> \in E /\ \A e \in E : e[2] = s => e[1] <= at

\* addAddress: a device was said to have an address.
LEMMA AddressTrue ==
  ASSUME NEW T, NEW S, NEW L, NEW E, True(T, S, L, E), NEW m \in MACs, NEW a \in Addrs \cup {NoAddr},
         Known(T, m), NEW state \in States \ {"none"}, NEW at \in Times, NEW s, Latest(E, at, s),
         NEW R, R = addAddress(T, m, a, state, at)
  PROVE  /\ True(R, S \cup {<<m, a, state>>}, L, E) /\ R.dhcp = T.dhcp /\ R.neighbors = T.neighbors
         /\ \A k \in MACs : Known(R, k) <=> Known(T, k)
<1>1. CASE a = NoAddr
  <2>1. addAddress(T, m, a, state, at) = T  BY <1>1 DEF addAddress
  <2>2. True(T, S \cup {<<m, a, state>>}, L, E)  BY <1>1, MoreSaid
  <2> QED  BY <2>1, <2>2
<1>2. CASE a # NoAddr /\ State(T, m, a) # "none" /\ Rank(state) <= Rank(State(T, m, a))
  <2>1. addAddress(T, m, a, state, at) = Refreshed(T, m, a, at)
    BY <1>2 DEF addAddress, Refreshed, State
  <2>2. a \in Addrs /\ R = Refreshed(T, m, a, at)  BY <1>2, <2>1
  <2> QED  BY <1>2, <2>2, RefreshTrue
<1>3. CASE a # NoAddr /\ State(T, m, a) = "none" /\ state = "seen" /\ weakCount(T, m, a) >= MaxWeak
  <2>1. addAddress(T, m, a, state, at) = Dropped(T, m)
    BY <1>3 DEF addAddress, Dropped, State
  <2>2. a \in Addrs /\ R = Dropped(T, m)  BY <1>3, <2>1
  <2> QED  BY <1>3, <2>2, DropTrue
<1>4. CASE /\ a # NoAddr
           /\ ~(State(T, m, a) # "none" /\ Rank(state) <= Rank(State(T, m, a)))
           /\ ~(State(T, m, a) = "none" /\ state = "seen" /\ weakCount(T, m, a) >= MaxWeak)
  <2>1. addAddress(T, m, a, state, at) = raised(T, m, a, state, at)
    BY <1>4 DEF addAddress, State
  <2>2. IsTable(T) /\ a \in Addrs  BY <1>4 DEF True
  <2>3. IsRaised(R, T, m, a, state, at)  BY <2>1, <2>2, RaisedEffect
  <2>4. State(T, m, a) \in States /\ Rank(State(T, m, a)) \in 0..3 /\ Rank(state) \in 0..3
    <3>1. State(T, m, a) \in States  BY <2>2 DEF IsTable, Address, State
    <3> QED  BY <3>1, Ranks
  <2>5. State(T, m, a) = "none" \/ Rank(state) > Rank(State(T, m, a))  BY <1>4, <2>4
  <2>6. state = "seen" => State(T, m, a) = "none"
    <3>1. Rank("seen") = 1  BY Ranks
    <3>2. state = "seen" /\ State(T, m, a) # "none" => Rank(State(T, m, a)) = 0  BY <2>4, <2>5, <3>1
    <3> QED  BY <2>4, <3>2, Ranks
  <2>7. weakCount(T, m, a) \in Nat /\ MaxWeak \in Nat
    BY WeakSets, FS_CardinalityType, BoundsTyped
  <2>8. state = "seen" => weakCount(T, m, a) < MaxWeak  BY <1>4, <2>6, <2>7
  <2>9. <<at, s>> \in E /\ \A e \in E : e[2] = s => e[1] <= at  BY DEF Latest
  <2> HIDE DEF Latest
  <2> QED  BY <2>2, <2>3, <2>5, <2>8, <2>9, RaiseTrue
<1> QED  BY <1>1, <1>2, <1>3, <1>4

\* What is told of nobody, and a packet more, take nothing from the truth.
LEMMA MoreHeard ==
  ASSUME NEW T, NEW S, NEW L, NEW E, True(T, S, L, E), NEW at
  PROVE  True(T, S, L \cup {<<NoMAC, at>>}, E)
<1>1. \A k \in MACs : \A t : <<k, t>> \in L \cup {<<NoMAC, at>>} <=> <<k, t>> \in L
  BY KeysTyped
<1>2. Dated(T, L \cup {<<NoMAC, at>>})  BY <1>1 DEF Dated, True
<1> QED  BY <1>2 DEF True

LEMMA NobodySaid ==
  ASSUME NEW T, NEW S, NEW L, NEW E, True(T, S, L, E), NEW a, NEW state
  PROVE  True(T, S \cup {<<NoMAC, a, state>>}, L, E)
<1>1. \A k \in MACs : \A b, x : <<k, b, x>> \in S \cup {<<NoMAC, a, state>>} <=> <<k, b, x>> \in S
  BY KeysTyped
<1>2. Ranked(T, S \cup {<<NoMAC, a, state>>})  BY <1>1 DEF Ranked, True
<1>3. Limited(T, S \cup {<<NoMAC, a, state>>})  BY <1>1 DEF Limited, True
<1> QED  BY <1>2, <1>3 DEF True

LEMMA MoreCame ==
  ASSUME NEW T, NEW S, NEW L, NEW E, True(T, S, L, E), NEW F, E \subseteq F
  PROVE  True(T, S, L, F)
<1>1. Timed(T, F)  BY DEF Timed, True
<1> QED  BY <1>1 DEF True

\* Only what is said of devices, addresses and times of the model counts.
LEMMA SameTruth ==
  ASSUME NEW T, NEW S, NEW L, NEW E, True(T, S, L, E), NEW P, NEW Q,
         \A m \in MACs, a \in Addrs, state \in States : <<m, a, state>> \in S <=> <<m, a, state>> \in P,
         \A m \in MACs, at \in Times : <<m, at>> \in L <=> <<m, at>> \in Q
  PROVE  True(T, P, Q, E)
<1>1. IsTable(T)  BY DEF True
<1>2. \A m \in MACs, a \in Addrs : State(T, m, a) \in States  BY <1>1 DEF IsTable, Address, State
<1>3. Ranked(T, P)  BY <1>2 DEF Ranked, True
<1>4. Limited(T, P)
  <2>1. "seen" \in States  BY DEF States
  <2> QED  BY <2>1 DEF Limited, True
<1>5. Dated(T, Q)
  <2>1. \A m \in MACs : Known(T, m) => T.devices[m].last \in Times
    <3> SUFFICES ASSUME NEW m \in MACs, Known(T, m)  PROVE T.devices[m].last \in Times
      OBVIOUS
    <3>1. T.devices[m] \in Device /\ T.devices[m].first # 0 /\ T.devices[m].first <= T.devices[m].last
      BY <1>1 DEF IsTable, True, Dated, Known
    <3> QED  BY <3>1, TimesTyped DEF Device
  <2> QED  BY <2>1 DEF Dated, True
<1> QED  BY <1>3, <1>4, <1>5 DEF True

\* R is T after packets spoke of addresses and devices, not of exchanges or
\* neighbors.
Kept(R, T) ==
  R.dhcp = T.dhcp /\ R.neighbors = T.neighbors /\ \A k \in MACs : Known(T, k) => Known(R, k)

LEMMA PacketFields ==
  ASSUME NEW p \in Packets
  PROVE  /\ p.src \in MACs \cup {NoMAC} /\ p.mac \in MACs \cup {NoMAC}
         /\ p.ip \in Addrs \cup {NoAddr} /\ p.addr \in Addrs \cup {NoAddr} /\ p.server \in Addrs \cup {NoAddr}
         /\ p.vlan \in Nat /\ p.name \in Neighbors /\ <<p.xid, p.mac>> \in Exchanges
BY PacketsTyped DEF Packet, Neighbors, Exchanges

LEMMA FrameTrue ==
  ASSUME NEW T, NEW S, NEW L, NEW E, True(T, S, L, E), NEW p \in Packets, NEW at \in Times,
         NEW R, R = applyFrame(T, p, at)
  PROVE  True(R, S, L \cup {<<p.src, at>>}, E) /\ Kept(R, T) /\ (p.src # NoMAC => Known(R, p.src))
<1>1. CASE p.src = NoMAC
  <2>1. applyFrame(T, p, at) = T  BY <1>1 DEF applyFrame
  <2>2. True(T, S, L \cup {<<p.src, at>>}, E)  BY <1>1, MoreHeard
  <2> QED  BY <1>1, <2>1, <2>2 DEF Kept
<1>2. CASE p.src # NoMAC
  <2> DEFINE F == touch(T, p.src, at)
  <2>1. p.src \in MACs  BY <1>2, PacketFields
  <2>2. /\ True(F, S, L \cup {<<p.src, at>>}, E) /\ Known(F, p.src)
        /\ \A k \in MACs : Known(T, k) => Known(F, k)
        /\ F.dhcp = T.dhcp /\ F.neighbors = T.neighbors
    <3>1. \A m \in MACs :
            /\ True(touch(T, m, at), S, L \cup {<<m, at>>}, E) /\ Known(touch(T, m, at), m)
            /\ \A k \in MACs : Known(T, k) => Known(touch(T, m, at), k)
            /\ touch(T, m, at).dhcp = T.dhcp /\ touch(T, m, at).neighbors = T.neighbors
      BY TouchTrue
    <3> QED  BY <2>1, <3>1
  <2>3. CASE p.vlan = 0
    <3>1. applyFrame(T, p, at) = F  BY <1>2, <2>3 DEF applyFrame
    <3> QED  BY <2>2, <3>1 DEF Kept
  <2>4. CASE p.vlan # 0
    <3>1. applyFrame(T, p, at) = addVLAN(F, p.src, p.vlan)  BY <1>2, <2>4 DEF applyFrame
    <3> HIDE DEF F
    <3>2. addVLAN(F, p.src, p.vlan) = Marked(F, p.src, {<<"vlan", p.vlan>>}, {<<"vlan", p.src, p.vlan>>})
      BY DEF addVLAN, Marked
    <3>3. p.vlan \in Nat  BY PacketFields
    <3> DEFINE X == {<<"vlan", p.vlan>>}
               Y == {<<"vlan", p.src, p.vlan>>}
    <3>4. \E id \in Nat : X = {<<"vlan", id>>} /\ Y = {<<"vlan", p.src, id>>}  BY <3>3
    <3>5. R = Marked(F, p.src, X, Y)  BY <3>1, <3>2
    <3> HIDE DEF X, Y
    <3>6. /\ True(R, S, L \cup {<<p.src, at>>}, E) /\ R.dhcp = F.dhcp /\ R.neighbors = F.neighbors
          /\ \A k \in MACs : Known(R, k) <=> Known(F, k)
      BY <2>1, <2>2, <3>4, <3>5, MarkTrue
    <3> QED  BY <2>1, <2>2, <3>6 DEF Kept
  <2> QED  BY <2>3, <2>4
<1> QED  BY <1>1, <1>2

\* A device that was heard runs a protocol.
LEMMA ProtocolTrue ==
  ASSUME NEW T, NEW S, NEW L, NEW E, True(T, S, L, E), NEW m \in MACs, NEW q,
         NEW R, R = addProtocol(T, m, q)
  PROVE  True(R, S, L, E) /\ Kept(R, T)
<1>1. IsTable(T)  BY DEF True
<1> DEFINE X == {<<"protocol", q>>}
<1>2. \A id \in Nat : <<"vlan", id>> \notin X  OBVIOUS
<1>3. R = Marked(T, m, X, {})  BY <1>1, MarksAre
<1> HIDE DEF X
<1>4. /\ True(R, S, L, E) /\ R.dhcp = T.dhcp /\ R.neighbors = T.neighbors
      /\ \A k \in MACs : Known(R, k) <=> Known(T, k)
  BY <1>2, <1>3, MarkTrue
<1> QED  BY <1>4 DEF Kept

LEMMA NameTrue ==
  ASSUME NEW T, NEW S, NEW L, NEW E, True(T, S, L, E), NEW m \in MACs, NEW q,
         NEW R, R = addName(T, m, q)
  PROVE  True(R, S, L, E) /\ Kept(R, T)
<1>1. CASE q = ""  BY <1>1 DEF addName, Kept
<1>2. CASE q # ""
  <2>1. IsTable(T)  BY DEF True
  <2> DEFINE X == {<<"name", q>>}
  <2>2. \A id \in Nat : <<"vlan", id>> \notin X  OBVIOUS
  <2>3. R = Marked(T, m, X, {})  BY <1>2, <2>1, MarksAre
  <2> HIDE DEF X
  <2>4. /\ True(R, S, L, E) /\ R.dhcp = T.dhcp /\ R.neighbors = T.neighbors
        /\ \A k \in MACs : Known(R, k) <=> Known(T, k)
    BY <2>2, <2>3, MarkTrue
  <2> QED  BY <2>4 DEF Kept
<1> QED  BY <1>1, <1>2

\* A device is heard, runs a protocol, and is known then.
LEMMA HeardTrue ==
  ASSUME NEW T, NEW S, NEW L, NEW E, True(T, S, L, E), NEW m \in MACs, NEW at \in Times, NEW q,
         NEW R, R = addProtocol(touch(T, m, at), m, q)
  PROVE  True(R, S, L \cup {<<m, at>>}, E) /\ Kept(R, T) /\ Known(R, m)
<1> DEFINE F == touch(T, m, at)
<1>1. /\ True(F, S, L \cup {<<m, at>>}, E) /\ Known(F, m)
      /\ \A k \in MACs : Known(T, k) => Known(F, k)
      /\ F.dhcp = T.dhcp /\ F.neighbors = T.neighbors
  BY TouchTrue
<1>2. R = addProtocol(F, m, q)  OBVIOUS
<1> HIDE DEF F
<1>3. True(R, S, L \cup {<<m, at>>}, E) /\ Kept(R, F)  BY <1>1, <1>2, ProtocolTrue
<1> QED  BY <1>1, <1>3 DEF Kept

LEMMA AddedTrue ==
  ASSUME NEW T, NEW B, NEW S, NEW L, NEW E, True(B, S, L, E), Kept(B, T), NEW m \in MACs, Known(B, m),
         NEW a \in Addrs \cup {NoAddr}, NEW state \in States \ {"none"}, NEW at \in Times,
         NEW s, Latest(E, at, s), NEW R, R = addAddress(B, m, a, state, at)
  PROVE  True(R, S \cup {<<m, a, state>>}, L, E) /\ Kept(R, T)
<1>1. /\ True(R, S \cup {<<m, a, state>>}, L, E) /\ R.dhcp = B.dhcp /\ R.neighbors = B.neighbors
      /\ \A k \in MACs : Known(R, k) <=> Known(B, k)
  BY AddressTrue
<1> QED  BY <1>1 DEF Kept

\* A device is heard, runs a protocol, and is said to have an address.
LEMMA SpeakerTrue ==
  ASSUME NEW T, NEW S, NEW L, NEW E, True(T, S, L, E), NEW m \in MACs, NEW q,
         NEW a \in Addrs \cup {NoAddr}, NEW state \in States \ {"none"}, NEW at \in Times,
         NEW s, Latest(E, at, s), NEW R, R = addAddress(addProtocol(touch(T, m, at), m, q), m, a, state, at)
  PROVE  True(R, S \cup {<<m, a, state>>}, L \cup {<<m, at>>}, E) /\ Kept(R, T)
<1> DEFINE B == addProtocol(touch(T, m, at), m, q)
<1>1. True(B, S, L \cup {<<m, at>>}, E) /\ Kept(B, T) /\ Known(B, m)  BY HeardTrue
<1>2. R = addAddress(B, m, a, state, at)  OBVIOUS
<1> HIDE DEF B
<1> QED  BY <1>1, <1>2, AddedTrue

\* A table where p was applied up to a point: its frame was.
Framed(T, S, L, E, p, at) == True(T, S, L, E) /\ <<p.src, at>> \in L /\ (p.src # NoMAC => Known(T, p.src))

LEMMA IPTrue ==
  ASSUME NEW T, NEW S, NEW L, NEW E, NEW p \in Packets, NEW at \in Times, NEW s, Latest(E, at, s),
         Framed(T, S, L, E, p, at), NEW R, R = applyIP(T, p, at)
  PROVE  Framed(R, S \cup {<<p.src, p.ip, "seen">>}, L, E, p, at) /\ Kept(R, T)
<1>1. True(T, S, L, E) /\ <<p.src, at>> \in L /\ (p.src # NoMAC => Known(T, p.src))  BY DEF Framed
<1>2. p.src \in MACs \cup {NoMAC} /\ p.ip \in Addrs \cup {NoAddr}  BY PacketFields
<1>3. CASE p.src = NoMAC \/ p.ip = NoAddr
  <2>1. applyIP(T, p, at) = T  BY <1>3 DEF applyIP
  <2>2. True(T, S \cup {<<p.src, p.ip, "seen">>}, L, E)
    <3>1. /\ \A a : True(T, S \cup {<<NoMAC, a, "seen">>}, L, E)
          /\ \A m : True(T, S \cup {<<m, NoAddr, "seen">>}, L, E)
      BY <1>1, NobodySaid, MoreSaid
    <3> QED  BY <1>3, <3>1
  <2> QED  BY <1>1, <2>1, <2>2 DEF Framed, Kept
<1>4. CASE p.src # NoMAC /\ p.ip # NoAddr
  <2>1. applyIP(T, p, at) = addAddress(touch(T, p.src, at), p.src, p.ip, "seen", at)
    BY <1>4 DEF applyIP
  <2> DEFINE Result(m, a) == addAddress(touch(T, m, at), m, a, "seen", at)
  <2>2. ASSUME NEW m \in MACs, NEW a \in Addrs, <<m, at>> \in L
        PROVE  True(Result(m, a), S \cup {<<m, a, "seen">>}, L, E) /\ Kept(Result(m, a), T)
    <3> DEFINE B == touch(T, m, at)
    <3>1. /\ True(B, S, L \cup {<<m, at>>}, E) /\ Known(B, m)
          /\ \A k \in MACs : Known(T, k) => Known(B, k)
          /\ B.dhcp = T.dhcp /\ B.neighbors = T.neighbors
      BY <1>1, TouchTrue
    <3>2. L \cup {<<m, at>>} = L  BY <2>2
    <3>3. Kept(B, T) /\ True(B, S, L, E)  BY <3>1, <3>2 DEF Kept
    <3>4. "seen" \in States \ {"none"}  BY DEF States
    <3>5. Result(m, a) = addAddress(B, m, a, "seen", at)  OBVIOUS
    <3> HIDE DEF B, Result
    <3> QED  BY <3>1, <3>3, <3>4, <3>5, AddedTrue
  <2>3. R = Result(p.src, p.ip)  BY <2>1
  <2>4. p.src \in MACs /\ p.ip \in Addrs  BY <1>2, <1>4
  <2> HIDE DEF Result
  <2>5. True(R, S \cup {<<p.src, p.ip, "seen">>}, L, E) /\ Kept(R, T)
    BY <1>1, <2>2, <2>3, <2>4
  <2> QED  BY <1>1, <2>4, <2>5 DEF Framed, Kept
<1> QED  BY <1>3, <1>4

LEMMA ARPTrue ==
  ASSUME NEW T, NEW S, NEW L, NEW E, NEW p \in Packets, NEW at \in Times, NEW s, Latest(E, at, s),
         Framed(T, S, L, E, p, at), NEW R, R = applyARP(T, p, at)
  PROVE  True(R, S \cup {<<p.mac, p.addr, ARPState(p.role)>>}, L \cup {<<p.mac, at>>}, E) /\ Kept(R, T)
<1>1. True(T, S, L, E)  BY DEF Framed
<1>2. p.mac \in MACs \cup {NoMAC} /\ p.addr \in Addrs \cup {NoAddr}  BY PacketFields
<1>3. ARPState(p.role) \in States \ {"none"}  BY DEF ARPState, States
<1>4. CASE p.mac = NoMAC
  <2>1. applyARP(T, p, at) = T  BY <1>4 DEF applyARP
  <2>2. \A a, x : True(T, S \cup {<<NoMAC, a, x>>}, L \cup {<<NoMAC, at>>}, E)
    BY <1>1, NobodySaid, MoreHeard
  <2> QED  BY <1>4, <2>1, <2>2 DEF Kept
<1>5. CASE p.mac # NoMAC
  <2> DEFINE Result(m, a, x) == addAddress(addProtocol(touch(T, m, at), m, "arp"), m, a, x, at)
  <2>1. \A m \in MACs, a \in Addrs \cup {NoAddr}, x \in States \ {"none"} :
          True(Result(m, a, x), S \cup {<<m, a, x>>}, L \cup {<<m, at>>}, E) /\ Kept(Result(m, a, x), T)
    BY <1>1, SpeakerTrue
  <2>2. R = Result(p.mac, p.addr, ARPState(p.role))  BY <1>5 DEF applyARP
  <2> HIDE DEF Result
  <2> QED  BY <1>2, <1>3, <1>5, <2>1, <2>2
<1> QED  BY <1>4, <1>5

\* What Neighbor Discovery says of the sender of its frame.
NdpAddr(p) == IF p.role \in {"dad", "solicited", "unsolicited"} THEN p.addr ELSE p.ip
NdpState(p) ==
  IF p.role = "dad" THEN "probing" ELSE IF p.role = "unsolicited" THEN "claimed" ELSE "observed"

LEMMA ICMPv6True ==
  ASSUME NEW T, NEW S, NEW L, NEW E, NEW p \in Packets, NEW at \in Times, NEW s, Latest(E, at, s),
         Framed(T, S, L, E, p, at), NEW R, R = applyICMPv6(T, p, at)
  PROVE  True(R, S \cup {<<p.src, NdpAddr(p), NdpState(p)>>}, L, E) /\ Kept(R, T)
<1>1. True(T, S, L, E) /\ <<p.src, at>> \in L  BY DEF Framed
<1>2. p.src \in MACs \cup {NoMAC} /\ NdpAddr(p) \in Addrs \cup {NoAddr}  BY PacketFields DEF NdpAddr
<1>3. NdpState(p) \in States \ {"none"}  BY DEF NdpState, States
<1>4. CASE p.src = NoMAC
  <2>1. applyICMPv6(T, p, at) = T  BY <1>4 DEF applyICMPv6
  <2>2. \A a, x : True(T, S \cup {<<NoMAC, a, x>>}, L, E)  BY <1>1, NobodySaid
  <2> QED  BY <1>4, <2>1, <2>2 DEF Kept
<1>5. CASE p.src # NoMAC
  <2> DEFINE N(m) == addProtocol(touch(T, m, at), m, "ndp")
             M(m) == markRouter(N(m), m)
             Result(B, m, a, x) == addAddress(B, m, a, x, at)
  <2>1. ASSUME NEW m \in MACs, <<m, at>> \in L
        PROVE  /\ True(N(m), S, L, E) /\ Kept(N(m), T) /\ Known(N(m), m)
               /\ True(M(m), S, L, E) /\ Kept(M(m), T) /\ Known(M(m), m)
    <3>1. True(N(m), S, L \cup {<<m, at>>}, E) /\ Kept(N(m), T) /\ Known(N(m), m)  BY <1>1, HeardTrue
    <3>2. L \cup {<<m, at>>} = L  BY <2>1
    <3>3. True(N(m), S, L, E)  BY <3>1, <3>2
    <3>4. M(m) = addProtocol(N(m), m, "ipv6-router")  BY DEF markRouter
    <3> HIDE DEF N, M
    <3>5. True(M(m), S, L, E) /\ Kept(M(m), N(m))  BY <3>3, <3>4, ProtocolTrue
    <3> QED  BY <3>1, <3>3, <3>5 DEF Kept
  <2>2. R = Result(N(p.src), p.src, NdpAddr(p), NdpState(p)) \/ R = Result(M(p.src), p.src, NdpAddr(p), NdpState(p))
    <3>1. CASE p.role = "dad"
      BY <1>5, <3>1 DEF applyICMPv6, NdpAddr, NdpState
    <3>2. CASE p.role = "solicited"
      BY <1>5, <3>2 DEF applyICMPv6, NdpAddr, NdpState
    <3>3. CASE p.role = "unsolicited"
      BY <1>5, <3>3 DEF applyICMPv6, NdpAddr, NdpState
    <3>4. CASE p.role \notin {"dad", "solicited", "unsolicited"}
      BY <1>5, <3>4 DEF applyICMPv6, NdpAddr, NdpState
    <3> QED  BY <3>1, <3>2, <3>3, <3>4
  <2> HIDE DEF N, M
  <2>3. ASSUME NEW B, NEW m \in MACs, True(B, S, L, E), Kept(B, T), Known(B, m), NEW a \in Addrs \cup {NoAddr},
               NEW x \in States \ {"none"}
        PROVE  True(Result(B, m, a, x), S \cup {<<m, a, x>>}, L, E) /\ Kept(Result(B, m, a, x), T)
    BY <2>3, AddedTrue
  <2> HIDE DEF Result
  <2>4. p.src \in MACs  BY <1>2, <1>5
  <2>5. /\ True(N(p.src), S, L, E) /\ Kept(N(p.src), T) /\ Known(N(p.src), p.src)
        /\ True(M(p.src), S, L, E) /\ Kept(M(p.src), T) /\ Known(M(p.src), p.src)
    BY <1>1, <2>1, <2>4
  <2> QED  BY <1>2, <1>3, <2>2, <2>3, <2>4, <2>5
<1> QED  BY <1>4, <1>5

\* What a server or client of EPICS, and a DHCP server, says of itself.
EpicsSays(p) == IF p.role = "client" THEN {} ELSE {<<p.src, p.addr, "observed">>}

LEMMA EPICSTrue ==
  ASSUME NEW T, NEW S, NEW L, NEW E, NEW p \in Packets, NEW at \in Times, NEW s, Latest(E, at, s),
         Framed(T, S, L, E, p, at), NEW R, R = applyEPICS(T, p, at)
  PROVE  True(R, S \cup EpicsSays(p), L, E) /\ Kept(R, T)
<1>1. True(T, S, L, E) /\ <<p.src, at>> \in L  BY DEF Framed
<1>2. p.src \in MACs \cup {NoMAC} /\ p.addr \in Addrs \cup {NoAddr}  BY PacketFields
<1>3. "observed" \in States \ {"none"}  BY DEF States
<1>4. CASE p.src = NoMAC
  <2>1. applyEPICS(T, p, at) = T  BY <1>4 DEF applyEPICS
  <2>2. \A a, x : True(T, S \cup {<<NoMAC, a, x>>}, L, E)  BY <1>1, NobodySaid
  <2>3. True(T, S \cup EpicsSays(p), L, E)
    <3>1. CASE p.role = "client"
      <4>1. S \cup EpicsSays(p) = S  BY <3>1 DEF EpicsSays
      <4> QED  BY <1>1, <4>1
    <3>2. CASE p.role # "client"
      <4>1. EpicsSays(p) = {<<NoMAC, p.addr, "observed">>}  BY <1>4, <3>2 DEF EpicsSays
      <4> QED  BY <2>2, <4>1
    <3> QED  BY <3>1, <3>2
  <2> QED  BY <2>1, <2>3 DEF Kept
<1>5. CASE p.src # NoMAC /\ p.role = "client"
  <2>1. ASSUME NEW m \in MACs, <<m, at>> \in L, NEW q
        PROVE  True(addProtocol(touch(T, m, at), m, q), S, L, E) /\ Kept(addProtocol(touch(T, m, at), m, q), T)
    <3>1. L \cup {<<m, at>>} = L  BY <2>1
    <3>2. True(addProtocol(touch(T, m, at), m, q), S, L \cup {<<m, at>>}, E) /\ Kept(addProtocol(touch(T, m, at), m, q), T)
      BY <1>1, HeardTrue
    <3> QED  BY <3>1, <3>2
  <2>2. R = addProtocol(touch(T, p.src, at), p.src, p.role)  BY <1>5 DEF applyEPICS
  <2>3. True(R, S, L, E) /\ Kept(R, T)  BY <1>1, <1>2, <1>5, <2>1, <2>2
  <2>4. S \cup EpicsSays(p) = S  BY <1>5 DEF EpicsSays
  <2> QED  BY <2>3, <2>4
<1>6. CASE p.src # NoMAC /\ p.role # "client"
  <2> DEFINE Result(m, q, a) == addAddress(addProtocol(touch(T, m, at), m, q), m, a, "observed", at)
  <2>1. ASSUME NEW m \in MACs, <<m, at>> \in L, NEW q, NEW a \in Addrs \cup {NoAddr}
        PROVE  True(Result(m, q, a), S \cup {<<m, a, "observed">>}, L, E) /\ Kept(Result(m, q, a), T)
    <3>1. L \cup {<<m, at>>} = L  BY <2>1
    <3>2. True(Result(m, q, a), S \cup {<<m, a, "observed">>}, L \cup {<<m, at>>}, E) /\ Kept(Result(m, q, a), T)
      BY <1>1, <1>3, SpeakerTrue
    <3> QED  BY <3>1, <3>2
  <2>2. R = Result(p.src, p.role, p.addr)  BY <1>6 DEF applyEPICS
  <2> HIDE DEF Result
  <2>3. True(R, S \cup {<<p.src, p.addr, "observed">>}, L, E) /\ Kept(R, T)  BY <1>1, <1>2, <1>6, <2>1, <2>2
  <2> QED  BY <1>6, <2>3 DEF EpicsSays
<1> QED  BY <1>4, <1>5, <1>6

LEMMA ServerTrue ==
  ASSUME NEW T, NEW B, NEW S, NEW L, NEW E, NEW p \in Packets, NEW at \in Times, NEW s, Latest(E, at, s),
         True(B, S, L, E), <<p.src, at>> \in L, NEW R, R = applyDHCPServer(B, p, at)
  PROVE  True(R, S \cup {<<p.src, p.server, "observed">>}, L, E) /\ Kept(R, B)
<1>1. p.src \in MACs \cup {NoMAC} /\ p.server \in Addrs \cup {NoAddr}  BY PacketFields
<1>2. "observed" \in States \ {"none"}  BY DEF States
<1>3. CASE p.src = NoMAC
  <2>1. applyDHCPServer(B, p, at) = B  BY <1>3 DEF applyDHCPServer
  <2>2. \A a, x : True(B, S \cup {<<NoMAC, a, x>>}, L, E)  BY NobodySaid
  <2> QED  BY <1>3, <2>1, <2>2 DEF Kept
<1>4. CASE p.src # NoMAC
  <2> DEFINE Result(m, a) == addAddress(addProtocol(touch(B, m, at), m, "dhcp-server"), m, a, "observed", at)
  <2>1. ASSUME NEW m \in MACs, <<m, at>> \in L, NEW a \in Addrs \cup {NoAddr}
        PROVE  True(Result(m, a), S \cup {<<m, a, "observed">>}, L, E) /\ Kept(Result(m, a), B)
    <3>1. L \cup {<<m, at>>} = L  BY <2>1
    <3>2. True(Result(m, a), S \cup {<<m, a, "observed">>}, L \cup {<<m, at>>}, E) /\ Kept(Result(m, a), B)
      BY <1>2, SpeakerTrue
    <3> QED  BY <3>1, <3>2
  <2>2. R = Result(p.src, p.server)  BY <1>4 DEF applyDHCPServer
  <2> HIDE DEF Result
  <2> QED  BY <1>1, <1>4, <2>1, <2>2
<1> QED  BY <1>3, <1>4

\* An exchange is noted; nothing else changes.
Noted(T, x, role, at) == [T EXCEPT !.dhcp[x][role] = at]

LEMMA NotedTrue ==
  ASSUME NEW T, NEW S, NEW L, NEW E, True(T, S, L, E), NEW x \in Exchanges, NEW role \in Messages,
         NEW at \in Times, NEW R, R = Noted(T, x, role, at)
  PROVE  /\ True(R, S, L, E) /\ R.dhcp = [T.dhcp EXCEPT ![x][role] = at] /\ R.neighbors = T.neighbors
         /\ \A k \in MACs : Known(R, k) <=> Known(T, k)
<1> DEFINE X == [T.dhcp EXCEPT ![x][role] = at]
<1>1. IsTable(T)  BY DEF True
<1>2. T.dhcp \in [Exchanges -> [Messages -> 0..MaxTime]]  BY <1>1 DEF IsTable, DHCPTransaction
<1>3. X \in [Exchanges -> DHCPTransaction]  BY <1>2, TimesTyped DEF DHCPTransaction
<1>4. R = Tab(T.order, T.devices, T.traits, T.addresses, T.claims, X, T.neighbors, T.told)
  <2>1. Noted(T, x, role, at) = [T EXCEPT !.dhcp = X]  BY DEF Noted
  <2> HIDE DEF X
  <2> QED  BY <1>1, <2>1 DEF IsTable, IsTab, Tab
<1> HIDE DEF X
<1>5. /\ IsTab(R) /\ R.order = T.order /\ R.devices = T.devices /\ R.traits = T.traits /\ R.addresses = T.addresses
      /\ R.claims = T.claims /\ R.dhcp = X /\ R.neighbors = T.neighbors /\ R.told = T.told
  BY <1>4, TabFields
<1>6. IsTable(R)  BY <1>1, <1>3, <1>5 DEF IsTable
<1>7. \A k \in MACs, b \in Addrs : State(R, k, b) = State(T, k, b) /\ weakCount(R, k, b) = weakCount(T, k, b)
  BY <1>5 DEF State, weakCount
<1>8. \A k \in MACs : Known(R, k) <=> Known(T, k)  BY <1>5 DEF Known
<1>9. Ranked(R, S) /\ Listing(R)  BY <1>5, <1>7 DEF True, Ranked, Listing
<1>10. Limited(R, S) /\ Dated(R, L)  BY <1>5, <1>7, <1>8 DEF True, Limited, Dated
<1>11. Telling(R)  BY <1>5, <1>7, <1>8 DEF True, Telling
<1>12. Timed(R, E)  BY <1>5 DEF True, Timed
<1> QED  BY <1>5, <1>6, <1>8, <1>9, <1>10, <1>11, <1>12 DEF True, X

\* What a DHCP packet says of addresses, and of its exchange.
Lease(p) == IF p.role = "ack" THEN {<<p.mac, p.addr, "leased">>} ELSE {}
Serves(p) == IF p.role \in {"offer", "ack", "nak"} THEN {<<p.src, p.server, "observed">>} ELSE {}
Exchanged(D, p, at) ==
  IF p.mac # NoMAC /\ p.role \in Messages THEN [D EXCEPT ![<<p.xid, p.mac>>][p.role] = at] ELSE D

LEMMA DHCPTrue ==
  ASSUME NEW T, NEW S, NEW L, NEW E, NEW p \in Packets, NEW at \in Times, NEW s, Latest(E, at, s),
         Framed(T, S, L, E, p, at), NEW R, R = applyDHCP(T, p, at)
  PROVE  /\ True(R, (S \cup IF p.mac = NoMAC THEN {} ELSE Lease(p)) \cup (IF p.mac = NoMAC THEN {} ELSE Serves(p)),
                 L \cup {<<p.mac, at>>}, E)
         /\ R.dhcp = Exchanged(T.dhcp, p, at) /\ R.neighbors = T.neighbors
<1>1. True(T, S, L, E) /\ <<p.src, at>> \in L  BY DEF Framed
<1>2. /\ p.mac \in MACs \cup {NoMAC} /\ p.addr \in Addrs \cup {NoAddr} /\ <<p.xid, p.mac>> \in Exchanges
  BY PacketFields
<1>3. CASE p.mac = NoMAC
  <2>1. applyDHCP(T, p, at) = T  BY <1>3 DEF applyDHCP
  <2>2. True(T, S, L \cup {<<p.mac, at>>}, E)  BY <1>1, <1>3, MoreHeard
  <2>3. (S \cup IF p.mac = NoMAC THEN {} ELSE Lease(p)) \cup (IF p.mac = NoMAC THEN {} ELSE Serves(p)) = S
    BY <1>3
  <2> QED  BY <1>3, <2>1, <2>2, <2>3 DEF Exchanged
<1>4. CASE p.mac # NoMAC
  <2> DEFINE M == L \cup {<<p.mac, at>>}
             A == addProtocol(touch(T, p.mac, at), p.mac, "dhcp")
             C == addName(A, p.mac, p.name)
             X == IF p.role \in Messages THEN [C EXCEPT !.dhcp[<<p.xid, p.mac>>][p.role] = at] ELSE C
             K == IF p.role = "ack" THEN addAddress(X, p.mac, p.addr, "leased", at) ELSE X
  <2>1. R = IF p.role \in {"offer", "ack", "nak"} THEN applyDHCPServer(K, p, at) ELSE K
    BY <1>4 DEF applyDHCP
  <2>2. p.mac \in MACs  BY <1>2, <1>4
  <2>3. True(A, S, M, E) /\ Kept(A, T) /\ Known(A, p.mac)
    <3>1. \A m \in MACs : /\ True(addProtocol(touch(T, m, at), m, "dhcp"), S, L \cup {<<m, at>>}, E)
                          /\ Kept(addProtocol(touch(T, m, at), m, "dhcp"), T)
                          /\ Known(addProtocol(touch(T, m, at), m, "dhcp"), m)
      BY <1>1, HeardTrue
    <3> QED  BY <2>2, <3>1
  <2> HIDE DEF A, M
  <2>4. True(C, S, M, E) /\ Kept(C, T) /\ Known(C, p.mac)
    <3>1. True(C, S, M, E) /\ Kept(C, A)  BY <2>2, <2>3, NameTrue
    <3> QED  BY <2>2, <2>3, <3>1 DEF Kept
  <2> HIDE DEF C
  <2>5. /\ True(X, S, M, E) /\ Known(X, p.mac) /\ X.neighbors = T.neighbors
        /\ X.dhcp = Exchanged(T.dhcp, p, at)
    <3>1. CASE p.role \in Messages
      <4>1. X = Noted(C, <<p.xid, p.mac>>, p.role, at)  BY <3>1 DEF Noted
      <4> HIDE DEF X
      <4>2. \A x \in Exchanges, role \in Messages :
              /\ True(Noted(C, x, role, at), S, M, E)
              /\ Noted(C, x, role, at).dhcp = [C.dhcp EXCEPT ![x][role] = at]
              /\ Noted(C, x, role, at).neighbors = C.neighbors
              /\ \A k \in MACs : Known(Noted(C, x, role, at), k) <=> Known(C, k)
        BY <2>4, NotedTrue
      <4>3. /\ True(X, S, M, E) /\ X.dhcp = [C.dhcp EXCEPT ![<<p.xid, p.mac>>][p.role] = at]
            /\ X.neighbors = C.neighbors /\ (Known(X, p.mac) <=> Known(C, p.mac))
        BY <1>2, <2>2, <3>1, <4>1, <4>2
      <4>4. C.dhcp = T.dhcp /\ C.neighbors = T.neighbors  BY <2>4 DEF Kept
      <4> QED  BY <1>4, <2>4, <3>1, <4>3, <4>4 DEF Exchanged
    <3>2. CASE p.role \notin Messages
      BY <2>4, <3>2 DEF Exchanged, Kept
    <3> QED  BY <3>1, <3>2
  <2> HIDE DEF X
  <2>6. /\ True(K, S \cup Lease(p), M, E) /\ K.neighbors = T.neighbors /\ K.dhcp = Exchanged(T.dhcp, p, at)
    <3>1. CASE p.role = "ack"
      <4>1. K = addAddress(X, p.mac, p.addr, "leased", at)  BY <3>1
      <4>2. "leased" \in States \ {"none"}  BY DEF States
      <4>3. \A m \in MACs, a \in Addrs \cup {NoAddr} :
              Known(X, m) => /\ True(addAddress(X, m, a, "leased", at), S \cup {<<m, a, "leased">>}, M, E)
                             /\ Kept(addAddress(X, m, a, "leased", at), X)
        <5>1. Kept(X, X)  BY DEF Kept
        <5> QED  BY <2>5, <4>2, <5>1, AddedTrue
      <4>4. /\ True(K, S \cup {<<p.mac, p.addr, "leased">>}, M, E) /\ K.dhcp = X.dhcp /\ K.neighbors = X.neighbors
        BY <1>2, <2>2, <2>5, <4>1, <4>3 DEF Kept
      <4> QED  BY <2>5, <3>1, <4>4 DEF Lease
    <3>2. CASE p.role # "ack"
      <4>1. S \cup Lease(p) = S  BY <3>2 DEF Lease
      <4> QED  BY <2>5, <3>2, <4>1
    <3> QED  BY <3>1, <3>2
  <2> HIDE DEF K
  <2>7. /\ True(R, (S \cup Lease(p)) \cup Serves(p), M, E)
        /\ R.neighbors = T.neighbors /\ R.dhcp = Exchanged(T.dhcp, p, at)
    <3>1. CASE p.role \in {"offer", "ack", "nak"}
      <4>1. R = applyDHCPServer(K, p, at)  BY <2>1, <3>1
      <4>2. <<p.src, at>> \in M  BY <1>1 DEF M
      <4>3. True(R, (S \cup Lease(p)) \cup {<<p.src, p.server, "observed">>}, M, E) /\ Kept(R, K)
        BY <2>6, <4>1, <4>2, ServerTrue
      <4> QED  BY <2>6, <3>1, <4>3 DEF Serves, Kept
    <3>2. CASE p.role \notin {"offer", "ack", "nak"}
      <4>1. R = K  BY <2>1, <3>2
      <4>2. (S \cup Lease(p)) \cup Serves(p) = S \cup Lease(p)  BY <3>2 DEF Serves
      <4> QED  BY <2>6, <4>1, <4>2
    <3> QED  BY <3>1, <3>2
  <2>8. (S \cup IF p.mac = NoMAC THEN {} ELSE Lease(p)) \cup (IF p.mac = NoMAC THEN {} ELSE Serves(p))
          = (S \cup Lease(p)) \cup Serves(p)
    BY <1>4
  <2> QED  BY <2>7, <2>8 DEF M
<1> QED  BY <1>3, <1>4

\* A neighbor is heard, for the first time or again.
Span(n, at) == IF n.first # 0 THEN [n EXCEPT !.last = at] ELSE [first |-> at, last |-> at]

\* R is T with neighbors N, of which n may be told for the first time.
LEMMA NeighborTrue ==
  ASSUME NEW T, NEW S, NEW L, NEW E, True(T, S, L, E), NEW n \in Neighbors, NEW at \in Times,
         NEW F, NEW N, N = [T.neighbors EXCEPT ![n] = Span(T.neighbors[n], at)],
         \/ T.neighbors[n].first # 0 /\ F = T.told
         \/ T.neighbors[n].first = 0 /\ F = T.told \cup {<<"neighbor", n>>},
         NEW R, R = Tab(T.order, T.devices, T.traits, T.addresses, T.claims, T.dhcp, N, F)
  PROVE  True(R, S, L, E) /\ R.dhcp = T.dhcp /\ R.neighbors = N
<1>1. IsTable(T)  BY DEF True
<1>2. T.neighbors \in [Neighbors -> Neighbor] /\ T.neighbors[n] \in Neighbor  BY <1>1 DEF IsTable
<1>3. Span(T.neighbors[n], at) \in Neighbor /\ Span(T.neighbors[n], at).first # 0
  <2>1. at \in 0..MaxTime /\ at # 0  BY TimesTyped
  <2> QED  BY <1>2, <2>1 DEF Span, Neighbor
<1>4. N \in [Neighbors -> Neighbor] /\ N[n].first # 0 /\ \A k \in Neighbors : k # n => N[k] = T.neighbors[k]
  BY <1>2, <1>3
<1>5. /\ IsTab(R) /\ R.order = T.order /\ R.devices = T.devices /\ R.traits = T.traits /\ R.addresses = T.addresses
      /\ R.claims = T.claims /\ R.dhcp = T.dhcp /\ R.neighbors = N /\ R.told = F
  BY TabFields
<1>6. IsTable(R)  BY <1>1, <1>4, <1>5 DEF IsTable
<1>7. \A k \in MACs, b \in Addrs : State(R, k, b) = State(T, k, b) /\ weakCount(R, k, b) = weakCount(T, k, b)
  BY <1>5 DEF State, weakCount
<1>8. \A k \in MACs : Known(R, k) <=> Known(T, k)  BY <1>5 DEF Known
<1>9. Ranked(R, S) /\ Listing(R)
  <2>1. Ranked(T, S) /\ Listing(T)  BY DEF True
  <2>2. \A m \in MACs, a \in Addrs : State(R, m, a) = State(T, m, a)  BY <1>7
  <2>3. Ranked(R, S)  BY <2>1, <2>2, SMTT(30) DEF Ranked
  <2>4. R.claims = T.claims /\ R.devices = T.devices  BY <1>5
  <2>5. Listing(R)  BY <2>1, <2>2, <2>4, SMTT(30) DEF Listing
  <2> QED  BY <2>3, <2>5
<1>10. Limited(R, S) /\ Dated(R, L)  BY <1>5, <1>7, <1>8 DEF True, Limited, Dated
<1>11. Telling(R)
  <2>1. Telling(T)  BY DEF True
  <2>2. /\ \A k : <<"device", k>> \in F <=> <<"device", k>> \in T.told
        /\ \A x : x \in T.told => x \in F
    OBVIOUS
  <2>3. \A k \in Neighbors : N[k].first # 0 <=> <<"neighbor", k>> \in F
    <3> SUFFICES ASSUME NEW k \in Neighbors  PROVE N[k].first # 0 <=> <<"neighbor", k>> \in F
      OBVIOUS
    <3>1. T.neighbors[k].first # 0 <=> <<"neighbor", k>> \in T.told  BY <2>1 DEF Telling
    <3>2. CASE k = n  BY <1>4, <3>1, <3>2
    <3>3. CASE k # n
      <4>1. <<"neighbor", k>> \in F <=> <<"neighbor", k>> \in T.told  BY <3>3
      <4> QED  BY <1>4, <3>1, <3>3, <4>1
    <3> QED  BY <3>2, <3>3
  <2>4. \A k \in Neighbors : R.neighbors[k].first # 0 <=> <<"neighbor", k>> \in R.told
    BY <1>5, <2>3
  <2>5. /\ R.order = T.order /\ R.traits = T.traits /\ R.claims = T.claims
        /\ \A k : <<"device", k>> \in R.told <=> <<"device", k>> \in T.told
        /\ \A x : x \in T.told => x \in R.told
    BY <1>5, <2>2
  <2> QED  BY <1>7, <1>8, <2>1, <2>4, <2>5 DEF Telling
<1>12. Timed(R, E)  BY <1>5 DEF True, Timed
<1> QED  BY <1>5, <1>6, <1>9, <1>10, <1>11, <1>12 DEF True

LEMMA LLDPTrue ==
  ASSUME NEW T, NEW S, NEW L, NEW E, True(T, S, L, E), NEW p \in Packets, NEW at \in Times,
         NEW R, R = applyLLDP(T, p, at)
  PROVE  /\ True(R, S, L \cup {<<p.mac, at>>}, E) /\ R.dhcp = T.dhcp
         /\ R.neighbors = [T.neighbors EXCEPT ![p.name] = Span(T.neighbors[p.name], at)]
<1> DEFINE D == IF p.mac = NoMAC THEN T
                ELSE addName(addProtocol(touch(T, p.mac, at), p.mac, "lldp"), p.mac, p.name)
           N == [T.neighbors EXCEPT ![p.name] = Span(T.neighbors[p.name], at)]
<1>1. p.mac \in MACs \cup {NoMAC} /\ p.name \in Neighbors  BY PacketFields
<1>2. R = IF D.neighbors[p.name].first # 0 THEN [D EXCEPT !.neighbors[p.name].last = at]
          ELSE [D EXCEPT !.neighbors[p.name] = [first |-> at, last |-> at],
                         !.told = @ \cup {<<"neighbor", p.name>>}]
  BY DEF applyLLDP
<1>3. True(D, S, L \cup {<<p.mac, at>>}, E) /\ Kept(D, T)
  <2>1. CASE p.mac = NoMAC
    <3>1. D = T  BY <2>1
    <3>2. True(T, S, L \cup {<<p.mac, at>>}, E)  BY <2>1, MoreHeard
    <3> QED  BY <3>1, <3>2 DEF Kept
  <2>2. CASE p.mac # NoMAC
    <3>1. ASSUME NEW m \in MACs, NEW n
          PROVE  /\ True(addName(addProtocol(touch(T, m, at), m, "lldp"), m, n), S, L \cup {<<m, at>>}, E)
                 /\ Kept(addName(addProtocol(touch(T, m, at), m, "lldp"), m, n), T)
      <4> DEFINE A == addProtocol(touch(T, m, at), m, "lldp")
                 C == addName(A, m, n)
      <4>1. True(A, S, L \cup {<<m, at>>}, E) /\ Kept(A, T)  BY HeardTrue
      <4> HIDE DEF A
      <4>2. True(C, S, L \cup {<<m, at>>}, E) /\ Kept(C, A)  BY <4>1, NameTrue
      <4> QED  BY <4>1, <4>2 DEF Kept, A
    <3> QED  BY <1>1, <2>2, <3>1
  <2> QED  BY <2>1, <2>2
<1> HIDE DEF D
<1>4. D.neighbors = T.neighbors /\ D.dhcp = T.dhcp /\ IsTable(D)  BY <1>3 DEF Kept, True
<1>5. T.neighbors \in [Neighbors -> Neighbor]  BY <1>4 DEF IsTable
<1>6. PICK F : /\ \/ D.neighbors[p.name].first # 0 /\ F = D.told
                  \/ D.neighbors[p.name].first = 0 /\ F = D.told \cup {<<"neighbor", p.name>>}
               /\ R = Tab(D.order, D.devices, D.traits, D.addresses, D.claims, D.dhcp, N, F)
  <2>1. CASE D.neighbors[p.name].first # 0
    <3>1. N = [D.neighbors EXCEPT ![p.name].last = at]  BY <1>4, <2>1 DEF Span
    <3>2. R = [D EXCEPT !.neighbors = N]  BY <1>2, <2>1, <3>1
    <3> HIDE DEF N
    <3>3. R = Tab(D.order, D.devices, D.traits, D.addresses, D.claims, D.dhcp, N, D.told)
      BY <1>4, <3>2 DEF IsTable, IsTab, Tab
    <3> QED  BY <2>1, <3>3
  <2>2. CASE D.neighbors[p.name].first = 0
    <3>1. N = [D.neighbors EXCEPT ![p.name] = [first |-> at, last |-> at]]  BY <1>4, <2>2 DEF Span
    <3>2. R = [D EXCEPT !.neighbors = N, !.told = D.told \cup {<<"neighbor", p.name>>}]  BY <1>2, <2>2, <3>1
    <3> HIDE DEF N
    <3>3. R = Tab(D.order, D.devices, D.traits, D.addresses, D.claims, D.dhcp, N, D.told \cup {<<"neighbor", p.name>>})
      BY <1>4, <3>2 DEF IsTable, IsTab, Tab
    <3> QED  BY <2>2, <3>3
  <2> QED  BY <2>1, <2>2
<1>7. N = [D.neighbors EXCEPT ![p.name] = Span(D.neighbors[p.name], at)]  BY <1>4
<1> DEFINE M == L \cup {<<p.mac, at>>}
           n == p.name
<1>8. /\ \/ D.neighbors[n].first # 0 /\ F = D.told
         \/ D.neighbors[n].first = 0 /\ F = D.told \cup {<<"neighbor", n>>}
      /\ n \in Neighbors /\ N = [D.neighbors EXCEPT ![n] = Span(D.neighbors[n], at)]
      /\ True(D, S, M, E) /\ R = Tab(D.order, D.devices, D.traits, D.addresses, D.claims, D.dhcp, N, F)
  BY <1>1, <1>3, <1>6, <1>7
<1> HIDE DEF N, M, n
<1>9. True(R, S, M, E) /\ R.dhcp = D.dhcp /\ R.neighbors = N  BY <1>8, NeighborTrue
<1> QED  BY <1>4, <1>9 DEF N, M, n

-----------------------------------------------------------------------------
(* One packet.                                                             *)

Applied(R, T, p, at) ==
  LET F == applyFrame(T, p, at)
      D == applyIP(F, p, at)
  IN \/ p.kind = "frame" /\ R = F
     \/ p.kind = "arp" /\ R = applyARP(F, p, at)
     \/ p.kind = "lldp" /\ R = applyLLDP(F, p, at)
     \/ p.kind \in {"ipv4", "ipv6"} /\ R = D
     \/ p.kind = "ndp" /\ R = applyICMPv6(D, p, at)
     \/ p.kind = "dhcp" /\ R = applyDHCP(D, p, at)
     \/ p.kind = "epics" /\ R = applyEPICS(D, p, at)

\* What p says comes to what was said, and whom it is about to who was heard.
Grows(S, P, L, Q, p, at) ==
  /\ \A m \in MACs, a \in Addrs, state \in States :
       <<m, a, state>> \in P <=> <<m, a, state>> \in S \/ Says(p, m, a, state)
  /\ \A m \in MACs, t \in Times : <<m, t>> \in Q <=> <<m, t>> \in L \/ (m \in About(p) /\ t = at)

\* The table of neighbors and that of exchanges behind p.
Neighbored(N, p, at) ==
  IF p.kind = "lldp" THEN [N EXCEPT ![p.name] = Span(N[p.name], at)] ELSE N
Noticed(D, p, at) == IF p.kind = "dhcp" THEN Exchanged(D, p, at) ELSE D

LEMMA AppliedTrue ==
  ASSUME NEW T, NEW S, NEW L, NEW E, True(T, S, L, E), NEW p \in Packets, NEW at \in Times, NEW s,
         Latest(E, at, s), NEW R, Applied(R, T, p, at), NEW P, NEW Q, Grows(S, P, L, Q, p, at)
  PROVE  True(R, P, Q, E) /\ R.neighbors = Neighbored(T.neighbors, p, at) /\ R.dhcp = Noticed(T.dhcp, p, at)
<1> DEFINE F == applyFrame(T, p, at)
           D == applyIP(F, p, at)
           M == L \cup {<<p.src, at>>}
           Z == S \cup {<<p.src, p.ip, "seen">>}
<1>1. True(F, S, M, E) /\ Kept(F, T) /\ (p.src # NoMAC => Known(F, p.src))  BY FrameTrue
<1>2. Framed(F, S, M, E, p, at)  BY <1>1 DEF Framed
<1>3. Applied(R, T, p, at) <=>
        \/ p.kind = "frame" /\ R = F
        \/ p.kind = "arp" /\ R = applyARP(F, p, at)
        \/ p.kind = "lldp" /\ R = applyLLDP(F, p, at)
        \/ p.kind \in {"ipv4", "ipv6"} /\ R = D
        \/ p.kind = "ndp" /\ R = applyICMPv6(D, p, at)
        \/ p.kind = "dhcp" /\ R = applyDHCP(D, p, at)
        \/ p.kind = "epics" /\ R = applyEPICS(D, p, at)
  BY DEF Applied
<1> HIDE DEF F
<1>4. Framed(D, Z, M, E, p, at) /\ Kept(D, F)  BY <1>2, IPTrue
<1> HIDE DEF D
<1>5. F.neighbors = T.neighbors /\ F.dhcp = T.dhcp /\ D.neighbors = T.neighbors /\ D.dhcp = T.dhcp
  BY <1>1, <1>4 DEF Kept
<1>6. \A m \in MACs : m # NoMAC  BY KeysTyped
<1>7. p.mac # NoMAC => p.kind \in {"arp", "lldp", "dhcp"}  BY PacketsTyped
<1> USE DEF Grows
<1>8. CASE p.kind = "frame" /\ R = F
  <2>1. \A m \in MACs, a \in Addrs, state \in States : ~Says(p, m, a, state)  BY <1>8 DEF Says
  <2>2. \A m \in MACs, t \in Times : <<m, t>> \in M <=> <<m, t>> \in Q  BY <1>6, <1>7, <1>8 DEF About
  <2>3. True(F, P, Q, E)  BY <1>1, <2>1, <2>2, SameTruth
  <2> QED  BY <1>5, <1>8, <2>3 DEF Neighbored, Noticed
<1>9. CASE p.kind = "arp" /\ R = applyARP(F, p, at)
  <2> DEFINE Y == S \cup {<<p.mac, p.addr, ARPState(p.role)>>}
             W == M \cup {<<p.mac, at>>}
             G == applyARP(F, p, at)
  <2>1. True(G, Y, W, E) /\ Kept(G, F)  BY <1>2, ARPTrue
  <2>2. \A m \in MACs, a \in Addrs, state \in States : <<m, a, state>> \in Y <=> <<m, a, state>> \in P
    BY <1>9 DEF Says
  <2>3. \A m \in MACs, t \in Times : <<m, t>> \in W <=> <<m, t>> \in Q  BY <1>6 DEF About
  <2> HIDE DEF Y, W, G
  <2>4. True(G, P, Q, E)  BY <2>1, <2>2, <2>3, SameTruth
  <2> QED  BY <1>5, <1>9, <2>1, <2>4 DEF Neighbored, Noticed, Kept, G
<1>10. CASE p.kind = "lldp" /\ R = applyLLDP(F, p, at)
  <2> DEFINE W == M \cup {<<p.mac, at>>}
             G == applyLLDP(F, p, at)
  <2>1. /\ True(G, S, W, E) /\ G.dhcp = F.dhcp
        /\ G.neighbors = [F.neighbors EXCEPT ![p.name] = Span(F.neighbors[p.name], at)]
    BY <1>1, LLDPTrue
  <2>2. \A m \in MACs, a \in Addrs, state \in States : ~Says(p, m, a, state)  BY <1>10 DEF Says
  <2>3. \A m \in MACs, t \in Times : <<m, t>> \in W <=> <<m, t>> \in Q  BY <1>6 DEF About
  <2> HIDE DEF W, G
  <2>4. True(G, P, Q, E)  BY <2>1, <2>2, <2>3, SameTruth
  <2> QED  BY <1>5, <1>10, <2>1, <2>4 DEF Neighbored, Noticed, G
<1>11. CASE p.kind \in {"ipv4", "ipv6"} /\ R = D
  <2>1. True(D, Z, M, E)  BY <1>4 DEF Framed
  <2>2. \A m \in MACs, a \in Addrs, state \in States : <<m, a, state>> \in Z <=> <<m, a, state>> \in P
    BY <1>11 DEF Says
  <2>3. \A m \in MACs, t \in Times : <<m, t>> \in M <=> <<m, t>> \in Q  BY <1>6, <1>7, <1>11 DEF About
  <2> HIDE DEF Z, M
  <2>4. True(D, P, Q, E)  BY <2>1, <2>2, <2>3, SameTruth
  <2> QED  BY <1>5, <1>11, <2>4 DEF Neighbored, Noticed
<1>12. CASE p.kind = "ndp" /\ R = applyICMPv6(D, p, at)
  <2> DEFINE Y == Z \cup {<<p.src, NdpAddr(p), NdpState(p)>>}
             G == applyICMPv6(D, p, at)
  <2>1. True(G, Y, M, E) /\ Kept(G, D)  BY <1>4, ICMPv6True
  <2>2. p.role \in {"dad", "solicited", "unsolicited", "solicit", "ra", "rs"}  BY <1>12, PacketsTyped
  <2>3. \A m \in MACs, a \in Addrs, state \in States : <<m, a, state>> \in Y <=> <<m, a, state>> \in P
    BY <1>12, <2>2 DEF Says, NdpAddr, NdpState
  <2>4. \A m \in MACs, t \in Times : <<m, t>> \in M <=> <<m, t>> \in Q  BY <1>6, <1>7, <1>12 DEF About
  <2> HIDE DEF Y, M, G
  <2>5. True(G, P, Q, E)  BY <2>1, <2>3, <2>4, SameTruth
  <2> QED  BY <1>5, <1>12, <2>1, <2>5 DEF Neighbored, Noticed, Kept, G
<1>13. CASE p.kind = "dhcp" /\ R = applyDHCP(D, p, at)
  <2> DEFINE Y == (Z \cup IF p.mac = NoMAC THEN {} ELSE Lease(p)) \cup (IF p.mac = NoMAC THEN {} ELSE Serves(p))
             W == M \cup {<<p.mac, at>>}
             G == applyDHCP(D, p, at)
  <2>1. True(G, Y, W, E) /\ G.dhcp = Exchanged(D.dhcp, p, at) /\ G.neighbors = D.neighbors
    BY <1>4, DHCPTrue
  <2>2. \A m \in MACs, a \in Addrs, state \in States : <<m, a, state>> \in Y <=> <<m, a, state>> \in P
    <3>1. CASE p.mac = NoMAC  BY <1>13, <3>1 DEF Says
    <3>2. CASE p.mac # NoMAC  BY <1>13, <3>2, ZenonT(30) DEF Says, Lease, Serves
    <3> QED  BY <3>1, <3>2
  <2>3. \A m \in MACs, t \in Times : <<m, t>> \in W <=> <<m, t>> \in Q  BY <1>6 DEF About
  <2> HIDE DEF Y, W, G
  <2>4. True(G, P, Q, E)  BY <2>1, <2>2, <2>3, SameTruth
  <2> QED  BY <1>5, <1>13, <2>1, <2>4 DEF Neighbored, Noticed, G
<1>14. CASE p.kind = "epics" /\ R = applyEPICS(D, p, at)
  <2> DEFINE Y == Z \cup EpicsSays(p)
             G == applyEPICS(D, p, at)
  <2>1. True(G, Y, M, E) /\ Kept(G, D)  BY <1>4, EPICSTrue
  <2>2. p.role \in {"client", "server"}  BY <1>14, PacketsTyped
  <2>3. \A m \in MACs, a \in Addrs, state \in States : <<m, a, state>> \in Y <=> <<m, a, state>> \in P
    BY <1>14, <2>2 DEF Says, EpicsSays
  <2>4. \A m \in MACs, t \in Times : <<m, t>> \in M <=> <<m, t>> \in Q  BY <1>6, <1>7, <1>14 DEF About
  <2> HIDE DEF Y, M, G
  <2>5. True(G, P, Q, E)  BY <2>1, <2>3, <2>4, SameTruth
  <2> QED  BY <1>5, <1>14, <2>1, <2>5 DEF Neighbored, Noticed, Kept, G
<1> QED  BY <1>3, <1>8, <1>9, <1>10, <1>11, <1>12, <1>13, <1>14

-----------------------------------------------------------------------------
(* The invariant.                                                          *)

Spoken == {x \in MACs \X Addrs \X States : Heard(x[1], x[2], x[3])}
WhenHeard == {x \in MACs \X Times : \E h \in heard : x[1] \in About(h.packet) /\ x[2] = h.at}
Came == {<<h.at, h.source>> : h \in heard}

\* The packets applied, and the clocks of the sources.
HeardTyped ==
  /\ applied \in 0..MaxPackets /\ last \in [Sources -> Times]
  /\ heard \subseteq [packet : Packets, at : Times, source : Sources]
  /\ \A h \in heard : h.at <= last[h.source]

\* The span of a neighbor starts with a packet of it; it runs backward only
\* when two sources heard the neighbor.
Met(n) == {h \in heard : h.packet.kind = "lldp" /\ h.packet.name = n}

NeighborsDated ==
  \A n \in Neighbors :
    LET N == table.neighbors[n] IN
      /\ N.first # 0 => \E h \in Met(n) : h.at = N.first
      /\ N.last < N.first => \E g, h \in Met(n) : g.source # h.source

\* The time of a message of an exchange is that of a packet with it, and of
\* the last one its source heard; without a time there was none.
ExchangesDated ==
  \A x \in Exchanges, role \in Messages :
    LET d == table.dhcp[x][role] IN
      IF x[2] = NoMAC THEN d = 0
      ELSE /\ d = 0 => Said(x, role) = {}
           /\ d # 0 => \E g \in Said(x, role) :
                         g.at = d /\ \A h \in Said(x, role) : h.source = g.source => h.at <= d

Inv == HeardTyped /\ True(table, Spoken, WhenHeard, Came) /\ NeighborsDated /\ ExchangesDated

\* One packet is applied.
Applies(s, p, at) ==
  /\ applied < MaxPackets /\ at >= last[s]
  /\ applied' = applied + 1
  /\ last' = [last EXCEPT ![s] = at]
  /\ heard' = heard \cup {[packet |-> p, at |-> at, source |-> s]}
  /\ Applied(table', table, p, at)

LEMMA NextApplies ==
  ASSUME Next
  PROVE  \E s \in Sources, p \in Packets, at \in Times : Applies(s, p, at)
<1>1. PICK s \in Sources, p \in Packets, at \in Times :
        \/ Frame(s, p, at) \/ ARP(s, p, at) \/ LLDP(s, p, at) \/ IPv4(s, p, at)
        \/ IPv6(s, p, at) \/ ICMPv6(s, p, at) \/ DHCP(s, p, at) \/ EPICS(s, p, at)
  BY DEF Next
<1>2. CASE Frame(s, p, at)  BY <1>2 DEF Frame, Arrives, Applies, Applied
<1>3. CASE ARP(s, p, at)  BY <1>3 DEF ARP, Arrives, Applies, Applied
<1>4. CASE LLDP(s, p, at)  BY <1>4 DEF LLDP, Arrives, Applies, Applied
<1>5. CASE IPv4(s, p, at)  BY <1>5 DEF IPv4, Datagram, Arrives, Applies, Applied
<1>6. CASE IPv6(s, p, at)  BY <1>6 DEF IPv6, Datagram, Arrives, Applies, Applied
<1>7. CASE ICMPv6(s, p, at)  BY <1>7 DEF ICMPv6, Datagram, Arrives, Applies, Applied
<1>8. CASE DHCP(s, p, at)  BY <1>8 DEF DHCP, Datagram, Arrives, Applies, Applied
<1>9. CASE EPICS(s, p, at)  BY <1>9 DEF EPICS, Datagram, Arrives, Applies, Applied
<1> QED  BY <1>1, <1>2, <1>3, <1>4, <1>5, <1>6, <1>7, <1>8, <1>9

LEMMA TypedStep ==
  ASSUME HeardTyped, NEW s \in Sources, NEW p \in Packets, NEW at \in Times, Applies(s, p, at)
  PROVE  HeardTyped'
<1>1. applied' \in 0..MaxPackets  BY BoundsTyped DEF HeardTyped, Applies
<1>2. last' \in [Sources -> Times]  BY DEF HeardTyped, Applies
<1>3. [packet |-> p, at |-> at, source |-> s] \in [packet : Packets, at : Times, source : Sources]  OBVIOUS
<1>4. heard' \subseteq [packet : Packets, at : Times, source : Sources]
  BY <1>3 DEF HeardTyped, Applies
<1>5. ASSUME NEW h \in heard'  PROVE h.at <= last'[h.source]
  <2>1. CASE h \in heard
    <3>1. h.at <= last[h.source] /\ h.source \in Sources /\ h.at \in Times  BY <2>1 DEF HeardTyped
    <3>2. last[h.source] \in Times /\ last[s] \in Times /\ at >= last[s]  BY <3>1 DEF HeardTyped, Applies
    <3>3. last'[h.source] = IF h.source = s THEN at ELSE last[h.source]
      BY <3>1 DEF HeardTyped, Applies
    <3> QED  BY <3>1, <3>2, <3>3, TimesTyped
  <2>2. CASE h = [packet |-> p, at |-> at, source |-> s]
    <3>1. last'[s] = at  BY DEF HeardTyped, Applies
    <3> QED  BY <2>2, <3>1, TimesTyped
  <2> QED  BY <2>1, <2>2 DEF Applies
<1> QED  BY <1>1, <1>2, <1>4, <1>5 DEF HeardTyped

LEMMA TruthStep ==
  ASSUME Inv, NEW s \in Sources, NEW p \in Packets, NEW at \in Times, Applies(s, p, at)
  PROVE  /\ True(table', Spoken', WhenHeard', Came')
         /\ table'.neighbors = Neighbored(table.neighbors, p, at)
         /\ table'.dhcp = Noticed(table.dhcp, p, at)
<1> DEFINE new == [packet |-> p, at |-> at, source |-> s]
<1>1. heard' = heard \cup {new}  BY DEF Applies
<1>2. new.packet = p /\ new.at = at /\ new.source = s  OBVIOUS
<1> HIDE DEF new
<1>3. Came \subseteq Came'  BY <1>1 DEF Came
<1>4. Latest(Came', at, s)
  <2>1. <<at, s>> \in Came'  BY <1>1, <1>2 DEF Came
  <2>2. ASSUME NEW e \in Came', e[2] = s  PROVE e[1] <= at
    <3>1. PICK h \in heard' : e = <<h.at, h.source>>  BY DEF Came
    <3>2. h.at = e[1] /\ h.source = s  BY <2>2, <3>1
    <3>3. CASE h \in heard
      <4>1. h.at <= last[s] /\ h.at \in Times /\ last[s] \in Times /\ at >= last[s]
        BY <3>2, <3>3 DEF Inv, HeardTyped, Applies
      <4> QED  BY <3>2, <4>1, TimesTyped
    <3>4. CASE h = new
      <4>1. h.at = at  BY <1>2, <3>4
      <4> QED  BY <3>2, <4>1, TimesTyped
    <3> QED  BY <1>1, <3>3, <3>4
  <2> QED  BY <2>1, <2>2 DEF Latest
<1>5. True(table, Spoken, WhenHeard, Came')  BY <1>3, MoreCame DEF Inv
<1>6. Grows(Spoken, Spoken', WhenHeard, WhenHeard', p, at)
  <2>1. ASSUME NEW m \in MACs, NEW a \in Addrs, NEW state \in States
        PROVE  <<m, a, state>> \in Spoken' <=> <<m, a, state>> \in Spoken \/ Says(p, m, a, state)
    <3>1. <<m, a, state>> \in Spoken <=> \E h \in heard : Says(h.packet, m, a, state)  BY DEF Spoken, Heard
    <3>2. <<m, a, state>> \in Spoken' <=> \E h \in heard' : Says(h.packet, m, a, state)
      BY DEF Spoken, Heard
    <3> QED  BY <1>1, <1>2, <3>1, <3>2
  <2>2. ASSUME NEW m \in MACs, NEW t \in Times
        PROVE  <<m, t>> \in WhenHeard' <=> <<m, t>> \in WhenHeard \/ (m \in About(p) /\ t = at)
    <3>1. <<m, t>> \in WhenHeard <=> \E h \in heard : m \in About(h.packet) /\ t = h.at  BY DEF WhenHeard
    <3>2. <<m, t>> \in WhenHeard' <=> \E h \in heard' : m \in About(h.packet) /\ t = h.at  BY DEF WhenHeard
    <3> QED  BY <1>1, <1>2, <3>1, <3>2
  <2> QED  BY <2>1, <2>2 DEF Grows
<1>7. Applied(table', table, p, at)  BY DEF Applies
<1> QED  BY <1>4, <1>5, <1>6, <1>7, AppliedTrue

LEMMA NeighborsStep ==
  ASSUME Inv, NEW s \in Sources, NEW p \in Packets, NEW at \in Times, Applies(s, p, at)
  PROVE  NeighborsDated'
<1> DEFINE new == [packet |-> p, at |-> at, source |-> s]
<1>1. heard' = heard \cup {new}  BY DEF Applies
<1>2. new.packet = p /\ new.at = at /\ new.source = s  OBVIOUS
<1> HIDE DEF new
<1>3. table'.neighbors = Neighbored(table.neighbors, p, at)  BY TruthStep
<1>4. table.neighbors \in [Neighbors -> Neighbor]  BY DEF Inv, True, IsTable
<1>5. \A h \in heard : h.source = s => h.at <= at /\ h.at \in Times
  <2> SUFFICES ASSUME NEW h \in heard, h.source = s  PROVE h.at <= at /\ h.at \in Times
    OBVIOUS
  <2>1. h.at <= last[s] /\ h.at \in Times /\ last[s] \in Times /\ at >= last[s]  BY DEF Inv, HeardTyped, Applies
  <2> QED  BY <2>1, TimesTyped
<1> SUFFICES ASSUME NEW n \in Neighbors
    PROVE  LET N == table'.neighbors[n] IN
             /\ N.first # 0 => \E h \in Met(n)' : h.at = N.first
             /\ N.last < N.first => \E g, h \in Met(n)' : g.source # h.source
  BY DEF NeighborsDated
<1>6. Met(n) \subseteq Met(n)'  BY <1>1 DEF Met
<1>7. /\ table.neighbors[n].first # 0 => \E h \in Met(n) : h.at = table.neighbors[n].first
      /\ table.neighbors[n].last < table.neighbors[n].first => \E g, h \in Met(n) : g.source # h.source
  BY DEF Inv, NeighborsDated
<1>8. CASE ~(p.kind = "lldp" /\ p.name = n)
  <2>1. table'.neighbors[n] = table.neighbors[n]
    BY <1>3, <1>4, <1>8 DEF Neighbored
  <2> QED  BY <1>6, <1>7, <2>1
<1>9. CASE p.kind = "lldp" /\ p.name = n
  <2>1. table'.neighbors[n] = Span(table.neighbors[n], at)  BY <1>3, <1>4, <1>9 DEF Neighbored
  <2>2. new \in Met(n)'  BY <1>1, <1>2, <1>9 DEF Met
  <2>3. table.neighbors[n] \in Neighbor  BY <1>4
  <2>4. CASE table.neighbors[n].first = 0
    <3>1. table'.neighbors[n].first = at /\ table'.neighbors[n].last = at  BY <2>1, <2>4 DEF Span
    <3> QED  BY <1>2, <2>2, <3>1, TimesTyped
  <2>5. CASE table.neighbors[n].first # 0
    <3>1. table'.neighbors[n].first = table.neighbors[n].first /\ table'.neighbors[n].last = at
      BY <2>1, <2>3, <2>5 DEF Span, Neighbor
    <3>2. PICK h \in Met(n) : h.at = table.neighbors[n].first  BY <1>7, <2>5
    <3>3. h \in heard  BY DEF Met
    <3>4. at < h.at => h.source # s
      <4>1. at \in Nat /\ (h.at \in Times => h.at \in Nat)  BY TimesTyped
      <4> QED  BY <1>5, <3>3, <4>1
    <3>5. at < h.at => \E g, k \in Met(n)' : g.source # k.source
      <4>1. h \in Met(n)'  BY <1>6
      <4> QED  BY <1>2, <2>2, <3>4, <4>1
    <3> QED  BY <1>6, <3>1, <3>2, <3>5
  <2> QED  BY <2>4, <2>5
<1> QED  BY <1>8, <1>9

LEMMA ExchangesStep ==
  ASSUME Inv, NEW s \in Sources, NEW p \in Packets, NEW at \in Times, Applies(s, p, at)
  PROVE  ExchangesDated'
<1> DEFINE new == [packet |-> p, at |-> at, source |-> s]
<1>1. heard' = heard \cup {new}  BY DEF Applies
<1>2. new.packet = p /\ new.at = at /\ new.source = s  OBVIOUS
<1> HIDE DEF new
<1>3. table'.dhcp = Noticed(table.dhcp, p, at)  BY TruthStep
<1>4. table.dhcp \in [Exchanges -> [Messages -> 0..MaxTime]]  BY DEF Inv, True, IsTable, DHCPTransaction
<1>5. \A h \in heard : h.source = s => h.at <= at
  <2> SUFFICES ASSUME NEW h \in heard, h.source = s  PROVE h.at <= at
    OBVIOUS
  <2>1. h.at <= last[s] /\ h.at \in Times /\ last[s] \in Times /\ at >= last[s]  BY DEF Inv, HeardTyped, Applies
  <2> QED  BY <2>1, TimesTyped
<1> SUFFICES ASSUME NEW x \in Exchanges, NEW role \in Messages
    PROVE  LET d == table'.dhcp[x][role] IN
             IF x[2] = NoMAC THEN d = 0
             ELSE /\ d = 0 => Said(x, role)' = {}
                  /\ d # 0 => \E g \in Said(x, role)' :
                                g.at = d /\ \A h \in Said(x, role)' : h.source = g.source => h.at <= d
  BY DEF ExchangesDated
<1> DEFINE d == table.dhcp[x][role]
<1>6. IF x[2] = NoMAC THEN d = 0
      ELSE /\ d = 0 => Said(x, role) = {}
           /\ d # 0 => \E g \in Said(x, role) : g.at = d /\ \A h \in Said(x, role) : h.source = g.source => h.at <= d
  BY DEF Inv, ExchangesDated
<1> HIDE DEF d
<1>7. CASE p.kind = "dhcp" /\ <<p.xid, p.mac>> = x /\ p.role = role /\ x[2] # NoMAC
  <2>1. table'.dhcp[x][role] = at
    <3>1. p.mac # NoMAC  BY <1>7
    <3>2. table'.dhcp = [table.dhcp EXCEPT ![x][role] = at]  BY <1>3, <1>7, <3>1 DEF Noticed, Exchanged
    <3> QED  BY <1>4, <3>2
  <2>2. new \in Said(x, role)'  BY <1>1, <1>2, <1>7 DEF Said
  <2>3. \A h \in Said(x, role)' : h.source = s => h.at <= at
    <3>1. \A h \in Said(x, role)' : h \in heard \/ h = new  BY <1>1 DEF Said
    <3>2. new.at <= at  BY <1>2, TimesTyped
    <3> QED  BY <1>5, <3>1, <3>2
  <2>4. at # 0  BY TimesTyped
  <2> QED  BY <1>2, <1>7, <2>1, <2>2, <2>3, <2>4
<1>8. CASE ~(p.kind = "dhcp" /\ <<p.xid, p.mac>> = x /\ p.role = role /\ x[2] # NoMAC)
  <2>1. table'.dhcp[x][role] = d
    <3>1. CASE p.kind = "dhcp" /\ p.mac # NoMAC /\ p.role \in Messages
      <4>1. table'.dhcp = [table.dhcp EXCEPT ![<<p.xid, p.mac>>][p.role] = at]
        BY <1>3, <3>1 DEF Noticed, Exchanged
      <4>2. <<p.xid, p.mac>> = x => x[2] = p.mac  OBVIOUS
      <4>3. <<p.xid, p.mac>> \in Exchanges  BY PacketFields
      <4>4. <<p.xid, p.mac>> # x \/ p.role # role  BY <1>8, <3>1, <4>2
      <4> DEFINE y == <<p.xid, p.mac>>
      <4>5. y \in Exchanges /\ (y # x \/ p.role # role) /\ table'.dhcp = [table.dhcp EXCEPT ![y][p.role] = at]
        BY <4>1, <4>3, <4>4
      <4> HIDE DEF y
      <4> QED  BY <1>4, <3>1, <4>5 DEF d
    <3>2. CASE ~(p.kind = "dhcp" /\ p.mac # NoMAC /\ p.role \in Messages)
      <4>1. table'.dhcp = table.dhcp  BY <1>3, <3>2 DEF Noticed, Exchanged
      <4> QED  BY <4>1 DEF d
    <3> QED  BY <3>1, <3>2
  <2>2. CASE x[2] = NoMAC  BY <1>6, <2>1, <2>2
  <2>3. CASE x[2] # NoMAC
    <3>1. Said(x, role)' = Said(x, role)
      <4>1. ~(new.packet.kind = "dhcp" /\ <<new.packet.xid, new.packet.mac>> = x /\ new.packet.role = role)
        BY <1>2, <1>8, <2>3
      <4> QED  BY <1>1, <4>1 DEF Said
    <3> QED  BY <1>6, <2>1, <2>3, <3>1
  <2> QED  BY <2>2, <2>3
<1> QED  BY <1>7, <1>8

LEMMA InvInit == Init => Inv
<1> SUFFICES ASSUME Init  PROVE Inv
  OBVIOUS
<1>1. HeardTyped
  BY BoundsTyped DEF Init, HeardTyped, Times
<1> DEFINE D == [m \in MACs |-> NoDevice]
           R == [m \in MACs |-> {}]
           A == [m \in MACs |-> [a \in Addrs |-> NoAddress]]
           C == [a \in Addrs |-> NoClaim]
           X == [x \in Exchanges |-> [i \in Messages |-> 0]]
           N == [n \in Neighbors |-> [first |-> 0, last |-> 0]]
<1>2. table = Tab(<<>>, D, R, A, C, X, N, {})  BY DEF Init, Tab
<1>3. 0 \in 0..MaxTime  BY TimesTyped
<1>4. D \in [MACs -> Device]  BY <1>3 DEF Device, NoDevice
<1>5. A \in [MACs -> [Addrs -> Address]]
  <2>1. NoAddress \in Address  BY <1>3 DEF Address, NoAddress, States
  <2> QED  BY <2>1
<1>6. C \in [Addrs -> Conflict]
  <2>1. NoClaim \in Conflict  BY <1>3 DEF Conflict, NoClaim
  <2> QED  BY <2>1
<1>7. X \in [Exchanges -> DHCPTransaction]  BY <1>3 DEF DHCPTransaction
<1>8. N \in [Neighbors -> Neighbor]  BY <1>3 DEF Neighbor
<1>9. /\ R = [m \in MACs |-> R[m]] /\ \A m \in MACs : R[m] = {} /\ D[m] = NoDevice
      /\ \A m \in MACs, a \in Addrs : A[m][a] = NoAddress
      /\ \A a \in Addrs : C[a] = NoClaim
      /\ \A x \in Exchanges, role \in Messages : X[x][role] = 0
      /\ \A n \in Neighbors : N[n] = [first |-> 0, last |-> 0]
  OBVIOUS
<1> HIDE DEF D, R, A, C, X, N
<1>10. /\ IsTab(table) /\ table.order = <<>> /\ table.devices = D /\ table.traits = R /\ table.addresses = A
       /\ table.claims = C /\ table.dhcp = X /\ table.neighbors = N /\ table.told = {}
  BY <1>2, TabFields
<1>11. IsTable(table)
  <2>1. <<>> \in Seq(MACs)  OBVIOUS
  <2> QED  BY <1>4, <1>5, <1>6, <1>7, <1>8, <1>9, <1>10, <2>1 DEF IsTable
<1>12. Spoken = {} /\ WhenHeard = {} /\ Came = {}
  BY DEF Init, Spoken, Heard, WhenHeard, Came
<1>13. \A m \in MACs, a \in Addrs : State(table, m, a) = "none"  BY <1>9, <1>10 DEF State, NoAddress
<1>14. \A m \in MACs : ~Known(table, m) /\ table.devices[m] = NoDevice  BY <1>9, <1>10 DEF Known, NoDevice
<1>15. Ranked(table, Spoken)  BY <1>12, <1>13 DEF Ranked
<1>16. Listing(table)
  <2>1. \A a \in Addrs : table.claims[a].macs = <<>>  BY <1>9, <1>10 DEF NoClaim
  <2>2. Distinct(<<>>) /\ Listed(<<>>) = {}  BY DEF Distinct, Listed
  <2>3. \A m \in MACs, a \in Addrs : ~Strong(State(table, m, a))  BY <1>13, Ranks
  <2>4. \A m \in MACs : ~table.devices[m].confirmed  BY <1>14 DEF NoDevice
  <2> QED  BY <2>1, <2>2, <2>3, <2>4 DEF Listing
<1>17. Limited(table, Spoken)
  <2>1. ASSUME NEW m \in MACs, NEW a \in Addrs  PROVE weakCount(table, m, a) <= MaxWeak
    <3>1. \A b \in Family(a) : b \in Addrs  BY DEF Family, Addrs
    <3>2. WeakSet(table, m, a) = {}  BY <1>13, <3>1 DEF WeakSet
    <3>3. weakCount(table, m, a) = 0  BY <3>2, WeakSets, FS_EmptySet
    <3> QED  BY <3>3, BoundsTyped
  <2> QED  BY <1>12, <2>1 DEF Limited
<1>18. Dated(table, WhenHeard)  BY <1>12, <1>14 DEF Dated
<1>19. Telling(table)
  <2>1. Distinct(<<>>) /\ Listed(<<>>) = {} /\ Len(<<>>) = 0  BY DEF Distinct, Listed
  <2>2. \A a \in Addrs : ~(Len(table.claims[a].macs) > 1)  BY <1>9, <1>10, <2>1 DEF NoClaim
  <2>3. \A n \in Neighbors : table.neighbors[n].first = 0  BY <1>9, <1>10
  <2>4. table.order = <<>> /\ table.told = {} /\ \A m \in MACs : table.traits[m] = {}  BY <1>9, <1>10
  <2> QED  BY <1>13, <1>14, <2>1, <2>2, <2>3, <2>4 DEF Telling
<1>20. Timed(table, Came)
  <2>1. \A a \in Addrs : table.claims[a] = NoClaim  BY <1>9, <1>10
  <2> QED  BY <2>1 DEF Timed, NoClaim
<1>21. NeighborsDated
  <2>1. \A n \in Neighbors : table.neighbors[n].first = 0 /\ table.neighbors[n].last = 0  BY <1>9, <1>10
  <2> QED  BY <2>1 DEF NeighborsDated
<1>22. ExchangesDated
  <2>1. \A x \in Exchanges, role \in Messages : table.dhcp[x][role] = 0  BY <1>9, <1>10
  <2>2. \A x, role : Said(x, role) = {}  BY DEF Init, Said
  <2> QED  BY <2>1, <2>2 DEF ExchangesDated
<1> QED
  BY <1>1, <1>11, <1>15, <1>16, <1>17, <1>18, <1>19, <1>20, <1>21, <1>22 DEF Inv, True

LEMMA InvStep == Inv /\ [Next]_vars => Inv'
<1>1. CASE Next
  <2> SUFFICES ASSUME Inv, Next  PROVE Inv'
    BY <1>1
  <2>1. PICK s \in Sources, p \in Packets, at \in Times : Applies(s, p, at)  BY NextApplies
  <2>2. HeardTyped'  BY <2>1, TypedStep DEF Inv
  <2>3. True(table', Spoken', WhenHeard', Came')  BY <2>1, TruthStep
  <2>4. NeighborsDated'  BY <2>1, NeighborsStep
  <2>5. ExchangesDated'  BY <2>1, ExchangesStep
  <2>6. True(table, Spoken, WhenHeard, Came)'  BY <2>3
  <2> QED  BY <2>2, <2>4, <2>5, <2>6 DEF Inv
<1>2. CASE UNCHANGED vars
  <2> SUFFICES ASSUME Inv, UNCHANGED vars  PROVE Inv'
    BY <1>2
  <2>1. table' = table /\ applied' = applied /\ last' = last /\ heard' = heard  BY DEF vars
  <2>2. Spoken' = Spoken /\ WhenHeard' = WhenHeard /\ Came' = Came
    BY <2>1 DEF Spoken, Heard, WhenHeard, Came
  <2>3. True(table, Spoken, WhenHeard, Came)'  BY <2>1, <2>2 DEF Inv
  <2>4. HeardTyped'  BY <2>1 DEF Inv, HeardTyped
  <2>5. NeighborsDated' /\ ExchangesDated'  BY <2>1 DEF Inv, NeighborsDated, ExchangesDated, Met, Said
  <2> QED  BY <2>3, <2>4, <2>5 DEF Inv
<1> QED  BY <1>1, <1>2

LEMMA InvAlways == Spec => []Inv
BY InvInit, InvStep, PTL DEF Spec

-----------------------------------------------------------------------------
(* The claims and the records.                                             *)

\* What was heard of an address, against its state.
LEMMA HeardRanked ==
  ASSUME Inv, NEW m \in MACs, NEW a \in Addrs
  PROVE  /\ State(table, m, a) \in States
         /\ State(table, m, a) # "none" => Heard(m, a, State(table, m, a))
         /\ \A said \in States \ {"seen"} : Heard(m, a, said) => Rank(said) <= Rank(State(table, m, a))
         /\ Claimed(m, a) <=> Strong(State(table, m, a))
<1>1. State(table, m, a) \in States  BY DEF Inv, True, IsTable, Address, State
<1>2. \A x \in States : Heard(m, a, x) <=> <<m, a, x>> \in Spoken  BY DEF Spoken
<1>3. State(table, m, a) # "none" => Heard(m, a, State(table, m, a))
  BY <1>1, <1>2 DEF Inv, True, Ranked
<1>4. \A said \in States \ {"seen"} : Heard(m, a, said) => Rank(said) <= Rank(State(table, m, a))
  BY <1>2 DEF Inv, True, Ranked
<1>5. ASSUME Strong(State(table, m, a))  PROVE Claimed(m, a)
  <2>1. State(table, m, a) # "none"  BY <1>5, Ranks
  <2> QED  BY <1>1, <1>3, <1>5, <2>1 DEF Claimed
<1>6. ASSUME Claimed(m, a)  PROVE Strong(State(table, m, a))
  <2>1. PICK x \in States : Strong(x) /\ Heard(m, a, x)  BY <1>6 DEF Claimed
  <2>2. x # "seen"  BY <2>1, Ranks
  <2>3. Rank(x) <= Rank(State(table, m, a)) /\ Rank(x) >= 2  BY <1>4, <2>1, <2>2, Ranks
  <2>4. Rank(x) \in 0..3 /\ Rank(State(table, m, a)) \in 0..3  BY <1>1, Ranks
  <2> QED  BY <1>1, <2>3, <2>4, Ranks
<1> QED  BY <1>1, <1>3, <1>4, <1>5, <1>6

LEMMA InvClaims == Inv => ClaimsExact
<1> SUFFICES ASSUME Inv  PROVE ClaimsExact
  OBVIOUS
<1>1. StrongestClaimKept  BY HeardRanked DEF StrongestClaimKept, State
<1>2. Listing(table) /\ Limited(table, Spoken) /\ IsTable(table)  BY DEF Inv, True
<1>3. ASSUME NEW a \in Addrs
      PROVE  Distinct(table.claims[a].macs) /\ Listed(table.claims[a].macs) = {m \in MACs : Claimed(m, a)}
  <2>1. table.claims[a].macs \in Seq(MACs)  BY <1>2 DEF IsTable, Conflict
  <2>2. Listed(table.claims[a].macs) \subseteq MACs  BY <2>1 DEF Listed
  <2>3. \A m \in MACs : m \in Listed(table.claims[a].macs) <=> Claimed(m, a)  BY <1>2, HeardRanked DEF Listing
  <2> QED  BY <1>2, <2>2, <2>3 DEF Listing
<1>4. \A m \in MACs : table.devices[m].confirmed <=> \E a \in Addrs : m \in Listed(table.claims[a].macs)
  BY <1>2 DEF Listing
<1>5. ConflictsExact  BY <1>3, <1>4 DEF ConflictsExact
<1>6. WeakBounded
  <2>1. "seen" \in States  BY DEF States
  <2>2. \A m \in MACs, a \in Addrs : Heard(m, a, "seen") => <<m, a, "seen">> \in Spoken  BY <2>1 DEF Spoken
  <2> QED  BY <1>2, <2>2 DEF WeakBounded, Limited, State
<1> QED  BY <1>1, <1>5, <1>6 DEF ClaimsExact

\* Whatever packets come from whatever sources in whatever order: every
\* address is in the strongest state it was given, the claims and conflicts
\* are those that were heard, and the limit of weak addresses takes no claim.
THEOREM TableTellsClaims == Spec => []ClaimsExact
BY InvAlways, InvClaims, PTL

LEMMA InvRecords == Inv => RecordsExact
<1> SUFFICES ASSUME Inv  PROVE RecordsExact
  OBVIOUS
<1>1. /\ IsTable(table) /\ Dated(table, WhenHeard) /\ Telling(table) /\ Timed(table, Came)
      /\ HeardTyped /\ NeighborsDated
  BY DEF Inv, True
<1>2. TypeOK  BY <1>1 DEF TypeOK, IsTable, HeardTyped
<1>3. LastSeenIsLatest
  <2> SUFFICES ASSUME NEW m \in MACs
      PROVE  LET about == {h \in heard : m \in About(h.packet)}
                 d == table.devices[m] IN
               /\ Known(table, m) <=> about # {}
               /\ \A h \in about : h.at <= d.last
               /\ about # {} => d.first <= d.last /\ \E h \in about : h.at = d.last
    BY DEF LastSeenIsLatest
  <2> DEFINE about == {h \in heard : m \in About(h.packet)}
  <2>1. \A h \in heard : h.at \in Times  BY <1>1 DEF HeardTyped
  <2>2. \A h \in about : <<m, h.at>> \in WhenHeard /\ h.at \in Times  BY <2>1 DEF WhenHeard
  <2>3. \A t : <<m, t>> \in WhenHeard => \E h \in about : h.at = t  BY DEF WhenHeard
  <2> HIDE DEF about
  <2>4. Known(table, m) <=> about # {}  BY <1>1, <2>2, <2>3 DEF Dated
  <2>5. \A h \in about : h.at <= table.devices[m].last  BY <1>1, <2>2 DEF Dated
  <2>6. about # {} => /\ table.devices[m].first <= table.devices[m].last
                      /\ \E h \in about : h.at = table.devices[m].last
    BY <1>1, <2>3, <2>4 DEF Dated
  <2> QED  BY <2>4, <2>5, <2>6 DEF about
<1>4. SpansOfOneSource
  <2> DEFINE Both(n, g, h) == /\ g.source # h.source
                              /\ {g.packet.kind, h.packet.kind} = {"lldp"}
                              /\ {g.packet.name, h.packet.name} = {n}
  <2>1. ASSUME NEW n \in Neighbors, table.neighbors[n].last < table.neighbors[n].first
        PROVE  \E g, h \in heard : Both(n, g, h)
    <3>1. PICK g \in Met(n), h \in Met(n) : g.source # h.source  BY <1>1, <2>1 DEF NeighborsDated
    <3>2. g \in heard /\ h \in heard /\ g.packet.kind = "lldp" /\ h.packet.kind = "lldp"
          /\ g.packet.name = n /\ h.packet.name = n
      BY DEF Met
    <3> QED  BY <3>1, <3>2
  <2>2. ASSUME NEW a \in Addrs, table.claims[a].last < table.claims[a].first
        PROVE  \E g, h \in heard : g.source # h.source
    <3>1. PICK e \in Came, f \in Came : e[2] # f[2]  BY <1>1, <2>2 DEF Timed
    <3>2. PICK g \in heard : e = <<g.at, g.source>>  BY DEF Came
    <3>3. PICK h \in heard : f = <<h.at, h.source>>  BY DEF Came
    <3> QED  BY <3>1, <3>2, <3>3
  <2>3. SpansOfOneSource <=>
          /\ \A n \in Neighbors :
               table.neighbors[n].last < table.neighbors[n].first => \E g, h \in heard : Both(n, g, h)
          /\ \A a \in Addrs :
               table.claims[a].last < table.claims[a].first => \E g, h \in heard : g.source # h.source
    BY DEF SpansOfOneSource
  <2> HIDE DEF Both
  <2> QED  BY <2>1, <2>2, <2>3
<1>5. EventsTellAll  BY <1>1 DEF EventsTellAll, Telling, State
<1> QED  BY <1>2, <1>3, <1>4, <1>5 DEF RecordsExact

\* The records have their times from the packets, and the events tell all the
\* table knows.
THEOREM TableKeepsRecords == Spec => []RecordsExact
BY InvAlways, InvRecords, PTL

-----------------------------------------------------------------------------
(* The report.                                                             *)

LEMMA Times0 == \A h : Inv /\ h \in heard => h.at \in Nat /\ h.at >= 1
<1>1. \A t \in Times : t \in Nat /\ t >= 1  BY TimesTyped
<1> QED  BY <1>1 DEF Inv, HeardTyped

\* A time in an exchange that is 0, and one that is not.
LEMMA ExchangeTimes ==
  ASSUME Inv, NEW x \in Exchanges, NEW role \in Messages
  PROVE  /\ table.dhcp[x][role] \in Nat
         /\ table.dhcp[x][role] # 0 => x[2] # NoMAC
         /\ x[2] # NoMAC /\ table.dhcp[x][role] = 0 => Said(x, role) = {}
         /\ table.dhcp[x][role] # 0 =>
              \E g \in Said(x, role) : /\ g.at = table.dhcp[x][role]
                                       /\ \A h \in Said(x, role) : h.source = g.source => h.at <= g.at
<1>1. table.dhcp[x][role] \in 0..MaxTime  BY DEF Inv, True, IsTable, DHCPTransaction
<1>2. 0..MaxTime \subseteq Nat  BY TimesTyped
<1> DEFINE d == table.dhcp[x][role]
<1>3. IF x[2] = NoMAC THEN d = 0
      ELSE /\ d = 0 => Said(x, role) = {}
           /\ d # 0 => \E g \in Said(x, role) : g.at = d /\ \A h \in Said(x, role) : h.source = g.source => h.at <= d
  BY DEF Inv, ExchangesDated
<1> QED  BY <1>1, <1>2, <1>3

LEMMA InvNoOffer == Inv => NoOfferFounded
<1> SUFFICES ASSUME Inv, NEW x \in Exchanges, NEW end \in Ends, NoOffer(x, end)
    PROVE  /\ Said(x, "discover") # {} /\ Said(x, "offer") \cup Said(x, "ack") = {}
           /\ \A h \in Said(x, "discover") :
                \/ end >= h.at + Grace \/ end = 0
                \/ \E g \in Said(x, "discover") : g.source # h.source /\ g.at < h.at
  BY DEF NoOfferFounded
<1> DEFINE d == table.dhcp[x]["discover"]
<1>1. d # 0 /\ table.dhcp[x]["offer"] = 0 /\ table.dhcp[x]["ack"] = 0 /\ ~NotYet(x, end)  BY DEF NoOffer
<1>2. {"discover", "offer", "ack"} \subseteq Messages  BY DEF Messages
<1>3. x[2] # NoMAC /\ d \in Nat  BY <1>1, <1>2, ExchangeTimes
<1>4. Said(x, "offer") = {} /\ Said(x, "ack") = {}  BY <1>1, <1>2, <1>3, ExchangeTimes
<1>5. PICK g \in Said(x, "discover") :
        g.at = d /\ \A h \in Said(x, "discover") : h.source = g.source => h.at <= g.at
  BY <1>1, <1>2, ExchangeTimes
<1>6. end = 0 \/ end >= d + Grace
  <2>1. end \in Nat /\ Grace \in Nat  BY GraceTyped, TimesTyped DEF Ends
  <2> QED  BY <1>1, <1>3, <2>1 DEF NotYet
<1>7. ASSUME NEW h \in Said(x, "discover")
      PROVE  \/ end >= h.at + Grace \/ end = 0
             \/ \E k \in Said(x, "discover") : k.source # h.source /\ k.at < h.at
  <2>1. h.at \in Nat /\ g.at \in Nat  BY Times0 DEF Said
  <2>2. end \in Nat /\ Grace \in Nat  BY GraceTyped, TimesTyped DEF Ends
  <2>3. CASE h.at <= g.at  BY <1>5, <1>6, <2>1, <2>2, <2>3
  <2>4. CASE ~(h.at <= g.at)
    <3>1. g.source # h.source /\ g.at < h.at  BY <1>5, <2>1, <2>4
    <3> QED  BY <3>1
  <2> QED  BY <2>3, <2>4
<1> QED  BY <1>4, <1>5, <1>7

LEMMA InvFallback == Inv => FallbackFounded
<1> SUFFICES ASSUME Inv, NEW m \in MACs, NEW a \in Addrs, NEW end \in Ends, Fallback(m, a, end)
    PROVE  /\ Claimed(m, a)
           /\ \E x \in Exchanges :
                /\ x[2] = m /\ Said(x, "discover") # {} /\ Said(x, "ack") = {}
                /\ NoOffer(x, end) \/ Said(x, "offer") # {}
  BY DEF FallbackFounded
<1>1. Claimed(m, a)  BY HeardRanked DEF Fallback, AutoIP, strongClaim, State
<1>2. PICK x \in Exchanges : /\ x[2] = m
                             /\ table.dhcp[x]["discover"] # 0 /\ table.dhcp[x]["ack"] = 0 /\ ~NotYet(x, end)
  BY DEF Fallback, Failed
<1>3. {"discover", "offer", "ack"} \subseteq Messages  BY DEF Messages
<1>4. x[2] # NoMAC /\ Said(x, "discover") # {} /\ Said(x, "ack") = {}  BY <1>2, <1>3, ExchangeTimes
<1>5. NoOffer(x, end) \/ Said(x, "offer") # {}
  <2>1. CASE table.dhcp[x]["offer"] = 0  BY <1>2, <2>1 DEF NoOffer
  <2>2. CASE table.dhcp[x]["offer"] # 0  BY <1>3, <2>2, ExchangeTimes
  <2> QED  BY <2>1, <2>2
<1> QED  BY <1>1, <1>2, <1>4, <1>5

LEMMA InvTargets == Inv => TargetSeenExact
<1> SUFFICES ASSUME Inv  PROVE TargetSeenExact
  OBVIOUS
<1>1. \A m \in MACs, a \in Addrs : strongClaim(m, a) <=> Claimed(m, a)
  BY HeardRanked DEF strongClaim, State
<1>2. ASSUME NEW target \in Addrs4  PROVE TargetSeen(target) <=> \E m \in MACs : Claimed(m, target)
  <2>1. target # NoAddr /\ target \in Addrs  BY KeysTyped DEF Addrs
  <2>2. Evaluated(target) = {c \in MACs \X {target} : strongClaim(c[1], c[2])}  BY <2>1 DEF Evaluated
  <2>3. \A c \in MACs \X {target} : c[1] \in MACs /\ c[2] = target  OBVIOUS
  <2>4. \A m \in MACs : <<m, target>> \in MACs \X {target}  OBVIOUS
  <2>5. ASSUME TargetSeen(target)  PROVE \E m \in MACs : Claimed(m, target)
    <3>1. PICK c \in MACs \X {target} : strongClaim(c[1], c[2])  BY <2>2, <2>5 DEF TargetSeen
    <3> QED  BY <1>1, <2>1, <2>3, <3>1
  <2>6. ASSUME NEW m \in MACs, Claimed(m, target)  PROVE TargetSeen(target)
    <3>1. strongClaim(m, target)  BY <1>1, <2>1, <2>6
    <3>2. <<m, target>> \in Evaluated(target)  BY <2>2, <2>4, <3>1
    <3> QED  BY <3>2 DEF TargetSeen
  <2> QED  BY <2>5, <2>6
<1>3. ASSUME NEW a \in Addrs
      PROVE  Len(table.claims[a].macs) > 1 <=> \E m, n \in MACs : m # n /\ Claimed(m, a) /\ Claimed(n, a)
  <2> DEFINE s == table.claims[a].macs
  <2>1. s \in Seq(MACs) /\ Distinct(s)  BY DEF Inv, True, IsTable, Conflict, Listing
  <2>2. \A m \in MACs : m \in Listed(s) <=> Claimed(m, a)
    BY HeardRanked DEF Inv, True, Listing
  <2> HIDE DEF s
  <2>3. Len(s) \in Nat /\ \A i \in 1..Len(s) : s[i] \in MACs  BY <2>1
  <2>4. ASSUME Len(s) > 1  PROVE \E m, n \in MACs : m # n /\ Claimed(m, a) /\ Claimed(n, a)
    <3>1. 1 \in 1..Len(s) /\ 2 \in 1..Len(s)  BY <2>3, <2>4
    <3>2. s[1] # s[2] /\ s[1] \in Listed(s) /\ s[2] \in Listed(s) /\ s[1] \in MACs /\ s[2] \in MACs
      BY <2>1, <2>3, <3>1 DEF Distinct, Listed
    <3> QED  BY <2>2, <3>2
  <2>5. ASSUME NEW m \in MACs, NEW n \in MACs, m # n, Claimed(m, a), Claimed(n, a)  PROVE Len(s) > 1
    <3>1. PICK i \in 1..Len(s) : s[i] = m  BY <2>2, <2>5 DEF Listed
    <3>2. PICK j \in 1..Len(s) : s[j] = n  BY <2>2, <2>5 DEF Listed
    <3> QED  BY <2>3, <2>5, <3>1, <3>2
  <2> QED  BY <2>4, <2>5 DEF s
<1>4. reportConflicts = {a \in Addrs : \E m, n \in MACs : m # n /\ Claimed(m, a) /\ Claimed(n, a)}
  BY <1>3 DEF reportConflicts
<1> QED  BY <1>2, <1>4 DEF TargetSeenExact

\* A set of naturals below a bound has a greatest element.
LEMMA Greatest ==
  ASSUME NEW n \in Nat, NEW F, F \subseteq 0..n, F # {}
  PROVE  \E i \in F : \A j \in F : j <= i
<1> DEFINE R == OpToRel(<, Nat)
           T == {n - i : i \in F}
<1>1. IsWellFoundedOn(R, Nat)  BY NatLessThanWellFounded
<1>2. T \subseteq Nat /\ T # {}
  <2>1. \A i \in F : n - i \in Nat  OBVIOUS
  <2> QED  BY <2>1
<1>3. \A x, y \in Nat : x < y => <<x, y>> \in R  BY DEF OpToRel
<1> HIDE DEF R, T
<1>4. PICK x \in T : \A y \in T : ~(<<y, x>> \in R)  BY <1>1, <1>2, WFMin
<1>5. \A y \in T : x <= y
  <2> SUFFICES ASSUME NEW y \in T  PROVE x <= y
    OBVIOUS
  <2>1. x \in Nat /\ y \in Nat  BY <1>2
  <2>2. ~(y < x)  BY <1>3, <1>4, <2>1
  <2> QED  BY <2>1, <2>2
<1>6. PICK i \in F : x = n - i  BY <1>4 DEF T
<1>7. \A j \in F : n - j \in T  BY DEF T
<1>8. \A j \in F : n - i <= n - j  BY <1>5, <1>6, <1>7
<1>9. \A j \in F : j <= i  BY <1>8
<1> QED  BY <1>9

\* A number behind the start of a prefix is in it.
LEMMA HostOfPrefix ==
  ASSUME NEW q \in Nat, NEW h \in Nat \ {0}, NEW i \in 0..(h - 1)
  PROVE  (q * h + i) % h = i /\ (q * h + i) \div h = q
OBVIOUS

LEMMA NoneUnsaid == \A p, m, a : ~Says(p, m, a, "none")
BY DEF Says, ARPState

\* The candidate for an address is a free host of its prefix.
LEMMA CandidateIs ==
  ASSUME NEW a \in Addrs4, candidate(a) # 0
  PROVE  \E i \in 1..(Hosts - 2) : candidate(a) = Prefix(a) * Hosts + i /\ candidate(a) \notin Used
<1> DEFINE free == {i \in 1..(Hosts - 2) : Prefix(a) * Hosts + i \notin Used}
           top == CHOOSE i \in free : \A j \in free : j <= i
<1>1. candidate(a) = IF free = {} THEN 0 ELSE Prefix(a) * Hosts + top  BY DEF candidate
<1>2. free # {} /\ candidate(a) = Prefix(a) * Hosts + top  BY <1>1
<1>3. Hosts \in Nat /\ free \subseteq 0..Hosts  BY AddressesNumbered
<1>4. \A i \in free : i \in 1..(Hosts - 2) /\ Prefix(a) * Hosts + i \notin Used  OBVIOUS
<1> HIDE DEF free
<1>5. \E i \in free : \A j \in free : j <= i  BY <1>2, <1>3, Greatest
<1>6. top \in free  BY <1>5
<1> HIDE DEF top
<1> QED  BY <1>2, <1>4, <1>6

LEMMA InvCandidate == Inv => CandidateFree
<1> SUFFICES ASSUME Inv, NEW target \in Addrs4 \cup {NoAddr}, NEW c \in Recommended(target)
    PROVE  /\ c % Hosts \in 1..(Hosts - 2) /\ c \notin LocalIPv4 \cup Gateways
           /\ \E m \in MACs, a \in Addrs4 : Claimed(m, a) /\ Prefix(a) = Prefix(c)
           /\ \A m \in MACs, state \in States :
                c \in Addrs4 /\ Heard(m, c, state) => state = "seen" /\ table.devices[m].overflow > 0
  BY DEF CandidateFree
<1>1. PICK e \in Evaluated(target) : Outside(e[1], e[2]) /\ c = candidate(e[2]) /\ c # 0
  BY DEF Recommended
<1>2. e[1] \in MACs /\ e[2] \in Addrs4 /\ strongClaim(e[1], e[2])
  <2>1. e[2] \in Addrs4 /\ strongClaim(e[1], e[2])  BY <1>1 DEF Outside
  <2>2. e[1] \in MACs
    <3>1. CASE target = NoAddr
      <4>1. e \in (MACs \ Local) \X Addrs4  BY <3>1 DEF Evaluated
      <4> QED  BY <4>1
    <3>2. CASE target # NoAddr
      <4>1. e \in MACs \X {target}  BY <3>2 DEF Evaluated
      <4> QED  BY <4>1
    <3> QED  BY <3>1, <3>2
  <2> QED  BY <2>1, <2>2
<1>3. PICK i \in 1..(Hosts - 2) : c = Prefix(e[2]) * Hosts + i /\ c \notin Used
  <2>1. \A a \in Addrs4 : candidate(a) # 0 =>
          \E j \in 1..(Hosts - 2) : candidate(a) = Prefix(a) * Hosts + j /\ candidate(a) \notin Used
    BY CandidateIs
  <2> QED  BY <1>1, <1>2, <2>1
<1>4. Hosts \in Nat \ {0} /\ e[2] \in Nat  BY <1>2, AddressesNumbered
<1>5. Prefix(e[2]) \in Nat  BY <1>4 DEF Prefix
<1>6. i \in 0..(Hosts - 1)  BY <1>4
<1>7. c % Hosts = i /\ Prefix(c) = Prefix(e[2])
  <2> DEFINE q == Prefix(e[2])
  <2>1. q \in Nat /\ c = q * Hosts + i  BY <1>3, <1>5
  <2> HIDE DEF q
  <2>2. (q * Hosts + i) % Hosts = i /\ (q * Hosts + i) \div Hosts = q  BY <1>4, <1>6, <2>1, HostOfPrefix
  <2>3. c % Hosts = i /\ c \div Hosts = q  BY <2>1, <2>2
  <2> QED  BY <2>3 DEF Prefix, q
<1>8. c \notin LocalIPv4 \cup Gateways /\ \A m \in MACs : c \in Addrs4 => State(table, m, c) = "none"
  BY <1>3 DEF Used, State
<1>9. Claimed(e[1], e[2])
  <2>1. \A m \in MACs, a \in Addrs4 : strongClaim(m, a) => Claimed(m, a)
    BY HeardRanked DEF strongClaim, State, Addrs
  <2> QED  BY <1>2, <2>1
<1>10. ASSUME NEW m \in MACs, NEW state \in States, c \in Addrs4, Heard(m, c, state)
       PROVE  state = "seen" /\ table.devices[m].overflow > 0
  <2>1. c \in Addrs /\ State(table, m, c) = "none"  BY <1>8, <1>10 DEF Addrs
  <2>2. state # "none"  BY <1>10, NoneUnsaid DEF Heard
  <2>3. state = "seen"
    <3>1. state # "seen" => Rank(state) <= Rank("none")  BY <1>10, <2>1, HeardRanked
    <3>2. Rank("none") = 0 /\ Rank(state) \in 0..3 /\ Rank(state) # 0  BY <2>2, Ranks
    <3> QED  BY <3>1, <3>2
  <2>4. <<m, c, "seen">> \in Spoken  BY <1>10, <2>1, <2>3 DEF Spoken
  <2> QED  BY <2>1, <2>3, <2>4 DEF Inv, True, Limited
<1>11. e[1] \in MACs /\ e[2] \in Addrs4 /\ Claimed(e[1], e[2]) /\ Prefix(e[2]) = Prefix(c)  BY <1>2, <1>7, <1>9
<1> QED  BY <1>7, <1>8, <1>10, <1>11

\* For every capture and every end of it: what the report says of unanswered
\* discovers, fallbacks, conflicts, silent targets and free addresses rests
\* on the packets that were captured.
THEOREM ReportRestsOnPackets == Spec => []ReportFounded
<1>1. Inv => ReportFounded
  BY InvNoOffer, InvFallback, InvCandidate, InvTargets DEF ReportFounded
<1> QED  BY <1>1, InvAlways, PTL

=============================================================================
