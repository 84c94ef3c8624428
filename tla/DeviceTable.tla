---------------------------- MODULE DeviceTable ----------------------------
(***************************************************************************)
(* internal/device/device.go: the table of inferred devices.  Every        *)
(* capture source decodes its packets in the order of their times and      *)
(* applies each one, as a whole and under the lock of the table; between   *)
(* sources nothing orders the packets.  An action applies one packet.      *)
(* Its observations are the frame first, then what the payload carries.    *)
(* Texts, vendors and the lists that only keep the order of display are    *)
(* left out.                                                               *)
(***************************************************************************)
EXTENDS Naturals, Sequences, FiniteSets

CONSTANTS
  Sources,
  MACs,          \* unicast and not zero (validKey)
  Addrs4, Addrs6,
  Packets,       \* the packets on the wire
  MaxWeak,       \* maxWeakAddresses
  MaxTime,       \* bound of the model: the clock of capture times
  MaxPackets,    \* bound of the model: packets applied
  NoMAC, NoAddr  \* no such observation, or a key or address that is ignored

Addrs == Addrs4 \cup Addrs6
Times == 1..MaxTime
States == {"none", "seen", "probing", "observed", "claimed", "leased"}
Messages == {"discover", "offer", "request", "ack", "nak"}

\* What the handlers read of a packet: the source of the frame and its tag,
\* the source of the IP header, and the fields of the payload.  The name is
\* a host name, and the chassis and port of a neighbor.
Packet ==
  [kind : {"frame", "arp", "ipv4", "ipv6", "ndp", "lldp", "dhcp", "epics"},
   src : MACs \cup {NoMAC}, vlan : Nat, ip : Addrs \cup {NoAddr},
   mac : MACs \cup {NoMAC}, role : STRING, addr : Addrs \cup {NoAddr},
   router : BOOLEAN, xid : Nat, server : Addrs \cup {NoAddr}, name : STRING]

\* A payload that carries no hardware address has none in the packet.
ASSUME PacketsTyped ==
  /\ Packets \subseteq Packet
  /\ \A p \in Packets :
       /\ p.mac # NoMAC => p.kind \in {"arp", "lldp", "dhcp"}
       /\ p.kind = "ndp" => p.role \in {"dad", "solicited", "unsolicited", "solicit", "ra", "rs"}
       /\ p.kind = "epics" => p.role \in {"client", "server"}
ASSUME KeysTyped == NoMAC \notin MACs /\ NoAddr \notin Addrs /\ Addrs4 \cap Addrs6 = {} /\ IsFiniteSet(Addrs)
ASSUME BoundsTyped == MaxWeak \in Nat /\ MaxTime \in Nat \ {0} /\ MaxPackets \in Nat

Exchanges == {<<p.xid, p.mac>> : p \in Packets}
Neighbors == {p.name : p \in Packets}

VARIABLES
  table,
  applied,   \* the number of packets applied
  last,      \* per source, the time of its last packet
  heard      \* the packets applied: [packet, at, source]

vars == <<table, applied, last, heard>>

-----------------------------------------------------------------------------
(* The records of the table; the time 0 is the zero time of the code.      *)

Address == [state : States, first : 0..MaxTime, last : 0..MaxTime]
NoAddress == [state |-> "none", first |-> 0, last |-> 0]

Device == [first : 0..MaxTime, last : 0..MaxTime, confirmed : BOOLEAN, overflow : Nat]
NoDevice == [first |-> 0, last |-> 0, confirmed |-> FALSE, overflow |-> 0]

DHCPTransaction == [Messages -> 0..MaxTime]

Conflict == [macs : Seq(MACs), first : 0..MaxTime, last : 0..MaxTime]
NoClaim == [macs |-> <<>>, first |-> 0, last |-> 0]

Neighbor == [first : 0..MaxTime, last : 0..MaxTime]

\* An event tells its reader one fact; the table keeps them here.
Init ==
  /\ table =
       [order |-> <<>>,
        devices |-> [m \in MACs |-> NoDevice],
        traits |-> [m \in MACs |-> {}],
        addresses |-> [m \in MACs |-> [a \in Addrs |-> NoAddress]],
        claims |-> [a \in Addrs |-> NoClaim],
        dhcp |-> [x \in Exchanges |-> [i \in Messages |-> 0]],
        neighbors |-> [n \in Neighbors |-> [first |-> 0, last |-> 0]],
        told |-> {}]
  /\ applied = 0
  /\ last = [s \in Sources |-> 1]
  /\ heard = {}

Rank(state) ==
  CASE state \in {"claimed", "leased"} -> 3
    [] state = "observed" -> 2
    [] state \in {"seen", "probing"} -> 1
    [] OTHER -> 0

Strong(state) == Rank(state) >= 2
Known(T, m) == T.devices[m].first # 0
Later(a, b) == IF a > b THEN a ELSE b
Family(a) == IF a \in Addrs4 THEN Addrs4 ELSE Addrs6

-----------------------------------------------------------------------------
(* The helpers, each from a table to a table.                              *)

\* Mutant: the latest packet applied sets the time.
touchLast(T, m, at) ==
  IF Known(T, m) THEN [T EXCEPT !.devices[m].last = at]
  ELSE [T EXCEPT !.devices[m] = [NoDevice EXCEPT !.first = at, !.last = at],
                 !.order = Append(@, m),
                 !.told = @ \cup {<<"device", m>>}]

touch(T, m, at) ==
  IF Known(T, m) THEN [T EXCEPT !.devices[m].last = Later(@, at)]
  ELSE [T EXCEPT !.devices[m] = [NoDevice EXCEPT !.first = at, !.last = at],
                 !.order = Append(@, m),
                 !.told = @ \cup {<<"device", m>>}]

addProtocol(T, m, p) == [T EXCEPT !.traits[m] = @ \cup {<<"protocol", p>>}]

addName(T, m, name) ==
  IF name = "" THEN T ELSE [T EXCEPT !.traits[m] = @ \cup {<<"name", name>>}]

weakCount(T, m, a) ==
  Cardinality({b \in Family(a) : T.addresses[m][b].state = "seen"})

\* Mutant: only the first strong claim of an address is noted.
noteClaimFirst(T, m, a, state, at) ==
  IF ~Strong(state) \/ T.claims[a].macs # <<>> THEN T
  ELSE [T EXCEPT !.claims[a] = [macs |-> <<m>>, first |-> at, last |-> at]]

noteClaim(T, m, a, state, at) ==
  LET c == T.claims[a]
      first == IF c.macs = <<>> THEN at ELSE c.first
      new == \A i \in 1..Len(c.macs) : c.macs[i] # m
      macs == IF new THEN Append(c.macs, m) ELSE c.macs
  IN IF ~Strong(state) THEN T
     ELSE [T EXCEPT !.claims[a] = [macs |-> macs, first |-> first, last |-> at],
                    !.told = @ \cup (IF new /\ Len(macs) > 1 THEN {<<"conflict", a, macs>>} ELSE {})]

\* The new or stronger claim of an address, with its event.
raised(T, m, a, state, at) ==
  noteClaim(
    [T EXCEPT !.addresses[m][a] =
                [state |-> state, first |-> IF @.first = 0 THEN at ELSE @.first, last |-> Later(@.last, at)],
              !.devices[m].confirmed = @ \/ Strong(state),
              !.told = @ \cup {<<"address", m, a, state>>}],
    m, a, state, at)

addAddress(T, m, a, state, at) ==
  CASE a = NoAddr -> T
    [] a # NoAddr /\ T.addresses[m][a].state # "none" /\ Rank(state) <= Rank(T.addresses[m][a].state) ->
         [T EXCEPT !.addresses[m][a].last = Later(@, at)]
    [] a # NoAddr /\ T.addresses[m][a].state = "none" /\ state = "seen" /\ weakCount(T, m, a) >= MaxWeak ->
         [T EXCEPT !.devices[m].overflow = @ + 1]
    [] OTHER -> raised(T, m, a, state, at)

markRouter(T, m) == addProtocol(T, m, "ipv6-router")

-----------------------------------------------------------------------------
(* The handlers of the observations.                                       *)

addVLAN(T, m, id) ==
  [T EXCEPT !.traits[m] = @ \cup {<<"vlan", id>>}, !.told = @ \cup {<<"vlan", m, id>>}]

applyFrame(T, p, at) ==
  IF p.src = NoMAC THEN T
  ELSE LET F == touch(T, p.src, at) IN IF p.vlan = 0 THEN F ELSE addVLAN(F, p.src, p.vlan)

\* applyIPv4 and applyIPv6: the address is seen behind the frame.
applyIP(T, p, at) ==
  IF p.src = NoMAC \/ p.ip = NoAddr THEN T
  ELSE addAddress(touch(T, p.src, at), p.src, p.ip, "seen", at)

ARPState(role) ==
  CASE role = "probe" -> "probing"
    [] role = "announcement" -> "claimed"
    [] OTHER -> "observed"

applyARP(T, p, at) ==
  IF p.mac = NoMAC THEN T
  ELSE addAddress(addProtocol(touch(T, p.mac, at), p.mac, "arp"), p.mac, p.addr, ARPState(p.role), at)

applyICMPv6(T, p, at) ==
  LET N == addProtocol(touch(T, p.src, at), p.src, "ndp")
      R == IF p.router THEN markRouter(N, p.src) ELSE N
  IN CASE p.src = NoMAC -> T  \* p.router: an RA, or the flag of an advertisement
       [] p.src # NoMAC /\ p.role = "dad" -> addAddress(N, p.src, p.addr, "probing", at)
       [] p.src # NoMAC /\ p.role = "solicited" -> addAddress(R, p.src, p.addr, "observed", at)
       [] p.src # NoMAC /\ p.role = "unsolicited" -> addAddress(R, p.src, p.addr, "claimed", at)
       [] OTHER -> addAddress(R, p.src, p.ip, "observed", at)

applyLLDP(T, p, at) ==
  LET D == IF p.mac = NoMAC THEN T
           ELSE addName(addProtocol(touch(T, p.mac, at), p.mac, "lldp"), p.mac, p.name)
      key == p.name
  IN IF D.neighbors[key].first # 0 THEN [D EXCEPT !.neighbors[key].last = at]
     ELSE [D EXCEPT !.neighbors[key] = [first |-> at, last |-> at],
                    !.told = @ \cup {<<"neighbor", key>>}]

applyDHCPServer(T, p, at) ==
  IF p.src = NoMAC THEN T
  ELSE addAddress(addProtocol(touch(T, p.src, at), p.src, "dhcp-server"), p.src, p.server, "observed", at)

applyDHCP(T, p, at) ==
  LET C == addName(addProtocol(touch(T, p.mac, at), p.mac, "dhcp"), p.mac, p.name)
      X == IF p.role \in Messages THEN [C EXCEPT !.dhcp[<<p.xid, p.mac>>][p.role] = at] ELSE C
      L == IF p.role = "ack" THEN addAddress(X, p.mac, p.addr, "leased", at) ELSE X
  IN CASE p.mac = NoMAC -> T
       [] p.mac # NoMAC /\ p.role \in {"offer", "ack", "nak"} -> applyDHCPServer(L, p, at)
       [] OTHER -> L

\* Channel Access and PVAccess: what clients and servers leave in the table.
applyEPICS(T, p, at) ==
  IF p.src = NoMAC THEN T
  ELSE LET E == addProtocol(touch(T, p.src, at), p.src, p.role) IN
         IF p.role = "client" THEN E ELSE addAddress(E, p.src, p.addr, "observed", at)

-----------------------------------------------------------------------------
(* One packet.                                                             *)

Arrives(s, p, at, kind) ==
  /\ p.kind = kind
  /\ applied < MaxPackets
  /\ at >= last[s]
  /\ applied' = applied + 1
  /\ last' = [last EXCEPT ![s] = at]
  /\ heard' = heard \cup {[packet |-> p, at |-> at, source |-> s]}

Frame(s, p, at) == Arrives(s, p, at, "frame") /\ table' = applyFrame(table, p, at)
ARP(s, p, at) == Arrives(s, p, at, "arp") /\ table' = applyARP(applyFrame(table, p, at), p, at)
LLDP(s, p, at) == Arrives(s, p, at, "lldp") /\ table' = applyLLDP(applyFrame(table, p, at), p, at)

Datagram(p, at) == applyIP(applyFrame(table, p, at), p, at)
IPv4(s, p, at) == Arrives(s, p, at, "ipv4") /\ table' = Datagram(p, at)
IPv6(s, p, at) == Arrives(s, p, at, "ipv6") /\ table' = Datagram(p, at)
ICMPv6(s, p, at) == Arrives(s, p, at, "ndp") /\ table' = applyICMPv6(Datagram(p, at), p, at)
DHCP(s, p, at) == Arrives(s, p, at, "dhcp") /\ table' = applyDHCP(Datagram(p, at), p, at)
EPICS(s, p, at) == Arrives(s, p, at, "epics") /\ table' = applyEPICS(Datagram(p, at), p, at)

Next ==
  \E s \in Sources, p \in Packets, at \in Times :
    \/ Frame(s, p, at)  \/ ARP(s, p, at)  \/ LLDP(s, p, at) \/ IPv4(s, p, at)
    \/ IPv6(s, p, at) \/ ICMPv6(s, p, at) \/ DHCP(s, p, at) \/ EPICS(s, p, at)

Spec == Init /\ [][Next]_vars

-----------------------------------------------------------------------------
(* What a packet says, whatever the table knew before it.                  *)

About(p) == {p.src, p.mac} \ {NoMAC}

Says(p, m, a, state) ==
  \/ /\ p.kind \in {"ipv4", "ipv6", "ndp", "dhcp", "epics"}
     /\ m = p.src /\ a = p.ip /\ state = "seen"
  \/ p.kind = "arp" /\ m = p.mac /\ a = p.addr /\ state = ARPState(p.role)
  \/ /\ p.kind = "ndp" /\ m = p.src
     /\ \/ p.role = "dad" /\ a = p.addr /\ state = "probing"
        \/ p.role = "solicited" /\ a = p.addr /\ state = "observed"
        \/ p.role = "unsolicited" /\ a = p.addr /\ state = "claimed"
        \/ p.role \in {"solicit", "ra", "rs"} /\ a = p.ip /\ state = "observed"
  \/ /\ p.kind = "dhcp" /\ p.mac # NoMAC
     /\ \/ p.role = "ack" /\ m = p.mac /\ a = p.addr /\ state = "leased"
        \/ p.role \in {"offer", "ack", "nak"} /\ m = p.src /\ a = p.server /\ state = "observed"
  \/ p.kind = "epics" /\ p.role = "server" /\ m = p.src /\ a = p.addr /\ state = "observed"

Heard(m, a, state) == \E h \in heard : Says(h.packet, m, a, state)
Claimed(m, a) == \E state \in States : Strong(state) /\ Heard(m, a, state)
Listed(s) == {s[i] : i \in 1..Len(s)}
Distinct(s) == \A i, j \in 1..Len(s) : s[i] = s[j] => i = j

-----------------------------------------------------------------------------
(* Properties.                                                             *)

\* The state is of its type.
TypeOK ==
  /\ table.order \in Seq(MACs)
  /\ table.devices \in [MACs -> Device]
  /\ table.addresses \in [MACs -> [Addrs -> Address]]
  /\ table.claims \in [Addrs -> Conflict]
  /\ table.dhcp \in [Exchanges -> DHCPTransaction]
  /\ table.neighbors \in [Neighbors -> Neighbor]
  /\ applied \in 0..MaxPackets
  /\ last \in [Sources -> Times]

\* Whatever the order in which the sources deliver, an address ends in the
\* strongest state a packet gave it: nothing heard but "seen" is missing,
\* and no state is there that no packet gave.
StrongestClaimKept ==
  \A m \in MACs, a \in Addrs :
    LET state == table.addresses[m][a].state IN
      /\ state # "none" => Heard(m, a, state)
      /\ \A said \in States \ {"seen"} : Heard(m, a, said) => Rank(said) <= Rank(state)

\* The claims of an address list each device once that was heard to claim
\* it, and no other: a conflict is reported exactly when two devices did.  A
\* device is confirmed exactly when it claims some address.
ConflictsExact ==
  /\ \A a \in Addrs :
       /\ Distinct(table.claims[a].macs)
       /\ Listed(table.claims[a].macs) = {m \in MACs : Claimed(m, a)}
  /\ \A m \in MACs :
       table.devices[m].confirmed <=> \E a \in Addrs : m \in Listed(table.claims[a].macs)

\* A router's device keeps at most MaxWeak addresses of a family that are
\* only seen; what it dropped for that is counted, and no claim is dropped.
WeakBounded ==
  \A m \in MACs, a \in Addrs :
    /\ weakCount(table, m, a) <= MaxWeak
    /\ Heard(m, a, "seen") /\ table.addresses[m][a].state = "none" => table.devices[m].overflow > 0

\* A device is last seen at the latest of its packets, though packets of an
\* earlier time are applied after it, and never before it was first seen.
LastSeenIsLatest ==
  \A m \in MACs :
    LET about == {h \in heard : m \in About(h.packet)}
        d == table.devices[m] IN
      /\ Known(table, m) <=> about # {}
      /\ \A h \in about : h.at <= d.last
      /\ about # {} => d.first <= d.last /\ \E h \in about : h.at = d.last

\* The spans of neighbors and of conflicts end where the last packet put
\* them: they run backward only when two sources heard the neighbor, or the
\* claims of the address.
SpansOfOneSource ==
  /\ \A n \in Neighbors :
       table.neighbors[n].last < table.neighbors[n].first =>
         \E g, h \in heard : /\ g.source # h.source
                             /\ {g.packet.kind, h.packet.kind} = {"lldp"}
                             /\ {g.packet.name, h.packet.name} = {n}
  /\ \A a \in Addrs :
       table.claims[a].last < table.claims[a].first => \E g, h \in heard : g.source # h.source

\* Whoever follows the events knows the table: every device, tag and
\* neighbor, every address in its present state and every conflict.
EventsTellAll ==
  /\ Distinct(table.order)
  /\ \A m \in MACs :
       /\ Known(table, m) <=> m \in Listed(table.order)
       /\ Known(table, m) <=> <<"device", m>> \in table.told
       /\ \A id \in Nat \cap {p.vlan : p \in Packets} :
            <<"vlan", id>> \in table.traits[m] => <<"vlan", m, id>> \in table.told
       /\ \A a \in Addrs :
            table.addresses[m][a].state # "none" =>
              /\ Known(table, m)
              /\ <<"address", m, a, table.addresses[m][a].state>> \in table.told
  /\ \A a \in Addrs :
       Len(table.claims[a].macs) > 1 => <<"conflict", a, table.claims[a].macs>> \in table.told
  /\ \A n \in Neighbors : table.neighbors[n].first # 0 <=> <<"neighbor", n>> \in table.told

\* The claims: none is lost to another packet, to the other source or to the
\* limit of addresses, and who claims what is known exactly.
ClaimsExact == StrongestClaimKept /\ ConflictsExact /\ WeakBounded

\* The records: their times, and the events that tell of them.
RecordsExact == TypeOK /\ LastSeenIsLatest /\ SpansOfOneSource /\ EventsTellAll
=============================================================================
