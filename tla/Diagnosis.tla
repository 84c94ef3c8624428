----------------------------- MODULE Diagnosis -----------------------------
(***************************************************************************)
(* internal/diagnose: the rules on subnets, conflicts, DHCP and Link-Local *)
(* addresses, read over the device table when the observation is over.     *)
(* Rules have no state; a report holds for a table and an end time.  The   *)
(* texts of findings are left out.                                         *)
(***************************************************************************)
EXTENDS DeviceTable

CONSTANTS
  LinkLocal,     \* the Link-Local addresses of Addrs4
  Hosts,         \* addresses of a prefix; an IPv4 address is a number
  Local,         \* the devices that are interfaces of this host
  LocalIPv4,     \* the addresses of the capture interface
  Gateways,      \* of its routes
  Grace          \* dhcpOfferGrace

ASSUME AddressesNumbered == Addrs4 \subseteq Nat /\ LinkLocal \subseteq Addrs4 /\ Hosts \in Nat \ {0}
ASSUME GraceTyped == Grace \in Nat

\* The end of the observation: the last packet of a file, or a later clock.
Ends == {e \in 0..(MaxTime + Grace) : \A h \in heard : h.at <= e}

-----------------------------------------------------------------------------
(* dhcpRules and autoIPRules.                                              *)

\* Mutant: the grace is not waited for.
NotYetNever(x, end) == FALSE

NotYet(x, end) == end # 0 /\ end < table.dhcp[x]["discover"] + Grace

NoOffer(x, end) ==
  LET t == table.dhcp[x] IN
    t["discover"] # 0 /\ t["offer"] = 0 /\ t["ack"] = 0 /\ ~NotYet(x, end)

Nak(x) == table.dhcp[x]["nak"] # 0

Failed(m, end) ==
  \E x \in Exchanges :
    /\ x[2] = m
    /\ table.dhcp[x]["discover"] # 0 /\ table.dhcp[x]["ack"] = 0
    /\ ~NotYet(x, end)

strongClaim(m, a) == Strong(table.addresses[m][a].state)
AutoIP(m, a) == a \in LinkLocal /\ strongClaim(m, a)
Fallback(m, a, end) == AutoIP(m, a) /\ Failed(m, end)

-----------------------------------------------------------------------------
(* The subnet rules.                                                       *)

Prefix(a) == a \div Hosts
containing(a) == \E l \in LocalIPv4 : Prefix(l) = Prefix(a)
Outside(m, a) == LocalIPv4 # {} /\ a \in Addrs4 /\ strongClaim(m, a) /\ ~containing(a)

Used == {a \in Addrs4 : \E m \in MACs : table.addresses[m][a].state # "none"} \cup LocalIPv4 \cup Gateways

\* The highest host of the prefix of a that is not used; 0 when all are.
candidate(a) ==
  LET free == {i \in 1..(Hosts - 2) : Prefix(a) * Hosts + i \notin Used}
  IN IF free = {} THEN 0
     ELSE Prefix(a) * Hosts + (CHOOSE i \in free : \A j \in free : j <= i)

\* The temporary addresses Run recommends: for the claims of other devices,
\* or for the one target of the run.
Evaluated(target) ==
  IF target = NoAddr THEN {c \in (MACs \ Local) \X Addrs4 : strongClaim(c[1], c[2])}
  ELSE {c \in MACs \X {target} : strongClaim(c[1], c[2])}

Recommended(target) ==
  {candidate(c[2]) : c \in {e \in Evaluated(target) : Outside(e[1], e[2])}} \ {0}

TargetSeen(target) == Evaluated(target) # {}

reportConflicts == {a \in Addrs : Len(table.claims[a].macs) > 1}

-----------------------------------------------------------------------------
(* Properties.                                                             *)

Said(x, role) ==
  {h \in heard : h.packet.kind = "dhcp" /\ <<h.packet.xid, h.packet.mac>> = x /\ h.packet.role = role}

\* A discover is called unanswered only when no offer and no lease of its
\* exchange was captured, and the grace has passed since the last copy of it,
\* unless a second source delivered an older copy late.
NoOfferFounded ==
  \A x \in Exchanges, end \in Ends :
    NoOffer(x, end) =>
      /\ Said(x, "discover") # {} /\ Said(x, "offer") \cup Said(x, "ack") = {}
      /\ \A h \in Said(x, "discover") :
           \/ end >= h.at + Grace \/ end = 0
           \/ \E g \in Said(x, "discover") : g.source # h.source /\ g.at < h.at

\* A Link-Local address is called a fallback only when the device claimed it
\* and one of its discovers got no lease, which the report says as well, or an
\* offer was made that led nowhere.
FallbackFounded ==
  \A m \in MACs, a \in Addrs, end \in Ends :
    Fallback(m, a, end) =>
      /\ Claimed(m, a)
      /\ \E x \in Exchanges :
           /\ x[2] = m /\ Said(x, "discover") # {} /\ Said(x, "ack") = {}
           /\ NoOffer(x, end) \/ Said(x, "offer") # {}

\* A recommended address is a host of the prefix of a claimed one, no local
\* address, no gateway, and one that no packet used or asked for, unless the
\* table had to drop it at the limit of weak addresses.
CandidateFree ==
  \A target \in Addrs4 \cup {NoAddr} : \A c \in Recommended(target) :
    /\ c % Hosts \in 1..(Hosts - 2) /\ c \notin LocalIPv4 \cup Gateways
    /\ \E m \in MACs, a \in Addrs4 : Claimed(m, a) /\ Prefix(a) = Prefix(c)
    /\ \A m \in MACs, state \in States :
         c \in Addrs4 /\ Heard(m, c, state) => state = "seen" /\ table.devices[m].overflow > 0

\* A target is reported as silent or absent exactly when no device was heard
\* to claim it, and every conflict is in the report of a run without target.
TargetSeenExact ==
  /\ \A target \in Addrs4 : TargetSeen(target) <=> \E m \in MACs : Claimed(m, target)
  /\ reportConflicts = {a \in Addrs : \E m, n \in MACs : m # n /\ Claimed(m, a) /\ Claimed(n, a)}

\* What the report concludes rests on what was captured.
ReportFounded == NoOfferFounded /\ FallbackFounded /\ CandidateFree /\ TargetSeenExact
=============================================================================
