--------------------------- MODULE MCDeviceTable ---------------------------
(***************************************************************************)
(* The device table with two sources, two devices of which one is a router *)
(* and DHCP server, four hosts per prefix, and one packet of each kind that *)
(* the handlers tell apart.                                                *)
(***************************************************************************)
EXTENDS Diagnosis, TLC

CONSTANTS s1, s2, m1, m2

Symmetric == Permutations({s1, s2})

Blank ==
  [kind |-> "frame", src |-> m1, vlan |-> 0, ip |-> NoAddr, mac |-> NoMAC, role |-> "",
   addr |-> NoAddr, router |-> FALSE, xid |-> 0, server |-> NoAddr, name |-> ""]

Arp(m, role, a) == [Blank EXCEPT !.kind = "arp", !.src = m, !.mac = m, !.role = role, !.addr = a]
Ip(m, a) == [Blank EXCEPT !.kind = "ipv4", !.src = m, !.ip = a]
Ndp(m, role, ip, a, router) ==
  [Blank EXCEPT !.kind = "ndp", !.src = m, !.role = role, !.ip = ip, !.addr = a, !.router = router]
Dhcp(m, role, a) ==
  [Blank EXCEPT !.kind = "dhcp", !.src = m, !.mac = m1, !.role = role, !.addr = a, !.server = IF m = m2 THEN 6 ELSE NoAddr]

\* 5 and 6 are the hosts of one prefix, 9 is Link-Local, 21 is IPv6.
MCPackets ==
  {[Blank EXCEPT !.vlan = 7], Arp(m1, "probe", 5), Arp(m2, "announcement", 5), Arp(m1, "request", 5),
   [Arp(m1, "reply", 9) EXCEPT !.src = m2],
   Ip(m2, 5), Ip(m2, 6),
   [Blank EXCEPT !.kind = "ipv6", !.ip = 21], Ndp(m2, "dad", NoAddr, 21, FALSE), Ndp(m1, "solicited", NoAddr, 21, FALSE),
   Ndp(m2, "unsolicited", NoAddr, 21, TRUE), Ndp(m2, "ra", 21, NoAddr, TRUE),
   [Blank EXCEPT !.kind = "lldp", !.mac = m1, !.name = "switch"],
   Dhcp(m1, "discover", NoAddr), Dhcp(m1, "request", NoAddr), Dhcp(m2, "offer", NoAddr), Dhcp(m2, "ack", 5),
   Dhcp(m2, "nak", NoAddr), Dhcp(m1, "decline", NoAddr),
   [Blank EXCEPT !.kind = "epics", !.role = "client"],
   [Blank EXCEPT !.kind = "epics", !.src = m2, !.role = "server", !.ip = 6, !.addr = 6],
   [Blank EXCEPT !.src = NoMAC]}
=============================================================================
