----------------------------- MODULE MCDecoder -----------------------------
(* Frames for Decoder: each protocol whole, broken and at its limits.      *)
EXTENDS Decoder

Nothing == [kind |-> "none", msgs |-> <<>>, foreign |-> TRUE]
Ca(msgs) == [kind |-> "ca", msgs |-> msgs, foreign |-> FALSE]
Pva(msgs) == [kind |-> "pva", msgs |-> msgs, foreign |-> FALSE]
Dhcp(kind) == [kind |-> kind, msgs |-> <<>>, foreign |-> FALSE]
Followed(payload) == [payload EXCEPT !.foreign = TRUE]
LastCut(payload) == [payload EXCEPT !.msgs[Len(payload.msgs)].cut = TRUE]

PvaMessage(cmd, server, port, whole) ==
  [control |-> FALSE, cmd |-> cmd, server |-> server, port |-> port, whole |-> whole, cut |-> FALSE]
SetByteOrder == [PvaMessage("control", TRUE, 0, TRUE) EXCEPT !.control = TRUE]

\* An ordinary server port, and one that is also a flag of requests.
P == 40000
Client == 50000
CreateChannel == CaMessage("create_channel", 16, 0, 0, 1, 13)

CaDatagrams ==
  {Ca(<<CaVersion(1), CaSearch(1, DontReply)>>), Ca(<<CaSearch(AnySender, DoReply)>>),
   Ca(<<CaReply(1, P)>>), Ca(<<CaReply(1, DoReply)>>), Ca(<<CaReply(AnySender, DoReply)>>),
   Ca(<<CaBeacon(P)>>), Followed(Ca(<<CaBeacon(P)>>)), LastCut(Ca(<<CaBeacon(P), CaVersion(1)>>)),
   Ca(<<CaMessage("not_found", 0, 0, 0, 1, 1)>>), Ca(<<CaMessage("repeater_register", 0, 0, 0, 0, 9)>>),
   Ca(<<CaVersion(1), CreateChannel>>)}
PvaDatagrams ==
  {Pva(<<PvaMessage("search", FALSE, 0, TRUE)>>), Pva(<<PvaMessage("search_response", TRUE, P, TRUE)>>),
   Pva(<<PvaMessage("beacon", TRUE, P, FALSE)>>), LastCut(Pva(<<PvaMessage("beacon", TRUE, P, TRUE)>>))}
Streams ==
  {Nothing, Ca(<<CreateChannel>>), LastCut(Ca(<<CaVersion(1), CreateChannel>>)), LastCut(Ca(<<CreateChannel>>)),
   Followed(Ca(<<CaMessage("access_rights", 0, 0, 0, 1, 3)>>)),
   Pva(<<SetByteOrder, PvaMessage("connection_validation", TRUE, 0, TRUE)>>),
   LastCut(Pva(<<PvaMessage("create_channel", FALSE, 0, TRUE)>>))}

Base ==
  [link |-> "ethernet", len |-> 200, tags |-> 0, ether |-> TypeARP, parse |-> "ok", proto |-> 0,
   ext |-> FALSE, frag |-> 0, hl |-> 20, src |-> 0, dst |-> 0, event |-> FALSE, payload |-> Nothing]
V4(proto, src, dst, payload) ==
  [Base EXCEPT !.ether = TypeIPv4, !.proto = proto, !.src = src, !.dst = dst, !.payload = payload]
V6 == [Base EXCEPT !.ether = TypeIPv6, !.proto = ICMPv6]

Odd(f) ==
  {[f EXCEPT !.tags = 1], [f EXCEPT !.tags = 2], [f EXCEPT !.parse = "bad"],
   [f EXCEPT !.len = 10], [f EXCEPT !.link = "other"]}
OddV4(f) ==
  Odd(f) \cup {[f EXCEPT !.hl = 24], [f EXCEPT !.frag = 185], [f EXCEPT !.frag = 8192],
               [f EXCEPT !.len = 20], [f EXCEPT !.len = 36], [f EXCEPT !.len = 40]}

MCFrames ==
  {Base} \cup Odd(Base)
    \cup {[Base EXCEPT !.ether = TypeLLDP, !.parse = p] : p \in {"ok", "malformed", "bad"}}
    \cup {[V6 EXCEPT !.ext = x, !.parse = p] : x \in BOOLEAN, p \in {"ok", "malformed", "bad"}}
    \cup {[V6 EXCEPT !.frag = 1], [V6 EXCEPT !.proto = UDP], [V6 EXCEPT !.len = 40], [V6 EXCEPT !.len = 22], [V6 EXCEPT !.len = 20]}
    \cup {V4(1, 0, 0, Nothing), [V4(UDP, 0, 0, Nothing) EXCEPT !.frag = 185, !.len = 22],
           V4(UDP, ServerPort, ClientPort, Dhcp("dhcp untyped"))}
    \cup OddV4(V4(UDP, ClientPort, ServerPort, Dhcp("dhcp")))
    \cup OddV4(V4(UDP, CAServer, Client, Ca(<<CaReply(1, P)>>)))
    \cup OddV4(V4(TCP, Client, P, Ca(<<CreateChannel>>)))
    \cup {V4(UDP, s, Client, d) : s \in {CAServer, PVAUDP, P}, d \in CaDatagrams \cup PvaDatagrams \cup {Nothing}}
    \cup {V4(UDP, Client, s, d) : s \in {CAServer, CARepeater}, d \in CaDatagrams}
    \cup {V4(TCP, Client, s, d) : s \in {CAServer, PVATCP, P, DoReply}, d \in Streams}
    \cup {[V4(TCP, P, Client, d) EXCEPT !.event = TRUE] : d \in Streams}
MCNames == DOMAIN displays
=============================================================================
