------------------------------ MODULE Decoder ------------------------------
(***************************************************************************)
(* What becomes of a frame: the kernel's filter (Bpf, made by              *)
(* cmd/wirepup/filters.go from the names after --protocol), the decoder of *)
(* a source (internal/decode) and the display filter.  The decoder keeps   *)
(* one thing between packets: the TCP ports that servers announced.        *)
(* Channel Access messages are their headers (internal/epics/ca), as some  *)
(* are told apart only by the values of their fields; PVAccess messages    *)
(* (internal/epics/pva) say what they are.                                 *)
(***************************************************************************)
EXTENDS Bpf, FiniteSets

CONSTANTS
  Frames,     \* what is on the wire
  Names,      \* the names --protocol may list
  MaxNames,   \* bound of the model: names listed
  MaxPackets  \* bound of the model: packets decoded

VARIABLES
  names, rules,      \* filterFor: the names so far, the rules they stand for
  open,              \* the source is open
  kernel,            \* the program attached to the source, <<>> for none
  caTCP, pvaTCP,     \* the ports learned
  stats,
  announced, owed    \* history: ports announced on the wire, the clear ones

filterVars == <<names, rules, open, kernel>>
decoderVars == <<caTCP, pvaTCP, stats, announced, owed>>
passageVars == <<filterVars, decoderVars>>

ICMPv6 == 58
TCP == 6
UDP == 17
ServerPort == 67
ClientPort == 68
CAServer == 5064
CARepeater == 5065
PVATCP == 5075
PVAUDP == 5076
MaxPort == 65535

-----------------------------------------------------------------------------
(* filters.go                                                              *)

Rule(type, proto, port) == [etherType |-> type, ipProto |-> proto, port |-> port]
OnUDP(port) == Rule(TypeIPv4, UDP, port)
AllTCP == Rule(TypeIPv4, TCP, 0)

protocolRules ==
  [frame |-> <<>>, arp |-> <<Rule(TypeARP, 0, 0)>>, lldp |-> <<Rule(TypeLLDP, 0, 0)>>,
   ipv4 |-> <<Rule(TypeIPv4, 0, 0)>>, dhcp |-> <<OnUDP(ServerPort), OnUDP(ClientPort)>>,
   ipv6 |-> <<Rule(TypeIPv6, 0, 0)>>, ndp |-> <<Rule(TypeIPv6, ICMPv6, 0)>>, tcp |-> <<AllTCP>>,
   ca |-> <<OnUDP(CAServer), OnUDP(CARepeater), AllTCP>>, pva |-> <<OnUDP(PVAUDP), AllTCP>>]

\* The protocols of observations that each name displays.
displays ==
  [frame |-> "ethernet", arp |-> "arp", lldp |-> "lldp", ipv4 |-> "ipv4", dhcp |-> "dhcp",
   ipv6 |-> "ipv6", ndp |-> "icmpv6", tcp |-> "tcp", ca |-> "epics.ca", pva |-> "epics.pva"]

\* A packet is shown when one of its observations is of a protocol asked for.
wantPacket(obs) == names = {} \/ \E n \in names : \E o \in obs : o.proto = displays[n]

-----------------------------------------------------------------------------
(* Channel Access.                                                         *)

DoReply == 10
DontReply == 5
AnySender == 255       \* 0xffffffff, the largest id
payloadAlign == 8

CaMessage(cmd, size, dataType, count, cid, available) ==
  [cmd |-> cmd, size |-> size, dataType |-> dataType, count |-> count,
   cid |-> cid, available |-> available, cut |-> FALSE]

\* What clients and servers send.
CaVersion(id) == CaMessage("version", 0, 1, 13, id, 0)
CaSearch(id, flag) == CaMessage("search", 2 * payloadAlign, flag, 13, id, id)
CaReply(id, port) == CaMessage("search", payloadAlign, port, 0, AnySender, id)
CaBeacon(port) == CaMessage("beacon", 0, 13, port, 1, 0)

UdpCommands ==
  {"version", "search", "not_found", "beacon", "repeater_register", "repeater_confirm", "echo"}

isSearchResponse(m) ==
  /\ ~(m.size > 0 /\ m.cid = m.available /\ m.dataType \in {DoReply, DontReply})
  /\ m.count = 0 /\ m.size \in {0, payloadAlign}

CaFromServer(m, dst) ==
  CASE m.cmd = "search" -> isSearchResponse(m)
    [] m.cmd = "create_channel" -> m.size = 0
    [] m.cmd \in {"not_found", "beacon", "repeater_confirm", "access_rights",
                  "create_channel_fail", "server_disconnect", "error"} -> TRUE
    [] m.cmd \in {"repeater_register", "client_name", "host_name"} -> FALSE
    [] OTHER -> dst # CAServer

CaPort(m, dst) ==
  CASE m.cmd = "search" /\ CaFromServer(m, dst) -> m.dataType
    [] m.cmd = "beacon" -> m.count
    [] OTHER -> 0

\* An observation; port is that of the server, 0 when the message has none.
Obs(proto, kind, server, port, conf) ==
  [proto |-> proto, kind |-> kind, server |-> server, port |-> port, conf |-> conf]
Plain(proto, conf) == Obs(proto, proto, FALSE, 0, conf)

CaInterpret(m, dst, conf) ==
  Obs("epics.ca", m.cmd, CaFromServer(m, dst), CaPort(m, dst), conf)

CaProbable(payload) ==
  /\ payload.kind = "ca" /\ payload.msgs # <<>>
  /\ LET m == Head(payload.msgs) IN
       \/ /\ m.cmd = "search" /\ m.size % payloadAlign = 0
          /\ m.dataType \in {DoReply, DontReply} \/ m.cid = AnySender
       \/ m.cmd = "beacon" /\ m.size = 0 /\ m.count # 0
       \/ m.cmd = "version" /\ m.size = 0 /\ m.count <= 64

-----------------------------------------------------------------------------
(* Parsing.  A payload has a kind, its messages, and whether bytes follow  *)
(* that begin no message.                                                  *)

\* The messages before the first that cannot be parsed, or may not be here.
Parsed(payload, kind, strays) ==
  LET bad == {i \in DOMAIN payload.msgs : payload.msgs[i].cut \/ payload.msgs[i] \in strays}
      before == {n \in 0 .. Len(payload.msgs) : \A i \in bad : n < i}
  IN  IF payload.kind # kind THEN <<>> ELSE SubSeq(payload.msgs, 1, Max(before))
Failed(payload, parsed) == payload.foreign \/ Len(parsed) < Len(payload.msgs)

\* A partial or foreign tail lowers the confidence.
Hinted(payload, parsed, conf) == IF Failed(payload, parsed) THEN "strong hint" ELSE conf

decodeCA(f, udp, conf) ==
  LET strays == {m \in ToSet(f.payload.msgs) : udp /\ m.cmd \notin UdpCommands}
      ms == Parsed(f.payload, "ca", strays) IN
    IF udp /\ Failed(f.payload, ms) THEN {}
    ELSE {CaInterpret(m, f.dst, Hinted(f.payload, ms, conf)) : m \in ToSet(ms)}

PvaFromServer(m) ==
  CASE m.control -> m.server
    [] m.cmd \in {"search", "connection_validated"} -> FALSE
    [] m.cmd \in {"search_response", "beacon"} -> TRUE
    [] OTHER -> m.server

PvaInterpret(m, conf) ==
  Obs("epics.pva", m.cmd, PvaFromServer(m),
      IF ~m.control /\ m.cmd \in {"search_response", "beacon"} THEN m.port ELSE 0,
      IF ~m.control /\ ~m.whole THEN "strong hint" ELSE conf)

PvaProbable(payload) == payload.kind = "pva" /\ payload.msgs # <<>>

PvaParsed(f) == Parsed(f.payload, "pva", {})

decodePVA(f, udp, conf) ==
  LET ms == PvaParsed(f) IN
    IF udp /\ Failed(f.payload, ms) THEN {}
    ELSE {PvaInterpret(m, Hinted(f.payload, ms, conf)) : m \in ToSet(ms)}

-----------------------------------------------------------------------------
(* decode.go                                                               *)

isPort(f, port) == port \in {f.src, f.dst}

\* Mutant: ports that were learned are not asked.
isCATCPDefault(f) == isPort(f, CAServer)

isCATCP(f) == isPort(f, CAServer) \/ \E p \in caTCP : isPort(f, p)
isPVATCP(f) == isPort(f, PVATCP) \/ \E p \in pvaTCP : isPort(f, p)

decodeDHCP(f) ==
  IF f.payload.kind = "dhcp" THEN {Plain("dhcp", "confirmed")}
  ELSE IF f.payload.kind = "dhcp untyped" THEN {Plain("dhcp", "strong hint")} ELSE {}

decodeUDP(f) ==
  IF f.len < 22 + f.hl THEN {}
  ELSE IF isPort(f, ServerPort) \/ isPort(f, ClientPort) THEN decodeDHCP(f)
  ELSE IF isPort(f, CAServer) \/ isPort(f, CARepeater) THEN decodeCA(f, TRUE, "confirmed")
  ELSE IF isPort(f, PVAUDP) THEN decodePVA(f, TRUE, "confirmed")
  ELSE IF PvaProbable(f.payload) THEN decodePVA(f, TRUE, "strong hint")
  ELSE IF CaProbable(f.payload) THEN decodeCA(f, TRUE, "strong hint")
  ELSE {}

decodeTCP(f) ==
  IF f.len < 34 + f.hl THEN {}
  ELSE (IF f.event THEN {Plain("tcp", "confirmed")} ELSE {})
         \cup IF isPVATCP(f) \/ PvaProbable(f.payload)
              THEN decodePVA(f, FALSE, IF isPVATCP(f) THEN "confirmed" ELSE "strong hint")
              ELSE IF isCATCP(f) THEN decodeCA(f, FALSE, "confirmed") ELSE {}

decodeIPv4(f) ==
  IF f.parse = "bad" \/ f.len < 34 \/ f.len < 14 + f.hl THEN {}
  ELSE {Plain("ipv4", "confirmed")}
         \cup IF Offset(f) # 0 THEN {}
              ELSE IF f.proto = UDP THEN decodeUDP(f)
              ELSE IF f.proto = TCP THEN decodeTCP(f) ELSE {}

decodeIPv6(f) ==
  IF f.len < 54 THEN {}
  ELSE {Plain("ipv6", "confirmed")}
         \cup IF f.frag # 0 \/ f.proto # ICMPv6 \/ f.parse = "bad" THEN {}
              ELSE {Plain("icmpv6", IF f.parse = "ok" THEN "confirmed" ELSE "strong hint")}

decodeARP(f) == IF f.parse = "bad" THEN {} ELSE {Plain("arp", "confirmed")}

decodeLLDP(f) ==
  IF f.parse = "bad" THEN {}
  ELSE {Plain("lldp", IF f.parse = "ok" THEN "confirmed" ELSE "strong hint")}

Whole(f) == f.link = "ethernet" /\ f.len >= 14

Decode(f) ==
  IF ~Whole(f) THEN {}
  ELSE {Plain("ethernet", "confirmed")}
         \cup CASE SeenType(f) = TypeARP -> decodeARP(f)
                [] SeenType(f) = TypeLLDP -> decodeLLDP(f)
                [] SeenType(f) = TypeIPv4 -> decodeIPv4(f)
                [] SeenType(f) = TypeIPv6 -> decodeIPv6(f)
                [] OTHER -> {}

\* The ports that an observation announces.  A malformed PVA message may
\* have a port, and announces none.
LearnedCA(obs) ==
  {o.port : o \in {b \in obs : b.proto = "epics.ca" /\ b.kind \in {"search", "beacon"}}} \ {0}
LearnedPVA(f, obs) ==
  {m.port : m \in {w \in ToSet(PvaParsed(f)) :
     /\ w.whole /\ ~w.control /\ w.cmd \in {"search_response", "beacon"}
     /\ \E o \in obs : o.proto = "epics.pva"}} \ {0}

Counted(f) ==
  [stats EXCEPT !.packets = @ + 1,
                !.skipped = IF f.link = "ethernet" THEN @ ELSE @ + 1,
                !.malformed = IF f.link = "ethernet" /\ f.len < 14 THEN @ + 1 ELSE @,
                !.decoded = IF Whole(f) THEN @ + 1 ELSE @]

-----------------------------------------------------------------------------
(* The wire: what a message announces to whoever knows its sender.  A port *)
(* of zero is none.                                                        *)

AnnouncedCA(f) ==
  IF f.payload.kind # "ca" THEN {}
  ELSE {<<"ca", m.count>> : m \in {b \in ToSet(f.payload.msgs) : b = CaBeacon(b.count)}}
         \cup {<<"ca", m.dataType>> : m \in {b \in ToSet(f.payload.msgs) : b = CaReply(b.available, b.dataType)}}
AnnouncedPVA(f) ==
  IF f.payload.kind # "pva" THEN {}
  ELSE {<<"pva", m.port>> : m \in {b \in ToSet(f.payload.msgs) :
          ~b.control /\ b.cmd \in {"search_response", "beacon"}}}
Announces(f) == {a \in AnnouncedCA(f) \cup AnnouncedPVA(f) : a[2] # 0}

\* A datagram in one piece between ports of its protocol, none of them that
\* of a protocol which the decoder asks for first, the id of a reply not all
\* ones.
Clear(f) ==
  /\ Whole(f) /\ SeenType(f) = TypeIPv4 /\ f.parse = "ok" /\ f.frag = 0 /\ f.proto = UDP
  /\ f.len >= 22 + f.hl
  /\ ~isPort(f, ServerPort) /\ ~isPort(f, ClientPort)
  /\ IF isPort(f, CAServer) \/ isPort(f, CARepeater) THEN f.payload.kind = "ca"
                                                   ELSE f.payload.kind = "pva" /\ isPort(f, PVAUDP)
  /\ ~f.payload.foreign
  /\ \A m \in ToSet(f.payload.msgs) :
       ~m.cut /\ IF f.payload.kind = "pva" THEN m.whole
                 ELSE m.cmd \in UdpCommands /\ (m.cmd = "search" => m.available # AnySender)

\* The builders make of a Channel Access search a request or a reply, and of
\* a beacon a beacon; headers of IPv4 have 20 bytes, and extension headers
\* are of IPv6.
CaTyped(m) ==
  /\ {m.dataType, m.count} \subseteq 0..MaxPort
  /\ ~m.cut /\ m.cmd = "beacon" => m = CaBeacon(m.count)
  /\ ~m.cut /\ m.cmd = "search" =>
       m \in {CaSearch(m.cid, DoReply), CaSearch(m.cid, DontReply), CaReply(m.available, m.dataType)}
Typed(f) ==
  /\ {f.len, f.hl, f.ether, f.proto, f.frag, f.src, f.dst} \subseteq Nat
  /\ f.hl >= 20 /\ (f.ext => f.ether = TypeIPv6)
  /\ f.payload.msgs \in Seq(ToSet(f.payload.msgs))
  /\ f.payload.kind = "ca" => \A m \in ToSet(f.payload.msgs) : CaTyped(m)
  /\ f.payload.kind = "pva" => \A m \in ToSet(f.payload.msgs) : m.port \in 0..MaxPort
ASSUME FramesTyped == \A f \in Frames : Typed(f)

\* filterFor refuses a name it does not know.
ASSUME NamesKnown == Names \subseteq DOMAIN displays

-----------------------------------------------------------------------------

DecoderInit ==
  /\ names = {} /\ rules = <<>> /\ open = FALSE /\ kernel = <<>>
  /\ caTCP = {} /\ pvaTCP = {} /\ announced = {} /\ owed = {}
  /\ stats = [packets |-> 0, decoded |-> 0, malformed |-> 0, skipped |-> 0]

\* The names come in the order in which Go walks the map.
Pick(n) ==
  /\ ~open /\ n \notin names /\ Cardinality(names) < MaxNames
  /\ names' = names \cup {n} /\ rules' = rules \o protocolRules[n]
  /\ UNCHANGED <<open, kernel, decoderVars>>

KernelFilter == names # {} /\ \A n \in names : protocolRules[n] # <<>>
Delivered(f) == kernel # <<>> => Accepts(kernel, f)

\* A socket with the program attached; a name without rules attaches none.
OpenLive ==
  /\ ~open
  /\ open' = TRUE /\ rules' = <<>>
  /\ kernel' = IF KernelFilter THEN Assemble(rules) ELSE <<>>
  /\ UNCHANGED <<names, decoderVars>>

\* A capture file delivers everything in it.
OpenFile ==
  /\ ~open
  /\ open' = TRUE /\ rules' = <<>> /\ kernel' = <<>>
  /\ UNCHANGED <<names, decoderVars>>

Packet(f) ==
  /\ open /\ stats.packets < MaxPackets /\ Delivered(f)
  /\ stats' = Counted(f)
  /\ LET obs == Decode(f) IN
       caTCP' = caTCP \cup LearnedCA(obs) /\ pvaTCP' = pvaTCP \cup LearnedPVA(f, obs)
  /\ announced' = announced \cup Announces(f)
  /\ owed' = IF Clear(f) THEN owed \cup Announces(f) ELSE owed
  /\ UNCHANGED filterVars

DecoderNext ==
  \/ \E n \in Names : Pick(n)
  \/ OpenLive \/ OpenFile
  \/ \E f \in Frames : Packet(f)

DecoderSpec == DecoderInit /\ [][DecoderNext]_passageVars

-----------------------------------------------------------------------------
(* Properties.                                                             *)

\* The state is of its type, and every packet is counted once more.
DecoderTypeOK ==
  /\ names \subseteq Names /\ open \in BOOLEAN
  /\ caTCP \cup pvaTCP \subseteq 1..MaxPort
  /\ stats.packets = stats.decoded + stats.malformed + stats.skipped

\* A frame that ends before its protocol or its ports.
Runt(f) ==
  \/ SeenType(f) \in {TypeIPv4, TypeIPv6} /\ f.len <= ProtoOffset(f)
  \/ SeenType(f) = TypeIPv4 /\ Offset(f) = 0 /\ f.len < 18 + f.hl

\* Whatever the order of the names, the program can be assembled, accepts
\* only frames that match a rule, and of those all but runts, which a load
\* past the end may drop before the rule that they match.
FilterExact ==
  ~open /\ rules # <<>> =>
    LET prog == Assemble(rules) IN
      /\ InRange(prog)
      /\ \A f \in Frames :
           LET match == \E i \in DOMAIN rules : Matches(rules[i], f) IN
             /\ Accepts(prog, f) => match
             /\ match => Accepts(prog, f) \/ Runt(f)

\* What the kernel drops although the decoder would have shown it: EPICS
\* datagrams between ports that neither protocol has by default, ICMPv6
\* behind extension headers, and runts.  Nothing else is lost to a filter.
KernelHidesOnly ==
  open => \A f \in Frames :
    ~Delivered(f) /\ wantPacket(Decode(f)) =>
      \/ f.ether = TypeIPv4 /\ f.proto = UDP
           /\ {f.src, f.dst} \cap {ServerPort, ClientPort, CAServer, CARepeater, PVAUDP} = {}
      \/ f.ether = TypeIPv6 /\ f.ext
      \/ Runt(f)

\* Only ports that a server announced are learned, each for its protocol,
\* and all that a clear datagram announced.
LearnedTrue ==
  LET learned == {<<"ca", p>> : p \in caTCP} \cup {<<"pva", p>> : p \in pvaTCP} IN
    learned \subseteq announced /\ owed \subseteq learned

\* A segment that begins with a Channel Access message, to or from a port
\* that was announced for it, is decoded as such, unless one of its ports
\* was announced for PVAccess by whatever host.
SegmentDecoded ==
  open => \A f \in Frames :
    /\ Whole(f) /\ SeenType(f) = TypeIPv4 /\ f.parse = "ok" /\ f.frag = 0 /\ f.proto = TCP
    /\ f.len >= 34 + f.hl
    /\ f.payload.kind = "ca" /\ f.payload.msgs # <<>> /\ ~Head(f.payload.msgs).cut
    /\ isPort(f, CAServer) \/ (\E p \in {f.src, f.dst} : <<"ca", p>> \in owed)
    => \/ \E o \in Decode(f) : o.proto = "epics.ca"
       \/ isPort(f, PVATCP) \/ \E p \in {f.src, f.dst} : <<"pva", p>> \in announced

\* EPICS is called confirmed only when the whole payload was parsed, and a
\* port is the default of the protocol or was announced for it.
ConfirmedEarned ==
  open => \A f \in Frames : \A o \in Decode(f) :
    o.conf = "confirmed" /\ o.proto \in {"epics.ca", "epics.pva"} =>
      /\ ~f.payload.foreign /\ \A i \in DOMAIN f.payload.msgs : ~f.payload.msgs[i].cut
      /\ \/ {f.src, f.dst} \cap {CAServer, CARepeater, PVAUDP, PVATCP} # {}
         \/ \E p \in {f.src, f.dst} : <<IF o.proto = "epics.ca" THEN "ca" ELSE "pva", p>> \in announced

\* The filter and the decoder agree on what is worth seeing.
FilterSound == FilterExact /\ KernelHidesOnly /\ InRange(kernel)

\* What the decoder says of a frame is true, and it says what it can.
DecodedTrue == DecoderTypeOK /\ LearnedTrue /\ SegmentDecoded /\ ConfirmedEarned
=============================================================================
