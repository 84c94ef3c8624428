-------------------------------- MODULE Bpf --------------------------------
(***************************************************************************)
(* internal/capture/bpf/bpf.go: rules become blocks of instructions with   *)
(* symbolic jumps, and the blocks one program with forward offsets.  The   *)
(* kernel runs the program over the frame without its outer VLAN tag; a    *)
(* load past the end of the frame drops the frame.                         *)
(* A rule is [etherType, ipProto, port] with 0 for "any".  A frame has     *)
(* ether, tags, len (bytes without tags), hl (bytes of the IPv4 header),   *)
(* frag, proto, ext, src and dst; ext tells of IPv6 extension headers.     *)
(***************************************************************************)
EXTENDS Integers, Sequences, SequencesExt

TypeIPv4 == 2048
TypeARP == 2054
TypeVLAN == 33024
TypeIPv6 == 34525
TypeLLDP == 35020
DestOpts == 60
ipv4FragMask == 8191

AcceptLength == 262144
maxJump == 255
targetAccept == -1
targetNext == -2

Jumps == {"JeqK", "JsetK"}
Load(code, k) == [code |-> code, jt |-> 0, jf |-> 0, k |-> k]
Jump(code, k, jt, jf) == [code |-> code, jt |-> jt, jf |-> jf, k |-> k]
Ret(k) == [code |-> "RetK", jt |-> 0, jf |-> 0, k |-> k]

EtherIs(t, jt) == <<Load("LdHalfAbs", 12), Jump("JeqK", t, jt, targetNext)>>

\* The check of the protocol, which accepts when it is the last one.
ProtoIs(r, offset, n) ==
  IF r.ipProto = 0 THEN <<>>
  ELSE <<Load("LdByteAbs", offset),
         Jump("JeqK", r.ipProto, IF r.port = 0 THEN targetAccept ELSE n + 2, targetNext)>>

\* Mutant: fragments are looked at like whole packets.
PortIsAnyFragment(r, n) ==
  IF r.port = 0 THEN <<>>
  ELSE <<Load("LdHalfAbs", 20), Jump("JsetK", ipv4FragMask, n + 2, n + 2),
         Load("LdxMshByte", 14), Load("LdHalfInd", 14),
         Jump("JeqK", r.port, targetAccept, n + 5), Load("LdHalfInd", 16),
         Jump("JeqK", r.port, targetAccept, targetNext)>>

PortIs(r, n) ==
  IF r.port = 0 THEN <<>>
  ELSE <<Load("LdHalfAbs", 20), Jump("JsetK", ipv4FragMask, targetNext, n + 2),
         Load("LdxMshByte", 14), Load("LdHalfInd", 14),
         Jump("JeqK", r.port, targetAccept, n + 5), Load("LdHalfInd", 16),
         Jump("JeqK", r.port, targetAccept, targetNext)>>

ipv4Block(r) ==
  LET b == EtherIs(TypeIPv4, 2) \o ProtoIs(r, 23, 2) IN b \o PortIs(r, Len(b))

ipv6Block(r) ==
  LET b == EtherIs(TypeIPv6, 2) \o ProtoIs(r, 20, 2)
      n == Len(b)
  IN  IF r.port = 0 THEN b
      ELSE b \o <<Load("LdHalfAbs", 54), Jump("JeqK", r.port, targetAccept, n + 2),
                  Load("LdHalfAbs", 56), Jump("JeqK", r.port, targetAccept, targetNext)>>

\* One block for each address family; an empty rule is refused before.
blocksFor(r) ==
  IF r.ipProto = 0 /\ r.port = 0 THEN <<EtherIs(r.etherType, targetAccept)>>
  ELSE (IF r.etherType \in {0, TypeIPv4} THEN <<ipv4Block(r)>> ELSE <<>>)
         \o (IF r.etherType \in {0, TypeIPv6} THEN <<ipv6Block(r)>> ELSE <<>>)

\* Where a symbolic target lies, from 0, in a program of total instructions
\* and its two returns; next is the start of the following block.
resolve(target, start, total, next) ==
  CASE target = targetAccept -> total
    [] target = targetNext -> next
    [] OTHER -> start + target

\* The instructions of a block that starts at start.
Linked(b, start, total, next) ==
  [j \in DOMAIN b |->
     IF b[j].code \in Jumps
     THEN [b[j] EXCEPT !.jt = resolve(@, start, total, next) - (start + j),
                       !.jf = resolve(@, start, total, next) - (start + j)]
     ELSE b[j]]

link(blocks) ==
  LET total == Len(FlattenSeq(blocks))
      start(i) == Len(FlattenSeq(SubSeq(blocks, 1, i - 1)))
      next(i) == IF i < Len(blocks) THEN start(i + 1) ELSE total + 1
  IN  FlattenSeq([i \in DOMAIN blocks |-> Linked(blocks[i], start(i), total, next(i))])
        \o <<Ret(AcceptLength), Ret(0)>>

Assemble(rules) ==
  IF rules = <<>> THEN <<Ret(AcceptLength)>>
  ELSE link(FlattenSeq([i \in DOMAIN rules |-> blocksFor(rules[i])]))

\* link refuses a program with a jump that does not fit its byte.
InRange(prog) ==
  \A i \in DOMAIN prog : {prog[i].jt, prog[i].jf} \subseteq 0..maxJump

-----------------------------------------------------------------------------
(* The kernel.                                                             *)

\* The type behind the outer tag: an inner tag hides what it carries.
SeenType(f) == IF f.tags > 1 THEN TypeVLAN ELSE f.ether

\* What a load from k finds; -1 stands for bytes that mean something else.
At(f, code, k) ==
  CASE k = 12 -> SeenType(f)
    [] k = 20 /\ code = "LdHalfAbs" /\ SeenType(f) = TypeIPv4 -> f.frag
    [] k = 20 /\ code = "LdByteAbs" /\ SeenType(f) = TypeIPv6 ->
         IF f.ext THEN DestOpts ELSE f.proto
    [] k = 23 /\ SeenType(f) = TypeIPv4 -> f.proto
    [] k = 14 + f.hl /\ SeenType(f) = TypeIPv4 -> f.src
    [] k = 16 + f.hl /\ SeenType(f) = TypeIPv4 -> f.dst
    [] OTHER -> -1
Width(code) == IF code \in {"LdHalfAbs", "LdHalfInd"} THEN 2 ELSE 1

Registers == [a : Int, x : Nat]

Test(i, a) == IF i.code = "JeqK" THEN a = i.k ELSE a % (i.k + 1) # 0
Place(i, r) == IF i.code = "LdHalfInd" THEN r.x + i.k ELSE i.k
Loaded(i, r, f) ==
  IF i.code = "LdxMshByte" THEN [r EXCEPT !.x = f.hl]
                           ELSE [r EXCEPT !.a = At(f, i.code, Place(i, r))]

\* What is returned from pc on with these registers, by what is returned from
\* the instructions after it.
Result(prog, f, returned, pc, r) ==
  LET i == prog[pc] IN
    IF i.code = "RetK" THEN i.k
    ELSE IF i.code \in Jumps THEN returned[pc + 1 + (IF Test(i, r.a) THEN i.jt ELSE i.jf)][r]
    ELSE IF Place(i, r) + Width(i.code) > f.len THEN 0
    ELSE returned[pc + 1][Loaded(i, r, f)]

Returned(prog, f) ==
  LET returned[pc \in 1..Len(prog)] == [r \in Registers |-> Result(prog, f, returned, pc, r)]
  IN  returned

Accepts(prog, f) == Returned(prog, f)[1][[a |-> 0, x |-> 0]] # 0

-----------------------------------------------------------------------------
(* What a rule says.                                                       *)

\* Every fragment but the first is at an offset, and has no ports.
Offset(f) == f.frag % (ipv4FragMask + 1)

ProtoOffset(f) == IF SeenType(f) = TypeIPv4 THEN 23 ELSE 20

HasPort(f, port) ==
  /\ Offset(f) = 0
  /\ \/ port = f.src /\ 16 + f.hl <= f.len
     \/ port = f.dst /\ 18 + f.hl <= f.len

\* A frame has every field of the rule; a port is the source's or the
\* destination's, and a fragment that is not the first has none.
Matches(r, f) ==
  /\ f.len >= 14
  /\ r.etherType \in {0, SeenType(f)} /\ SeenType(f) \in {r.etherType, TypeIPv4, TypeIPv6}
  /\ r.ipProto # 0 =>
       /\ f.len > ProtoOffset(f) /\ ~f.ext
       /\ r.ipProto = f.proto
  /\ r.port # 0 => HasPort(f, r.port)
=============================================================================
