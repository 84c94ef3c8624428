# WirePup in TLA+

A verification project for WirePup (Go, module `wirepup`): TLA+ models of the
parts in which the order of events or the shape of the input matters, TLC runs
that check them on small instances, and TLAPS proofs of the main results for
every instance.

WirePup observes a local network passively (Ethernet, ARP, DHCP, LLDP, IPv6
and the EPICS protocols CA and PVA), correlates what it sees into a table of
devices, reports and diagnoses, and, after a confirmation, gives the host a
temporary IPv4 address that it removes again, or searches actively.

Everything is run inside this directory:

    tlasany M.tla                        parse
    tlc -workers 2 -config X.cfg M       model-check (runs: see below)
    tlapm M.tla                          check the proofs

## 1. Inventory

| Component | Source | State | Operations | What makes it hard |
|---|---|---|---|---|
| Temporary-address session | `internal/networkcfg` | `/run/wirepup/session.json`, the flock beside it, the host's addresses | `AddContext`, `Remove`, `RemoveOwned`, `Load`, `save`, `lock` | several processes, `ip` children, death at any step, an administrator who changes the host, inspections that fail |
| disconnect | `cmd/wirepup/cmd_active.go` | the entries it selected | `runDisconnect` | an unlocked load followed by a locked removal |
| connect, probe | `cmd/wirepup/cmd_active.go`, `internal/active` (ARP) | socket, deadline, what was heard | `runConnect`, `runProbe`, `Probe`, `Sweep`, `Conflicts` | several hosts at once, lost and late frames, a wait that is cut short |
| Terminal input | `cmd/wirepup/prompt.go`, `prompt_unix.go` | requests, their `ready`/`start`/`reply` channels, the line buffer; the terminal's own queue | `promptInput.line`, `read`, `discardPromptInput`, `promptByte` | two goroutines, a user who types at any moment, cancellation |
| Guide | `cmd/wirepup/cmd_guide.go`, `operation.go` | `g.entries`, `g.status`, the context | `runGuide`, `next`, `execute`, `cleanup`; `confirm`, `runConnect` | order of cancellation, join and cleanup |
| Capture sources | `internal/capture` | packet and error channel, counters | `Packets`, `readLoop`, `Stats`, `Close` | bounded channel against cancellation, silent networks |
| Pipeline | `cmd/wirepup/pipeline.go`, `cmd_diagnose.go` | sums, first error, time of the last packet | `runSources`, `runSource`, the sink | a goroutine per source, two locks |
| capture command | `cmd/wirepup/cmd_capture.go` | output file with its buffer | `runCapture` | a failing file with a blocked reader behind it |
| Filter | `cmd/wirepup/filters.go`, `internal/capture/bpf` | the program on the socket | `filterFor`, `Assemble` | relative jumps over blocks, frames that end early, order of rules |
| Decoder, parsers | `internal/decode`, `internal/epics`, `internal/protocol` | TCP ports learned, counters | `Decode` and its dispatch | one protocol taken for another, partial payloads, ports learned from packets |
| Device table | `internal/device/device.go` | devices, addresses, claims, DHCP transactions, neighbors | `Apply` and its handlers | order between sources, bounded lists, strength of evidence |
| EPICS correlation | `internal/device/epics.go` | searches (list and map), servers | `applyCA`, `applyPVA` | repeated searches, copies on two sources, dropped records, servers that move |
| Diagnosis | `internal/diagnose` | none (reads the table) | rules | conclusions from incomplete, unordered evidence |
| EPICS find | `cmd/wirepup/cmd_epics.go`, `internal/active/ca.go`, `pva.go` | answers, first error | `runEpicsFind`, `CASearch`, `PVASearch` | partial failure, deadlines, interrupts |
| TUI | `internal/tui`, `cmd_tui.go` | screen model, counters | one select loop beside the capturing goroutine and the reader of keys | key, packet and ticker order; a document read in parts |
| Output, OUI, interfaces, flags, build | rest | none | formatting, lookups | nothing ordered |

Interactions: a capture source hands packets over a channel to `runSource`,
which decodes them and calls the sink; the sink locks the time of the report
and then the device table; diagnosis reads the table when every source is
done, the terminal interface while they run. The guide starts the same
commands as operations of its own, shares one terminal reader with their
confirmations, and calls networkcfg for the addresses. `connect` probes for
the address before networkcfg adds it. All wirepup processes of a host meet
only in the session file, its lock, and the kernel's list of addresses; those
of several hosts meet on the segment.

## 2. Modules

| Module | Models |
|---|---|
| `SessionLedger` | what the session file promises: an entry is recorded, applied, vanishes and is forgotten, one at a time and in that order |
| `SessionManager` | networkcfg with its processes, `ip` children, the kernel and the administrator; `disconnect` |
| `PromptInput` | the terminal, the user, the reader goroutine and `line()` |
| `Guide` | the guide's main goroutine over `PromptInput` |
| `Delivery` | what the pipeline promises: per source, once and in order |
| `Source` | the receive loops of a socket and of a capture file |
| `Pipeline` | `runSources`, `runSource` and the sink over `Source` |
| `CaptureFile` | `runCapture` and the file writer over `Source` |
| `Bpf` | rules, blocks, the assembler, and the kernel's machine that runs the program |
| `Decoder` | the choice of rules, the decoder of a source and the display filter, over `Bpf` |
| `DeviceTable` | the handlers of `device.go` |
| `Diagnosis` | the rules on DHCP, Link-Local addresses, subnets and one target, over `DeviceTable` |
| `Discovery` | the Channel Access part of `epics.go` fed in the order of `Delivery`, and the rules that read it |
| `EpicsFind` | the PVAccess part of `epics.go` with its rules, and the active search by both protocols |
| `AddressClaim` | hosts that run `connect` or `probe` for one address on one segment |
| `Tui` | the terminal interface |
| `MCSessionManager`, `MCGuide`, `MCDiscovery`, `MCDeviceTable`, `MCEpicsFind`, `MCDecoder` | constants for TLC |
| `SessionManagerProof`, `GuideProof`, `PipelineProof`, `DiscoveryProof`, `AddressClaimProof`, `TuiProof`, `EpicsFindProof`, `DeviceTableProof` | theorems; `PipelineProof` is about `Pipeline`, `CaptureFile` and `Decoder`, `DeviceTableProof` about `DeviceTable` and `Diagnosis` |

### SessionManager

One step of a process is the code between two points where something else can
interfere: taking the flock, the load, the save (a temporary file renamed:
one step), the start and the end of the `ip` child, each netlink dump. `pc`
names the position (`add_*` for AddContext, `rem_*` for Remove, `own_*` for
RemoveOwned), `ent` the entry the call is about, `snap` the session as the
call loaded it: a save writes `snap` back, changed, and not the file's current
contents, so that a lost update would show. The file is a set of entries whose
order is that of `stamp` (`AddedAt`). `addrs` is the kernel's list, where an
address remembers in `by` which entry applied it; the code never reads `by`.
Deleting a primary address removes the secondaries of its subnet, as the
kernel does. The administrator adds, deletes, renames, unplugs and plugs.

Environment constants: `Orphans` lets an `ip` child outlive a killed wirepup;
`InspectFaults` lets inspections fail; `Races` lets the administrator, the
hardware and orphaned children act between what a call read and the `ip` it
starts for that reason. `RemoveOwned` cannot be safe against the last one, and
the repository says so itself (docs/vm-test-results.md:151-152), so
`session_owned` excludes it.

### PromptInput and Guide

A key carries the number of the question during which it was typed and
whether that question was on the screen; the code never looks at either, the
properties do. The terminal is canonical: lines are handed over when finished
and lose what exceeds `LineCapacity`. The reader's `select` with a default is
`TakeRequest` against an idle poll; flushing is three steps (consume complete
lines, poll, `TCIFLUSH`). `Guide` keeps of each menu only what an answer leads
to: quit, an operation, a connect, another question.

### Source, Pipeline, CaptureFile

Of a packet the model keeps its time stamp. `Read` is `recvmsg` (or reading
one record) together with the construction of the packet, which copies the
data out of the reused buffer; a mutant leaves the copy out.
`Send`/`SendGivesUp` are the two arms of the select. `CloseErrc` and
`CloseOut` are the two deferred closes, in the order in which they run. The
sink is two steps, `Stamp` under the one lock and `Apply` under the other;
between them other sources may run. Decoding has no state across packets that
these properties see and is part of `Apply`; what it does is `Decoder`. The
writer behind capture is buffered and its error sticky, as `bufio.Writer`'s is.
The names of `CaptureFile` and `Decoder` carry a prefix where they would meet
those of `Pipeline`, because one proof module extends all three.

### Bpf and Decoder

`Assemble` is the code's two passes: rules become blocks of instructions with
symbolic targets, then every jump becomes a distance. The machine of the
kernel runs the result over a frame whose outer VLAN tag it has taken off; a
load past the end drops the frame. The machine is a function of the place in the
program, and of the registers, to what is returned from there on (`Returned`).
A frame is the record of what its parsers
would find: type, tags, length, header length, fragment, protocol, ports and
the messages of the payload, each whole or cut. `filterFor` collects rules a
name at a time; then packets are decoded one by one, and the only thing that
one packet leaves for the next are `caTCP` and `pvaTCP`. `MCDecoder` enumerates
frames of each protocol: whole, broken, at their limits, on the ports of
another protocol.

### DeviceTable and Diagnosis

An action applies one packet as a whole: its observations are the frame and
what the payload carries, in the order of `Apply`. `table` has a function for
each map of the code; a device's names, protocols and tags are `traits`, and
the events returned gather in `told`. Sources are fed in the order of their
own times, which is what `Delivery` gives, and nothing orders them against
each other. `heard` is the history that the properties compare the table
with. A diagnosis has no state: `Diagnosis` defines each rule as the set of
findings it makes of a table and an end time, over every state the table
reaches. IPv4 addresses are numbers, so that prefixes and hosts are
arithmetic; the texts of findings are left out.

### Discovery and EpicsFind

`Ask`, `Reply` and `SendOther` are the network of `Discovery`: a client
repeats a search, a server answers each copy once, any frame may pass any
interface. The source frames wait in `seen`; a step of the table takes the
next one of a source with `Delivery`'s `Deliver`, so this module builds on
what `PipelineProof` shows of the pipeline. One action per kind of packet is
the whole of `applyCA`, which runs under the lock of the table; `FirstSearch`
includes the dropping of the oldest record. `searches` is the heap of all
records made; `order` and `byKey` point into it as `sorder` and the map do, so
that a record off the one and on the other would show. Of the devices the
model keeps what `sourceRules` looks at: which sources a timeline entry refers
to, which depends on how well the address of a host was known (`rank`).

`EpicsFind` has two halves that the code runs one after the other and that
share nothing but the exit status: the window applies frames of PVA servers
(known by a GUID that is new at every start, and which may move) to the table
of `applyPVA`; the search sends one datagram for each destination and collects
answers until the deadline, first for CA and then for PVA, and may fail or be
interrupted at each step. Datagrams and answers may be lost or late.

### AddressClaim

A frame is its kind (probe, request, claim, reply), its ends and the number of
its window. It is under way until its reader reads it, and may be lost
`MaxLost` times; nothing orders frames. `Arrive` is what the reader of a host
does with a frame, and what its kernel answers if it has the address.
`WindowEnds` is `listen` returning nil, which it does at its deadline and when
the context ends: the caller cannot tell, and neither can the model. The
history variables say what the properties need to name as reasons: a wait that
ended with frames of the exchange still under way (`late`) or was cut short
(`cut`), a last probe that nobody was listening for any more (`blind`).

### Tui

Three goroutines: the one that drains the source (a packet to the table, then
its events to the model, one at a time, each under a lock), the reader of
keys with its channel, the main loop. The loop is stepped where the code takes
a lock or selects; the two parts of a document (devices and conflicts) are
read at different moments, and each part is known by the number of packets the
table had then. A view has as many lines as it would have; what they say is
left out.

## 3. Runs

Every `expect: pass` run ends without an error; the `violation` run shows a
disagreement between a statement of the repository and the code (section 5).
Properties that belong together are named parts of one conjunction, so that
`ClaimsExact`, for one, is `StrongestClaimKept`, `ConflictsExact` and
`WeakBounded`; the modules say of each part what it means and why.

| Run | Shows | Instance | States |
|---|---|---|---|
| `session_ledger` | the record precedes the address; one entry per address; the file and the kernel follow `SessionLedger` (a refinement) | 2 processes, 3 addresses (two of one subnet, two prefix lengths of one IP) on one interface, 2 entries, 1 administrator's move, kills | 1.6 M |
| `session_owned` | RemoveOwned deletes exactly its own address and its success means it is gone; calls return, the lock is given back | 2 processes, 2 addresses of one subnet, 2 interfaces, 1 move of any kind, failing inspections, children that outlive their parent | 268 k |
| `guide` | answers belong to their question and are whole; active steps are confirmed; zero means clean; the cleanup runs alone; an interrupted guide ends, its reader ends, no question starves | 3 questions, 5 keys, answers of at most 3 characters on a line of 4 | 490 k |
| `pipeline` | order (a refinement of `Delivery`), completeness, sums, time of the report; an error is kept; the end comes | a socket (room 1, 2 arrivals) and a file, channels of 1, 2 time stamps, failing reads, cancellation | 111 k |
| `capture_file` | status zero means stored; a failing file ends the capture | 4 arrivals, a channel of 2, a file that may refuse anything | 30 k |
| `decoder` | the program accepts what its rules say, but for runts, and hides from the decoder only what is listed; ports are learned only from announcements, what belongs to them is decoded, and "confirmed" is said only of payloads parsed whole | every pair of protocol names, some two hundred frames, sequences of 3 packets | 23 k |
| `devices` | the strongest claim is kept, conflicts are those heard, weak addresses are bounded, times advance, events tell of every change; DHCP, Link-Local and free-address findings rest on what was captured | 2 sources, 2 devices, 4 addresses, a packet of each kind, 3 packets, clock of 2, 1 weak address | 120 k |
| `discovery` | list and map of the searches agree; no captured answer is missed; names are attributed to the servers that host them; a server that answered is not called beacon-only; what the rules say wrongly has a listed reason | 2 sources, 3 searches (two clients with one id) for a table of 2, 2 servers on one host, 1 other host, 4 frames | 2.7 M |
| `epics_find` | restarts and answers are those captured, "nothing was seen" is right or the table was full; a verdict means that all was sent and waited for; a search ends | 2 GUIDs at 2 endpoints, 3 searches for a table of 2, 4 frames; 2 servers behind 2 destinations | 1.9 M |
| `address_claim` | a resident is never overridden, two hosts share an address only for a listed reason, a sweep is exact but for a listed reason; refusals are founded; an interrupted probe adds nothing; a confirmed command ends | 2 hosts, 3 probes, 2 losses, any order and delay | 486 k |
| `tui` | events are the latest, a document is never out of order, the page is within the content; no key is lost, the end note stays; quit ends it, and in the end the screen shows all that was captured | a ring of 3 events, 2 packets, 2 keys (quit, page), a channel of 1 key | 203 k |
| `orphan_unrecorded` | the finding (section 5) | 2 processes, 1 entry | - |

Bounds, all in the guards: `MaxAdds` entries made, `MaxMoves` administrator's
moves, `MaxAsks` questions, `MaxKeys` keys typed, `MaxArrivals` and `MaxFrames`
frames, `MaxPackets` packets, `MaxNames` names, `MaxTime` of the capture clock,
`MaxLost` frames. They are enough because the interesting cases need few
actors: two processes contend for one lock, two addresses of one subnet are a
primary and its secondary, a third with another prefix length makes a double
entry; five keys are a connect, its confirmation and the line that quits; a
channel of one place is full after one packet, so that every blocking of a
larger one occurs; four frames are three searches, the last of which drops the
first, and a late answer to it; three packets are two claims and the one that
pushes a weak address out, or a discover, an offer and a late copy; two names
make both orders of every pair of blocks; three probes and two losses leave
one exchange. Proofs (section 4) do away with the bounds for what they cover.
The `EpicsFind` window and its search are checked in one run but not in one
behaviour, as the search reads nothing of the window. Deadlock is checked in the guide, the
pipeline and the capture command, where the end of the program is an explicit stuttering step;
the other runs stop at their bounds and say `CHECK_DEADLOCK FALSE`.

Fairness. A process or goroutine that can take a step takes one: the Go
scheduler and the kernel do that. `session_owned` assumes that a child ends
(`ip` does not wait for anything) and that a process which waits for the lock
polls until the lock or the timeout. `guide` assumes that operations end
(their windows and deadlines bound them) and nothing of the user. `pipeline`
and `capture_file` assume weak fairness of each reader and of each worker, and
nothing of the network: a socket may stay silent for ever, its receive times
out (`ReadNothing`). `address_claim` assumes that a confirmed command runs and
that its deadlines come; nothing of arrivals. `epics_find` assumes the same of
the search. `tui` assumes strong fairness of each arm of the select, since Go
chooses among ready arms at random, and weak fairness of the reader of keys
and of the loop's own steps; nothing of the source or the user.

## 4. Proofs

All proofs hold for every value of the constants that the named assumptions of
the modules allow; TLC evaluates these in the runs. They are

- types and distinctness of constants: `ConstantsAssumption` (SessionManager),
  `GuideAssumption`, `SourceAssumption`, `CaptureAssumption`, `FramesTyped`
  and `NamesKnown` (Decoder: `filterFor` refuses other names), `PacketsTyped`, `KeysTyped` and `BoundsTyped` (DeviceTable),
  `AddressesNumbered` and `GraceTyped` (Diagnosis), `ReachTyped` (EpicsFind),
  `TypeableTyped` and `BoundsTyped` (Tui), `SearchBound` (Discovery and
  EpicsFind: a table holds at least one search);
- relations of constants that the code fixes: `PromptAssumption`, an answer is
  shorter than the terminal's line (253 against the 4095 of a canonical
  terminal), and `ProbesOutlastLoss`, fewer frames are lost than probes sent,
  without which nothing could be concluded from silence.

Five theorems have a hypothesis in their statement: `Contained` (two), `~Races`
(two) and `UniqueIds`, explained below.

| Module | Theorem | Argument |
|---|---|---|
| `SessionManagerProof` | `TypeCorrect`, `RecordFirst`, `NoDuplicateEntry` | `FileInv`: whoever is in a critical section holds the lock, and its snapshot relates to the file as its position says; so saves of whole snapshots are changes of single entries |
| | `NeverUnrecorded`, `FollowsLedger` | under `Contained` (children end with their parent, no renames, no failing inspections): `LiveInv` says what a call knows of its address at each position. Each part of `Contained` is needed: the finding of section 5 is the counterexample to the first, and the observations below it to the others |
| | `OwnedDeletesExactly`, `OwnedSuccessIsTrue` | under `~Races` alone, with renames, orphans and failing inspections. `KernelInv`: names and addresses are unique, so the dump that RemoveOwned compares identifies one address. `StampInv`: an add that may still take effect is nobody's confirmed entry. `PlaceInv`: at each position of RemoveOwned, what its last inspection says of interface and address still holds, since only calls under the flock and their children act there |
| `GuideProof` | `GuideTypeCorrect`, `NeverStale`, `ConfirmationFirst`, `ZeroIsClean`, `CleanupAlone` | the invariant follows a key from the terminal through the reader's buffer and the reply channel to the answer |
| | `NeverTruncated` | a line the terminal had cut is full, and what the reader took of it with what still waits is longer than any answer may be, so that it is refused before its newline is seen |
| `PipelineProof` | `PipelineTypeCorrect`, `DeliversInOrder`, `NothingLost`, `LatestStamp` | `Flow`: what a source read is, in order, what was applied, the item in work, the channel and the reader's hand; only a reader that gave up is missing one. `Drains`: a worker past its loop leaves an empty channel and a reader that is done |
| | `ResultsAddUp` | `Sums`: the packets counted are those applied by the workers that have reported, a packet being its source and its place; `Pending` and `Remembered` follow an error from its channel through the worker to the outcome |
| | `CaptureIsSound` | `CaptureInv`: the same flow, with what the writer accepted in the place of what was applied, until the writer refuses; a sticky error keeps status zero away |
| | `DecoderIsTrue` | every observation of EPICS is traced to a message before the first bad one of its payload (`Parsed`, `Sourced`), so a port learned is one announced; and what a clear datagram announced is all parsed, so it is learned |
| | `AssembleExact`, `FilterIsSound` | a program whose jumps only go forward is a function of the place, built from the last instruction to the first (`Machine`); the linked program has the instructions of each block in its place (`LinkedAll`). For each kind of rule one lemma says what its block does from its first instruction: it accepts, drops, or goes on to the next block (`Outcome`). By induction from the last rule the program decides as its rules do (`Verdict`). `FilterInv`: while names are picked, the rules are those of the names, and take at most 26 instructions for each of the nine names that have any, which is within the reach of a jump; and whatever the decoder makes of a frame for a name, a rule of that name matches the frame or the frame is one of those listed (`ShownIsAsked`) |
| `DiscoveryProof` | `DiscoveryTypeCorrect`, `TableConsistent`, `NoAnswerMissed`, `BeaconOnlyIsSound`, `ClaimsAreTrue` | the listed records are the last ones made, so the one dropped from the head of the list is the one whose key leaves the map; a full and a not full list are the two cases. `Heard`: a listed record has every answer of its source after its own packet, kept because a record only gains answers. `Counted`: whoever answered has an answer counted. `Truthful`: responses in flight come from servers that host the name; needs `UniqueIds` (no two programs of one host search with one id), without which TLC refutes it |
| | `RulesAreExplained` | `WireInv`: what was captured was sent, and the same answer occurs twice on one source only if its search was sent twice. `RecordInv`: answers counted at a record are packets applied. `SourceInv`: devices and servers remember sources that delivered something. Two answers counted at one record are then two servers, two copies of the search or two captures of one answer, the reasons listed |
| `AddressClaimProof` | `ConclusionsAreExplained`, `RefusalsAreFounded`, `NothingAddedWhenCut` | an exchange is open while its probe or the answer is under way. `Losses`: while a host probes, the closed exchanges with a resident are no more than the losses, by counting, because an answer that arrives ends the probe. With fewer losses than probes one exchange is open at the end of the last window, so that the wait ended early (`Early`). `Met`: of two that have sent their last probes, one of these is open or a reason is on record. `Askers` keeps sweeps, whose answers look the same, apart |
| `TuiProof` | `ScreenIsSound`, `NothingIsUndone` | `LatestOf`: a ring after each push holds the end of what was pushed. Each part of a document carries a packet count that only grows, and parts are read in their order. Keys taken, in the channel, in the reader's hand and still to come are, joined, the keys typed |
| `EpicsFindProof` | `VerdictIsWhole`, `WindowIsExact` | `WholeSoFar`: while the PVAccess search runs with no error on record, the one by Channel Access was whole, if it was asked for. `FirstSeen`: a server is listed if any frame of it was applied, with the address of the first. `AllKept`: while no more keys came than the table holds, every search and answer is in it; beyond that the answers may be incomplete, and the property says so |
| `DeviceTableProof` | `TableTellsClaims`, `TableKeepsRecords`, `ReportRestsOnPackets` | one predicate over a table and what was heard: which claim each packet made and when, which events it must have told, which packet a transaction or neighbor rests on. Each handler preserves it as an operation on tables; `Apply` is their composition, so one lemma for each observation suffices. The rules are then theorems about one table, with no further induction |

Every safety property that a run checks is a theorem. Three kinds of recursion
had to be reasoned about for `FilterSound`: the joining of blocks by
`FlattenSeq`, the machine, and the rules one after the other. The library's
induction theorems have an operator as a parameter and cannot be used; the
proofs take the least element of a set of counterexamples instead (`SetOfAll`,
from `WFMin`), and show of both recursive functions that they exist before they
use their equations.

The proof of `FilterSound` corrected the model where the run had no frame to
tell: an IPv6 frame ends before its protocol at 20 bytes and not, as IPv4, at
23, and a first fragment may end before its ports. `Matches` and `Runt` say so
now, and the run has such frames.

Only model-checked is what needs fairness, since it speaks of ENABLED:
`CallsReturn`, `NobodyWaits`, `InterfaceAnswers`, `ObservationEnds`,
`CaptureEnds`, `ConfirmedEnds` and `FindEnds`.

## 5. Findings and observations

One statement of the repository and the code disagree in a way that a run
shows:

- `orphan_unrecorded`: an `ip` child that outlives a killed wirepup applies
  an address whose record a disconnect has dropped meanwhile ("never an
  unrecorded address", networkcfg.go:4-7).

Met while modelling, without a run of their own. The models have the
behaviour; where a property would be false because of it, the property names it
as a reason.

Session: `Present` takes a failed inspection (networkcfg.go:392, against
ADR-0010) and a renamed interface for an address that is gone; `Remove` of a
primary address takes unlisted secondaries along (networkcfg.go:297),
which `RemoveOwned` refuses; `Remove` identifies an address by interface name
and prefix only, and deletes one that another program configured under both
after ours had vanished (against docs/safety.md:72). Two more need `Races`,
and are why the theorems on `RemoveOwned` exclude it: the `ip address add` of
a killed wirepup that ends between the dump of `RemoveOwned` and its delete
adds a secondary, which the delete takes along; and an interface that is
unplugged and replaced by one of its name between the lookup of `AddContext`
and its `ip` carries the address at an index which is not the recorded one, so
that after a rename `RemoveOwned` reports success over an address still live.

Terminal: a line typed between the flush and the prompt answers the prompt
(prompt.go:130, against docs/cli-design.md:21); a Ctrl-D between the last poll
and the flush is lost (prompt_unix.go:16-22).

Probing: the sweep lists whoever sends an ARP reply; nothing is announced
after an address was added; the addresses of the host itself are read before
the observation window and not again before the addition; answers that come
after the last window are not heard (`late`, `blind`).

Device table: packets that only show an address count toward the overflow of
weak addresses each time, not once for each address; `LastSeen` of neighbors,
conflicts, servers and searches is assigned and may go backward with two
sources, as may the time of a discover (`SpansOfOneSource`, `NoOfferFounded`);
an address that was probed for stays "probing"; time lines, devices and
transactions are unbounded.

Rules: several servers for one name are concluded from the number of answers,
and one server answers every copy of a repeated search (rules.go:164, against
docs/requirements.md:193); a search captured on two sources counts for one of
them, and discovery is reported absent on the other (rules.go:326, against
docs/requirements.md:191); an address is recommended as "not observed in any
state" although it was dropped at the limit of weak addresses
(diagnose.go:227); `autoIPRules` compares no times.

EPICS: the key of a search leaves the client's port out, so that two programs
of one host share it (epics.go:278; `UniqueIds`); an answer that another source
delivers before its search is not counted (epics.go:334); a "not found" leaves
the port zero, so that the server is listed twice (ca.go:265); a PVA server
that moves keeps its first address (`RestartExact`); a server behind two
destinations of an active search counts twice; an error while sending leaves
the listening of that search out.

Filter and decoder: "accepts a frame that matches any rule" has runts as an
exception, since a load of an earlier rule past the end drops the frame; what
the kernel hides from the decoder is listed in `KernelHidesOnly`; a CA segment
on a port announced for PVA by any host is not decoded as CA; a datagram from
a port of DHCP to one of EPICS is decoded as DHCP only, and one between a port
of CA and that of PVA as CA only (`Clear` leaves these out).

Terminal interface: the error of a live source is not shown, and the counters
overwrite the note that it ended; a file's note stays (`EndNoteKept`).

## 6. Plan

Done, in this order, the most dangerous state first: the session file, the
terminal and the guide, the capture pipeline, Channel Access with its rules;
then the device table with its rules, the terminal interface, the claims of
addresses, PVAccess and the active search, the filter and the decoder.

The proofs followed the same order. Left without one are the properties under
fairness, for the reason of section 4.

## 7. Not modelled

Layouts of packets in bytes and formatting (network parsers but for VLAN tags,
output, vendor table), the opening and configuration of sockets and files, flag
parsing, the commands that only print what the pipeline gives them (observe,
read, discover) or what the kernel says (interfaces), build and installation:
they have no state whose order could go wrong, or are single calls into the
kernel. IPv6 addresses are never configured by WirePup. The platforms without
the Linux implementation (`*_other.go`) only return errors.
