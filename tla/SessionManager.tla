--------------------------- MODULE SessionManager ---------------------------
(***************************************************************************)
(* internal/networkcfg: temporary IPv4 addresses added and removed through *)
(* iproute2 and recorded in /run/wirepup/session.json.                     *)
(*                                                                         *)
(* Several wirepup processes (a guide, a connect, a disconnect) share the  *)
(* session file under an advisory flock.  Every call of AddContext, Remove *)
(* and RemoveOwned is a sequence of steps between which other processes,   *)
(* the `ip' children, the kernel and the host's administrator may act; a   *)
(* process may be killed between any two of them.                          *)
(*                                                                         *)
(* An entry of the file carries AddedAt, taken under the lock: a `stamp'   *)
(* from a clock that only advances.  Entries are appended, so the order of *)
(* the file is the order of the stamps and the file is the SET of its      *)
(* entries.  save writes a temporary file and renames it: one atomic step. *)
(***************************************************************************)
EXTENDS Naturals

CONSTANTS
  Procs, NoProc,        \* wirepup processes
  Names,                \* interface names
  Indexes,              \* interface indexes
  Gone, Unborn,         \* an index whose interface was removed / never existed
  InitLinks,            \* the interfaces at the start: index -> name
  Prefixes, Ip, Subnet, \* address/prefix values, their address, masked subnet
  Labelled,             \* the names short enough to carry the ":wirepup" label
  NoEntry, AnyOne,
  AdminMoves,           \* what the administrator does: see AdminKinds
  Races,                \* may others act between what a call read and its `ip'
  Orphans,              \* does an `ip' child survive the death of its wirepup
  InspectFaults,        \* may reading interfaces or addresses fail
  MaxAdds, MaxMoves     \* bounds of a run: entries made, administrator's moves

AdminKinds == {"add", "del", "rename", "unplug", "plug"}

ASSUME ConstantsAssumption ==
  /\ NoProc \notin Procs
  /\ Indexes \subseteq Nat \ {0}
  /\ Gone \notin Names /\ Unborn \notin Names /\ Gone # Unborn
  /\ InitLinks \in [Indexes -> Names \cup {Gone, Unborn}]
  /\ \A i, j \in Indexes : InitLinks[i] = InitLinks[j] /\ InitLinks[i] \in Names => i = j
  /\ DOMAIN Ip = Prefixes /\ DOMAIN Subnet = Prefixes
  /\ Labelled \subseteq Names
  /\ AdminMoves \subseteq AdminKinds
  /\ Races \in BOOLEAN /\ Orphans \in BOOLEAN /\ InspectFaults \in BOOLEAN
  /\ MaxAdds \in Nat /\ MaxMoves \in Nat

VARIABLES
  pc,       \* where each process stands in its current call
  ent,      \* the entry the call is about
  snap,     \* the session it loaded
  seen,     \* RemoveOwned: the address was in the dump
  ctx,      \* the call's context: "live" or "cancelled"
  child,    \* its `ip' child: "none", "running", "ok", "failed", "killed"
  mine,     \* confirmed entries the process holds (a guide's g.entries)
  list,     \* entries a disconnect still has to go through
  lock,     \* holder of the flock, or NoProc
  session,  \* entries in session.json
  clock,    \* last AddedAt given out
  links,    \* kernel: index -> name
  addrs,    \* kernel: IPv4 addresses
  orphans,  \* `ip' children whose wirepup is dead
  moves     \* administrator's moves so far

call   == <<pc, ent, snap, seen, ctx, child>>
kernel == <<links, addrs>>
vars   == <<call, mine, list, lock, session, clock, kernel, orphans, moves>>

Labels == {"wirepup", "interface"}

Entry == [name: Names, index: Indexes, prefix: Prefixes, label: Labels,
          stamp: 1..MaxAdds]

\* What AddContext is asked for, before the interface is looked up.
Request == [name: Names, index: {0}, prefix: Prefixes, label: Labels, stamp: {0}]

\* A configured address; by is the stamp of the entry that applied it, 0
\* when it was configured by something else.
Address == [index: Indexes, prefix: Prefixes, label: Labels,
            secondary: BOOLEAN, by: 0..MaxAdds]

Orphan == [kind: {"add", "del"}, entry: Entry]

LockSteps  == {"add_lock", "rem_lock", "own_lock"}
AddSteps   == {"add_check", "add_save", "add_run", "add_wait", "add_undo"}
RemSteps   == {"rem_check", "rem_present", "rem_run", "rem_wait", "rem_save"}
OwnSteps   == {"own_check", "own_link", "own_dump", "own_relink", "own_run",
               "own_wait", "own_save"}
Critical   == AddSteps \cup RemSteps \cup OwnSteps
WaitSteps  == {"add_wait", "rem_wait", "own_wait"}
PCs        == {"idle"} \cup LockSteps \cup Critical

\* What the call read of the interfaces and addresses justifies an `ip' that
\* has not finished.
Acting(p) == pc[p] \in {"add_save", "add_run", "add_wait", "rem_run", "rem_wait",
                        "own_relink", "own_run", "own_wait"}

\* The flock keeps the calls of other processes away, and nothing else.
Undisturbed == Races \/ \A p \in Procs : ~Acting(p)

-----------------------------------------------------------------------------
(* Operators of the package.                                               *)

\* Label: the address label, or the interface's own name when it would not fit.
Label(n) == IF n \in Labelled THEN "wirepup" ELSE "interface"

Named(n) == {i \in Indexes : links[i] = n}

\* Remove's scan keeps the last entry of the file that matches.
Matches(s, e) == {x \in s : x.name = e.name /\ x.prefix = e.prefix}
Latest(S) == CHOOSE x \in S : \A y \in S : y.stamp <= x.stamp

\* Present: by interface name, address and prefix length only.
Present(e) == \E a \in addrs : links[a.index] = e.name /\ a.prefix = e.prefix

\* RemoveOwned's scan: an entry for this address that is not exactly e.
Replaced(s, e) ==
  \E x \in s \ {e} : /\ x.name = e.name \/ x.index = e.index
                     /\ Ip[x.prefix] = Ip[e.prefix]

\* Mutant: the name alone is looked up.
LinkNeverDiffers(e) == FALSE

\* ownedInterfacePresent: name and index must belong together.
LinkDiffers(e) ==
  \E i \in Indexes : links[i] \in Names /\ ((links[i] = e.name) # (i = e.index))
LinkLive(e) == links[e.index] = e.name

\* The addresses of the dump that ownedAddressPresent compares with e.
Same(e)   == {a \in addrs : a.index = e.index /\ Ip[a.prefix] = Ip[e.prefix]}
Others(e) == {a \in addrs : a.index = e.index /\ Ip[a.prefix] # Ip[e.prefix]}
Exact(a, e) == a.index = e.index /\ a.prefix = e.prefix /\ a.label = e.label

\* Mutant: a delete is always thought safe.
NeverUnsafe(e) == FALSE

\* Deleting e's address would take other addresses of its subnet with it.
Unsafe(e) ==
  \E a \in Same(e) : /\ ~a.secondary
                     /\ \E b \in Others(e) : Subnet[b.prefix] = Subnet[a.prefix]

-----------------------------------------------------------------------------
(* The kernel's side of `ip address add' and `ip address del'.             *)

Free(i, x) == \A a \in addrs : ~(a.index = i /\ a.prefix = x)

InSubnet(A, i, x) == {a \in A : a.index = i /\ Subnet[a.prefix] = Subnet[x]}

NewAddress(i, x, l, by) ==
  [index |-> i, prefix |-> x, label |-> l, by |-> by,
   secondary |-> \E a \in InSubnet(addrs, i, x) : ~a.secondary]

\* Removing a primary takes its secondaries along, or promotes one of them
\* (the promote_secondaries setting of the host).
Without(a) ==
  LET rest == addrs \ {a}
      deps == InSubnet(rest, a.index, a.prefix)
  IN IF a.secondary \/ deps = {} THEN {rest}
     ELSE {rest \ deps} \cup
          {(rest \ {b}) \cup {[b EXCEPT !.secondary = FALSE]} : b \in deps}

IpAdd(e) ==
  \E i \in Named(e.name) :
     /\ Free(i, e.prefix)
     /\ addrs' = addrs \cup {NewAddress(i, e.prefix, e.label, e.stamp)}

IpDel(e) ==
  \E a \in addrs : /\ links[a.index] = e.name
                   /\ a.prefix = e.prefix
                   /\ addrs' \in Without(a)

-----------------------------------------------------------------------------
Init ==
  /\ pc = [p \in Procs |-> "idle"]
  /\ ent = [p \in Procs |-> NoEntry]
  /\ snap = [p \in Procs |-> {}]
  /\ seen = [p \in Procs |-> FALSE]
  /\ ctx = [p \in Procs |-> "live"]
  /\ child = [p \in Procs |-> "none"]
  /\ mine = [p \in Procs |-> {}]
  /\ list = [p \in Procs |-> {}]
  /\ lock = NoProc
  /\ session = {}
  /\ clock = 0
  /\ links = InitLinks
  /\ addrs = {}
  /\ orphans = {}
  /\ moves = 0

Goto(p, step) == pc' = [pc EXCEPT ![p] = step]

\* The call returns; the deferred Close releases the flock.
Return(p) ==
  /\ Goto(p, "idle")
  /\ ent' = [ent EXCEPT ![p] = NoEntry]
  /\ snap' = [snap EXCEPT ![p] = {}]
  /\ seen' = [seen EXCEPT ![p] = FALSE]
  /\ ctx' = [ctx EXCEPT ![p] = "live"]
  /\ child' = [child EXCEPT ![p] = "none"]
  /\ lock' = IF lock = p THEN NoProc ELSE lock

\* An error return that changes nothing on disk or in the kernel.
Refuse(p) ==
  /\ Return(p)
  /\ UNCHANGED <<mine, list, session, clock, kernel, orphans, moves>>

\* A step of a call that stays inside the process.
Advance(p, step) ==
  /\ Goto(p, step)
  /\ UNCHANGED <<ent, ctx, mine, list, lock, session, clock, kernel, orphans, moves>>

Start(p, e, step) ==
  /\ pc[p] = "idle"
  /\ Goto(p, step)
  /\ ent' = [ent EXCEPT ![p] = e]
  /\ UNCHANGED <<snap, seen, ctx, child, mine, lock, session, clock, kernel, orphans, moves>>

\* Mutant: a shared instead of an exclusive flock.
AcquireShared(p) ==
  /\ pc[p] \in LockSteps
  /\ lock' = p
  /\ Goto(p, CASE pc[p] = "add_lock" -> "add_check"
               [] pc[p] = "rem_lock" -> "rem_check"
               [] pc[p] = "own_lock" -> "own_check")
  /\ UNCHANGED <<ent, snap, seen, ctx, child, mine, list, session, clock, kernel, orphans, moves>>

\* flock with LOCK_NB, polled until it is granted ...
Acquire(p) ==
  /\ pc[p] \in LockSteps
  /\ lock = NoProc
  /\ lock' = p
  /\ Goto(p, CASE pc[p] = "add_lock" -> "add_check"
               [] pc[p] = "rem_lock" -> "rem_check"
               [] pc[p] = "own_lock" -> "own_check")
  /\ UNCHANGED <<ent, snap, seen, ctx, child, mine, list, session, clock, kernel, orphans, moves>>

\* Mutant: only a cancellation ends the wait.
LockWaits(p) == pc[p] \in LockSteps /\ ctx[p] = "cancelled" /\ Refuse(p)

\* ... or until lockTimeout, a cancelled context or an unusable lock file.
LockFails(p) == pc[p] \in LockSteps /\ Refuse(p)

\* The caller's context ends: a signal, or the guide's cleanup deadline.
\* Remove runs on a background context.
Cancel(p) ==
  /\ pc[p] \in AddSteps \cup OwnSteps \cup {"add_lock", "own_lock"}
  /\ ctx[p] = "live"
  /\ ctx' = [ctx EXCEPT ![p] = "cancelled"]
  /\ UNCHANGED <<pc, ent, snap, seen, child, mine, list, lock, session, clock, kernel, orphans, moves>>

\* runIP, up to the start of the child.
StartIP(p, step) ==
  /\ ctx[p] = "live"
  /\ child' = [child EXCEPT ![p] = "running"]
  /\ Advance(p, step)
  /\ UNCHANGED <<snap, seen>>

-----------------------------------------------------------------------------
(* AddContext                                                              *)

StartAdd(p, n, x) ==
  /\ list[p] = {}
  /\ Start(p, [name |-> n, index |-> 0, prefix |-> x, label |-> Label(n), stamp |-> 0], "add_lock")
  /\ UNCHANGED list

\* Mutant: 192.0.2.1/24 and 192.0.2.1/16 are told apart.
AlreadyRecordedExactly(e) == \E x \in session : x.name = e.name /\ x.prefix = e.prefix
AlreadyRecorded(e) == \E x \in session : x.name = e.name /\ Ip[x.prefix] = Ip[e.prefix]

\* The interface is unknown, the file is unreadable or of another version,
\* the address is recorded already, or the context ended.
AddRefused(p) == pc[p] = "add_check" /\ Refuse(p)

AddCheck(p) ==
  /\ pc[p] = "add_check"
  /\ ctx[p] = "live"
  /\ clock < MaxAdds     \* bound
  /\ ~AlreadyRecorded(ent[p])
  /\ \E i \in Named(ent[p].name) :
        ent' = [ent EXCEPT ![p].index = i, ![p].stamp = clock + 1]
  /\ clock' = clock + 1
  /\ snap' = [snap EXCEPT ![p] = session]
  /\ Goto(p, "add_save")
  /\ UNCHANGED <<seen, ctx, child, mine, list, lock, session, kernel, orphans, moves>>

\* Mutant: ip runs before the save.
AddSaveLater(p) ==
  /\ pc[p] = "add_save"
  /\ Goto(p, "add_run")
  /\ UNCHANGED <<ent, snap, seen, ctx, child, mine, list, lock, session, clock, kernel, orphans, moves>>

\* The record is saved before ip runs; a failed save ends the call.
AddSave(p) ==
  /\ pc[p] = "add_save"
  /\ session' = snap[p] \cup {ent[p]}
  /\ Goto(p, "add_run")
  /\ UNCHANGED <<ent, snap, seen, ctx, child, mine, list, lock, clock, kernel, orphans, moves>>

AddSaveFails(p) == pc[p] = "add_save" /\ Refuse(p)

AddRun(p) == pc[p] = "add_run" /\ StartIP(p, "add_wait")

\* Mutant: a killed ip is rolled back as a failed one.
AddFailedAlways(p) ==
  /\ \/ pc[p] = "add_run"
     \/ pc[p] = "add_wait" /\ child[p] \in {"failed", "killed"}
  /\ Advance(p, "add_undo")
  /\ UNCHANGED <<snap, seen, child>>

\* ip was not started, or it exited with an error and nothing was cancelled.
AddFailed(p) ==
  /\ \/ pc[p] = "add_run"
     \/ pc[p] = "add_wait" /\ child[p] = "failed" /\ ctx[p] = "live"
  /\ Advance(p, "add_undo")
  /\ UNCHANGED <<snap, seen, child>>

\* ip was killed, or it failed after a cancellation: the record stays.
AddUnknown(p) ==
  /\ pc[p] = "add_wait"
  /\ child[p] = "killed" \/ (child[p] = "failed" /\ ctx[p] = "cancelled")
  /\ Refuse(p)

AddDone(p) ==
  /\ pc[p] = "add_wait"
  /\ child[p] = "ok"
  /\ mine' = [mine EXCEPT ![p] = @ \cup {ent[p]}]
  /\ Return(p)
  /\ UNCHANGED <<list, session, clock, kernel, orphans, moves>>

\* Rollback of this record only.
AddUndo(p) ==
  /\ pc[p] = "add_undo"
  /\ session' = snap[p]
  /\ Return(p)
  /\ UNCHANGED <<mine, list, clock, kernel, orphans, moves>>

AddUndoFails(p) == pc[p] = "add_undo" /\ Refuse(p)

-----------------------------------------------------------------------------
(* disconnect: an unlocked Load, then Remove for every entry it selected.  *)

Selected(n, ip) == {e \in session : /\ n = AnyOne \/ e.name = n
                                    /\ ip = AnyOne \/ Ip[e.prefix] = ip}

DisconnectLoad(p, n, ip) ==
  /\ pc[p] = "idle"
  /\ list[p] = {}
  /\ Selected(n, ip) # {}
  /\ list' = [list EXCEPT ![p] = Selected(n, ip)]
  /\ UNCHANGED <<call, mine, lock, session, clock, kernel, orphans, moves>>

\* In the order of the file.
StartRemove(p) ==
  \E e \in list[p] :
    /\ \A f \in list[p] : e.stamp <= f.stamp
    /\ Start(p, e, "rem_lock")
    /\ list' = [list EXCEPT ![p] = @ \ {e}]

\* The file is unreadable or of another version, or the entry is not in it.
RemRefused(p) == pc[p] = "rem_check" /\ Refuse(p)

RemCheck(p) ==
  /\ pc[p] = "rem_check"
  /\ Matches(session, ent[p]) # {}
  /\ snap' = [snap EXCEPT ![p] = session]
  /\ Advance(p, "rem_present")
  /\ UNCHANGED <<seen, child>>

\* Every error of the inspection counts as absence.
RemPresent(p) ==
  /\ pc[p] = "rem_present"
  /\ \/ Present(ent[p]) /\ Advance(p, "rem_run")
     \/ (~Present(ent[p]) \/ InspectFaults) /\ Advance(p, "rem_save")
  /\ UNCHANGED <<snap, seen, child>>

RemRun(p) == pc[p] = "rem_run" /\ StartIP(p, "rem_wait")

\* No ip, ip not started, or ip failed or was killed: the record stays.
RemFails(p) ==
  /\ \/ pc[p] = "rem_run"
     \/ pc[p] = "rem_wait" /\ child[p] \in {"failed", "killed"}
  /\ Refuse(p)

RemDone(p) ==
  /\ pc[p] = "rem_wait"
  /\ child[p] = "ok"
  /\ Advance(p, "rem_save")
  /\ UNCHANGED <<snap, seen, child>>

Dropped(p) == Latest(Matches(snap[p], ent[p]))

RemSave(p) ==
  /\ pc[p] = "rem_save"
  /\ session' = snap[p] \ {Dropped(p)}
  /\ Return(p)
  /\ UNCHANGED <<mine, list, clock, kernel, orphans, moves>>

RemSaveFails(p) == pc[p] = "rem_save" /\ Refuse(p)

-----------------------------------------------------------------------------
(* RemoveOwned                                                             *)

StartRemoveOwned(p, e) ==
  /\ list[p] = {}
  /\ Start(p, e, "own_lock")
  /\ UNCHANGED list

\* An unreadable file, a replaced entry, a cancelled context, a failed or
\* timed-out dump: the call ends and the record stays.
OwnRefused(p) == pc[p] \in {"own_check", "own_link", "own_dump", "own_relink"} /\ Refuse(p)

OwnCheck(p) ==
  /\ pc[p] = "own_check"
  /\ ~Replaced(session, ent[p])
  /\ snap' = [snap EXCEPT ![p] = session]
  /\ Advance(p, "own_link")
  /\ UNCHANGED <<seen, child>>

\* What the inspection's answer leads to.  A live address without its record
\* is an error (OwnRefused); neither of them is a success with nothing to do.
OwnAbsent(p) ==
  \/ ent[p] \in snap[p] /\ Advance(p, "own_save") /\ UNCHANGED <<snap, seen, child>>
  \/ /\ ent[p] \notin snap[p]
     /\ mine' = [mine EXCEPT ![p] = @ \ {ent[p]}]
     /\ Return(p)
     /\ UNCHANGED <<list, session, clock, kernel, orphans, moves>>

OwnPresent(p) == ent[p] \in snap[p] /\ Advance(p, "own_run") /\ UNCHANGED <<snap, seen, child>>

OwnLink(p) ==
  /\ pc[p] = "own_link"
  /\ ~LinkDiffers(ent[p])
  /\ \/ LinkLive(ent[p]) /\ Advance(p, "own_dump") /\ UNCHANGED <<snap, seen, child>>
     \/ ~LinkLive(ent[p]) /\ ctx[p] = "live" /\ OwnAbsent(p)

OwnDump(p) ==
  /\ pc[p] = "own_dump"
  /\ \A a \in Same(ent[p]) : Exact(a, ent[p])
  /\ ~Unsafe(ent[p])
  /\ seen' = [seen EXCEPT ![p] = Same(ent[p]) # {}]
  /\ Advance(p, "own_relink")
  /\ UNCHANGED <<snap, child>>

OwnRelink(p) ==
  /\ pc[p] = "own_relink"
  /\ ~LinkDiffers(ent[p])
  /\ ctx[p] = "live"
  /\ IF seen[p] /\ LinkLive(ent[p]) THEN OwnPresent(p) ELSE OwnAbsent(p)

OwnRun(p) == pc[p] = "own_run" /\ StartIP(p, "own_wait")

OwnFails(p) ==
  /\ \/ pc[p] = "own_run"
     \/ pc[p] = "own_wait" /\ child[p] \in {"failed", "killed"}
  /\ Refuse(p)

OwnDone(p) ==
  /\ pc[p] = "own_wait"
  /\ child[p] = "ok"
  /\ Advance(p, "own_save")
  /\ UNCHANGED <<snap, seen, child>>

OwnSave(p) ==
  /\ pc[p] = "own_save"
  /\ session' = snap[p] \ {ent[p]}
  /\ mine' = [mine EXCEPT ![p] = @ \ {ent[p]}]
  /\ Return(p)
  /\ UNCHANGED <<list, clock, kernel, orphans, moves>>

OwnSaveFails(p) == pc[p] = "own_save" /\ Refuse(p)

-----------------------------------------------------------------------------
(* The `ip' child of a waiting call.                                       *)

ChildEnds(p, result) ==
  /\ child' = [child EXCEPT ![p] = result]
  /\ UNCHANGED <<pc, ent, snap, seen, ctx, mine, list, lock, session, clock, links, orphans, moves>>

\* ip changes the address and exits 0 ...
ChildOK(p) ==
  /\ child[p] = "running"
  /\ IF pc[p] = "add_wait" THEN IpAdd(ent[p]) ELSE IpDel(ent[p])
  /\ ChildEnds(p, "ok")

\* ... or exits with an error and changes nothing ...
ChildFails(p) ==
  /\ child[p] = "running"
  /\ ChildEnds(p, "failed")
  /\ UNCHANGED addrs

\* ... or is killed, by the cancellation or a signal of its own, before or
\* after it changed the address.
ChildKilled(p) ==
  /\ child[p] \in {"running", "ok"}
  /\ pc[p] \in WaitSteps
  /\ ChildEnds(p, "killed")
  /\ UNCHANGED addrs

-----------------------------------------------------------------------------
(* A process ends, killed at any point of a call or normally between two.  *)
(* The kernel releases its flock.  Its child may live on.                  *)
Exit(p) ==
  /\ pc[p] # "idle" \/ mine[p] # {} \/ list[p] # {}
  /\ Return(p)
  /\ mine' = [mine EXCEPT ![p] = {}]
  /\ list' = [list EXCEPT ![p] = {}]
  /\ orphans' = IF Orphans /\ child[p] = "running"
                THEN orphans \cup {[kind |-> IF pc[p] = "add_wait" THEN "add" ELSE "del",
                                    entry |-> ent[p]]}
                ELSE orphans
  /\ UNCHANGED <<session, clock, kernel, moves>>

OrphanEnds(o) ==
  /\ Undisturbed
  /\ orphans' = orphans \ {o}
  /\ \/ o.kind = "add" /\ IpAdd(o.entry)
     \/ o.kind = "del" /\ IpDel(o.entry)
     \/ UNCHANGED addrs
  /\ UNCHANGED <<call, mine, list, lock, session, clock, links, moves>>

-----------------------------------------------------------------------------
(* The administrator, another program, or the hardware.                    *)
AdminActs(kind) ==
  /\ kind \in AdminMoves
  /\ moves < MaxMoves    \* bound
  /\ moves' = moves + 1
  /\ Undisturbed
  /\ UNCHANGED <<call, mine, list, lock, session, clock, orphans>>

AdminAdd(i, x, l) ==
  /\ AdminActs("add")
  /\ links[i] \in Names
  /\ Free(i, x)
  /\ addrs' = addrs \cup {NewAddress(i, x, l, 0)}
  /\ UNCHANGED links

AdminDel(a) ==
  /\ AdminActs("del")
  /\ addrs' \in Without(a)
  /\ UNCHANGED links

AdminRename(i, n) ==
  /\ AdminActs("rename")
  /\ links[i] \in Names
  /\ Named(n) = {}
  /\ links' = [links EXCEPT ![i] = n]
  /\ UNCHANGED addrs

Unplug(i) ==
  /\ AdminActs("unplug")
  /\ links[i] \in Names
  /\ links' = [links EXCEPT ![i] = Gone]
  /\ addrs' = {a \in addrs : a.index # i}

\* A new interface takes a free name; an index is never given out twice.
Plug(i, n) ==
  /\ AdminActs("plug")
  /\ links[i] = Unborn
  /\ Named(n) = {}
  /\ links' = [links EXCEPT ![i] = n]
  /\ UNCHANGED addrs

-----------------------------------------------------------------------------
AddStep(p) == \/ AddRefused(p) \/ AddCheck(p) \/ AddSave(p) \/ AddSaveFails(p)
              \/ AddRun(p) \/ AddFailed(p) \/ AddUnknown(p) \/ AddDone(p)
              \/ AddUndo(p) \/ AddUndoFails(p)

RemStep(p) == \/ RemRefused(p) \/ RemCheck(p) \/ RemPresent(p) \/ RemRun(p)
              \/ RemFails(p) \/ RemDone(p) \/ RemSave(p) \/ RemSaveFails(p)

OwnStep(p) == \/ OwnRefused(p) \/ OwnCheck(p) \/ OwnLink(p) \/ OwnDump(p)
              \/ OwnRelink(p) \/ OwnRun(p) \/ OwnFails(p) \/ OwnDone(p)
              \/ OwnSave(p) \/ OwnSaveFails(p)

CallStep(p)  == Acquire(p) \/ LockFails(p) \/ AddStep(p) \/ RemStep(p) \/ OwnStep(p)
ChildStep(p) == ChildOK(p) \/ ChildFails(p) \/ ChildKilled(p)

Begin(p) == \/ \E n \in Names, x \in Prefixes : StartAdd(p, n, x)
            \/ \E n \in Names \cup {AnyOne}, ip \in {Ip[x] : x \in Prefixes} \cup {AnyOne} :
                  DisconnectLoad(p, n, ip)
            \/ StartRemove(p)
            \/ \E e \in mine[p] : StartRemoveOwned(p, e)

Admin == \/ \E i \in Indexes, x \in Prefixes, l \in Labels : AdminAdd(i, x, l)
         \/ \E a \in addrs : AdminDel(a)
         \/ \E i \in Indexes, n \in Names : AdminRename(i, n)
         \/ \E i \in Indexes : Unplug(i)
         \/ \E i \in Indexes, n \in Names : Plug(i, n)

Next == \/ \E p \in Procs : Begin(p) \/ CallStep(p) \/ ChildStep(p) \/ Cancel(p) \/ Exit(p)
        \/ \E o \in orphans : OrphanEnds(o)
        \/ Admin

Spec == Init /\ [][Next]_vars

\* A process that is not dead runs on: its poll of the lock ends in a grant
\* or in the timeout, its steps are taken, and its child ends.
FairSpec == Spec /\ \A p \in Procs : WF_vars(CallStep(p)) /\ WF_vars(ChildStep(p))

-----------------------------------------------------------------------------
(* Properties                                                              *)

TypeOK ==
  /\ pc \in [Procs -> PCs]
  /\ ent \in [Procs -> Entry \cup Request \cup {NoEntry}]
  /\ snap \in [Procs -> SUBSET Entry]
  /\ seen \in [Procs -> BOOLEAN]
  /\ ctx \in [Procs -> {"live", "cancelled"}]
  /\ child \in [Procs -> {"none", "running", "ok", "failed", "killed"}]
  /\ mine \in [Procs -> SUBSET Entry]
  /\ list \in [Procs -> SUBSET Entry]
  /\ lock \in Procs \cup {NoProc}
  /\ session \subseteq Entry
  /\ clock \in 0..MaxAdds
  /\ links \in [Indexes -> Names \cup {Gone, Unborn}]
  /\ addrs \subseteq Address
  /\ orphans \subseteq Orphan
  /\ moves \in Nat

\* The entry whose `ip address add' may still take effect is in the file: the
\* record is written before the address is applied (networkcfg.go, package
\* comment), whatever other processes save meanwhile.
RecordedBeforeApplied ==
  \A p \in Procs : child[p] \in {"running", "ok", "killed"} /\ pc[p] = "add_wait"
                      => ent[p] \in session

\* Every configured address that wirepup applied is in the session file, so
\* that disconnect can find it: an interrupted run leaves "never an
\* unrecorded address".
LiveIsRecorded ==
  \A a \in addrs : a.by # 0 => \E e \in session : e.stamp = a.by

\* No two entries share an interface name and an address: what disconnect
\* removes by name and address is one entry.
OneEntryPerAddress ==
  \A e, f \in session : e.name = f.name /\ Ip[e.prefix] = Ip[f.prefix] => e = f

\* The addresses RemoveOwned's delete takes away are exactly the recorded
\* one: not another's, and no secondary along with it.
OwnedDeletesOnlyItsOwn ==
  [][\A p \in Procs :
        pc[p] = "own_wait" /\ child[p] = "running" /\ child'[p] = "ok"
          => /\ ent[p] \in session
             /\ \A a \in addrs \ addrs' : Exact(a, ent[p])]_vars

OwnSucceeds(p) ==
  OwnSave(p) \/ ((OwnLink(p) \/ OwnRelink(p)) /\ pc'[p] = "idle")

\* When RemoveOwned reports success, the address its entry applied is not
\* configured any more, on whatever interface.
OwnedSuccessMeansGone ==
  [][\A p \in Procs : OwnSucceeds(p) => \A a \in addrs : a.by # ent[p].stamp]_vars

\* The file and the configured addresses follow the ledger of SessionLedger:
\* saves of whole snapshots by several processes amount to recording and
\* dropping single entries, each before its address is configured and after
\* it is gone.
LiveStamps == {a.by : a \in {b \in addrs : b.by # 0}}
Ledger == INSTANCE SessionLedger WITH recorded <- session, live <- LiveStamps
LedgerSpec == Ledger!Spec

\* Every call returns, and the flock is given back by every return and by
\* death.
CallsReturn ==
  \A p \in Procs : (pc[p] # "idle" ~> pc[p] = "idle") /\ (lock = p ~> lock # p)

=============================================================================
