------------------------ MODULE SessionManagerProof ------------------------
(* Theorems about SessionManager for every number of processes, interfaces *)
(* and addresses, and every bound.                                         *)
EXTENDS SessionManager, TLAPS

-----------------------------------------------------------------------------
(* Types, and what the program counters say about the lock and the child.  *)

\* What a call's entry is, from its request to its record.
EntryKnown ==
  \A p \in Procs :
    /\ pc[p] \in {"add_lock", "add_check"} => ent[p] \in Request
    /\ pc[p] \notin {"idle", "add_lock", "add_check"} => ent[p] \in Entry

\* Only the holder of the flock is past its acquisition.
HoldsLock == \A p \in Procs : pc[p] \in Critical => lock = p

\* A child runs only while its call waits for it.
ChildWaited == \A p \in Procs : child[p] = "running" => pc[p] \in WaitSteps

TypeInv == TypeOK /\ EntryKnown /\ HoldsLock /\ ChildWaited

LEMMA InitTypeInv == Init => TypeInv
BY ConstantsAssumption
   DEF Init, TypeInv, TypeOK, EntryKnown, HoldsLock, ChildWaited, PCs, Critical,
       AddSteps, RemSteps, OwnSteps, LockSteps, WaitSteps

USE DEF PCs, Critical, AddSteps, RemSteps, OwnSteps, LockSteps, WaitSteps, kernel

LEMMA RefuseTypeInv ==
  ASSUME TypeInv, NEW p \in Procs, Refuse(p) PROVE TypeInv'
BY DEF TypeInv, TypeOK, EntryKnown, HoldsLock, ChildWaited, Refuse, Return, Goto

LEMMA AddTypeInv ==
  ASSUME TypeInv, NEW p \in Procs, AddStep(p) PROVE TypeInv'
<1> USE DEF TypeInv, TypeOK, EntryKnown, HoldsLock, ChildWaited, Goto
<1>1. CASE AddCheck(p)
  BY <1>1, ConstantsAssumption DEF AddCheck, Named, Entry, Request
<1>2. CASE AddSave(p)
  BY <1>2 DEF AddSave
<1>3. CASE AddRun(p)
  BY <1>3 DEF AddRun, StartIP, Advance
<1>4. CASE AddFailed(p)
  BY <1>4 DEF AddFailed, Advance
<1>5. CASE AddDone(p)
  BY <1>5 DEF AddDone, Return
<1>6. CASE AddUndo(p)
  BY <1>6 DEF AddUndo, Return
<1>7. QED
  BY <1>1, <1>2, <1>3, <1>4, <1>5, <1>6, RefuseTypeInv
     DEF AddStep, AddRefused, AddSaveFails, AddUnknown, AddUndoFails

LEMMA RemTypeInv ==
  ASSUME TypeInv, NEW p \in Procs, RemStep(p) PROVE TypeInv'
<1> USE DEF TypeInv, TypeOK, EntryKnown, HoldsLock, ChildWaited, Goto
<1>1. CASE RemCheck(p)
  BY <1>1 DEF RemCheck, Advance
<1>2. CASE RemPresent(p)
  BY <1>2 DEF RemPresent, Advance
<1>3. CASE RemRun(p)
  BY <1>3 DEF RemRun, StartIP, Advance
<1>4. CASE RemDone(p)
  BY <1>4 DEF RemDone, Advance
<1>5. CASE RemSave(p)
  BY <1>5 DEF RemSave, Return
<1>6. QED
  BY <1>1, <1>2, <1>3, <1>4, <1>5, RefuseTypeInv
     DEF RemStep, RemRefused, RemFails, RemSaveFails

LEMMA OwnAbsentTypeInv ==
  ASSUME TypeInv, NEW p \in Procs, pc[p] \in {"own_link", "own_relink"}, OwnAbsent(p)
  PROVE  TypeInv'
<1> USE DEF TypeInv, TypeOK, EntryKnown, HoldsLock, ChildWaited, Goto
<1>1. CASE Advance(p, "own_save") /\ UNCHANGED <<snap, seen, child>>
  BY <1>1 DEF Advance
<1>2. CASE ~(Advance(p, "own_save") /\ UNCHANGED <<snap, seen, child>>)
  <2>1. mine' = [mine EXCEPT ![p] = @ \ {ent[p]}] /\ Return(p)
        /\ UNCHANGED <<list, session, clock, kernel, orphans, moves>>
    BY <1>2 DEF OwnAbsent
  <2>2. QED BY <2>1 DEF Return
<1>3. QED BY <1>1, <1>2

LEMMA OwnTypeInv ==
  ASSUME TypeInv, NEW p \in Procs, OwnStep(p) PROVE TypeInv'
<1> USE DEF TypeInv, TypeOK, EntryKnown, HoldsLock, ChildWaited, Goto
<1>1. CASE OwnCheck(p)
  BY <1>1 DEF OwnCheck, Advance
<1>2. CASE OwnLink(p)
  <2>1. CASE Advance(p, "own_dump") /\ UNCHANGED <<snap, seen, child>>
    BY <1>2, <2>1 DEF OwnLink, Advance
  <2>2. CASE OwnAbsent(p)
    BY <1>2, <2>2, OwnAbsentTypeInv DEF OwnLink
  <2>3. QED BY <1>2, <2>1, <2>2 DEF OwnLink
<1>3. CASE OwnDump(p)
  BY <1>3 DEF OwnDump, Advance
<1>4. CASE OwnRelink(p)
  <2>1. CASE OwnPresent(p)
    BY <1>4, <2>1 DEF OwnRelink, OwnPresent, Advance
  <2>2. CASE OwnAbsent(p)
    BY <1>4, <2>2, OwnAbsentTypeInv DEF OwnRelink
  <2>3. QED BY <1>4, <2>1, <2>2 DEF OwnRelink
<1>5. CASE OwnRun(p)
  BY <1>5 DEF OwnRun, StartIP, Advance
<1>6. CASE OwnDone(p)
  BY <1>6 DEF OwnDone, Advance
<1>7. CASE OwnSave(p)
  BY <1>7 DEF OwnSave, Return
<1>8. QED
  BY <1>1, <1>2, <1>3, <1>4, <1>5, <1>6, <1>7, RefuseTypeInv
     DEF OwnStep, OwnRefused, OwnFails, OwnSaveFails

LEMMA BeginTypeInv ==
  ASSUME TypeInv, NEW p \in Procs, Begin(p) PROVE TypeInv'
<1> USE DEF TypeInv, TypeOK, EntryKnown, HoldsLock, ChildWaited, Goto
<1>1. ASSUME NEW n \in Names, NEW x \in Prefixes, StartAdd(p, n, x) PROVE TypeInv'
  <2>1. [name |-> n, index |-> 0, prefix |-> x, label |-> Label(n), stamp |-> 0] \in Request
    BY DEF Request, Label, Labels
  <2>2. QED BY <1>1, <2>1 DEF StartAdd, Start
<1>2. ASSUME NEW n, NEW ip, DisconnectLoad(p, n, ip) PROVE TypeInv'
  BY <1>2 DEF DisconnectLoad, Selected, call
<1>3. CASE StartRemove(p)
  BY <1>3 DEF StartRemove, Start
<1>4. ASSUME NEW e \in mine[p], StartRemoveOwned(p, e) PROVE TypeInv'
  BY <1>4 DEF StartRemoveOwned, Start
<1>5. QED BY <1>1, <1>2, <1>3, <1>4 DEF Begin

\* A new address is one, and what a delete leaves are addresses.
LEMMA NewAddressType ==
  ASSUME TypeOK, NEW i \in Indexes, NEW x \in Prefixes, NEW l \in Labels, NEW by \in 0..MaxAdds
  PROVE  NewAddress(i, x, l, by) \in Address
<1> DEFINE second == \E a \in InSubnet(addrs, i, x) : ~a.secondary
<1>1. second \in BOOLEAN
  BY Zenon
<1>2. NewAddress(i, x, l, by) = [index |-> i, prefix |-> x, label |-> l, by |-> by, secondary |-> second]
  BY DEF NewAddress
<1> HIDE DEF second
<1>3. QED BY <1>1, <1>2 DEF Address

LEMMA WithoutType ==
  ASSUME TypeOK, NEW a \in addrs, NEW B \in Without(a) PROVE B \subseteq Address
<1>1. \A b \in addrs : [b EXCEPT !.secondary = FALSE] \in Address
  BY DEF TypeOK, Address
<1>2. QED BY <1>1 DEF TypeOK, Without, InSubnet

LEMMA IpType ==
  ASSUME TypeOK, NEW e \in Entry, IpAdd(e) \/ IpDel(e) PROVE addrs' \subseteq Address
<1>1. CASE IpAdd(e)
  BY <1>1, NewAddressType, ConstantsAssumption DEF IpAdd, Named, Entry, TypeOK
<1>2. CASE IpDel(e)
  BY <1>2, WithoutType DEF IpDel
<1>3. QED BY <1>1, <1>2

LEMMA ChildTypeInv ==
  ASSUME TypeInv, NEW p \in Procs, ChildStep(p) PROVE TypeInv'
<1> USE DEF TypeInv, ChildEnds
<1>1. CASE ChildOK(p)
  <2>1. addrs' \subseteq Address
    BY <1>1, IpType DEF ChildOK, EntryKnown, ChildWaited
  <2>2. QED BY <1>1, <2>1 DEF ChildOK, TypeOK, EntryKnown, HoldsLock, ChildWaited
<1>2. CASE ChildFails(p)
  BY <1>2 DEF ChildFails, TypeOK, EntryKnown, HoldsLock, ChildWaited
<1>3. CASE ChildKilled(p)
  BY <1>3 DEF ChildKilled, TypeOK, EntryKnown, HoldsLock, ChildWaited
<1>4. QED BY <1>1, <1>2, <1>3 DEF ChildStep

LEMMA ExitTypeInv ==
  ASSUME TypeInv, NEW p \in Procs, Exit(p) PROVE TypeInv'
<1>1. orphans' \subseteq Orphan
  <2>1. CASE child[p] = "running"
    BY <2>1 DEF Exit, TypeInv, TypeOK, EntryKnown, ChildWaited, Orphan
  <2>2. CASE child[p] # "running"
    BY <2>2 DEF Exit, TypeInv, TypeOK
  <2>3. QED BY <2>1, <2>2
<1>2. QED
  BY <1>1 DEF Exit, Return, Goto, TypeInv, TypeOK, EntryKnown, HoldsLock, ChildWaited

LEMMA OrphanTypeInv ==
  ASSUME TypeInv, NEW o \in orphans, OrphanEnds(o) PROVE TypeInv'
<1>1. addrs' \subseteq Address
  BY IpType DEF OrphanEnds, TypeInv, TypeOK, Orphan
<1>2. QED
  BY <1>1 DEF OrphanEnds, call, TypeInv, TypeOK, EntryKnown, HoldsLock, ChildWaited

LEMMA AdminTypeInv == ASSUME TypeInv, Admin PROVE TypeInv'
<1> USE DEF AdminActs
<1>1. addrs' \subseteq Address /\ links' \in [Indexes -> Names \cup {Gone, Unborn}]
  <2> USE DEF TypeInv, TypeOK
  <2>1. ASSUME NEW i \in Indexes, NEW x \in Prefixes, NEW l \in Labels, AdminAdd(i, x, l)
        PROVE  addrs' \subseteq Address /\ UNCHANGED links
    <3>1. NewAddress(i, x, l, 0) \in Address
      BY NewAddressType, ConstantsAssumption
    <3>2. QED BY <2>1, <3>1 DEF AdminAdd
  <2>2. ASSUME NEW a \in addrs, AdminDel(a)
        PROVE  addrs' \subseteq Address /\ UNCHANGED links
    BY <2>2, WithoutType DEF AdminDel
  <2>3. QED BY <2>1, <2>2 DEF Admin, AdminRename, Unplug, Plug
<1>2. moves' \in Nat /\ UNCHANGED <<call, mine, list, lock, session, clock, orphans>>
  BY DEF Admin, AdminAdd, AdminDel, AdminRename, Unplug, Plug, TypeInv, TypeOK
<1>3. QED
  BY <1>1, <1>2 DEF call, TypeInv, TypeOK, EntryKnown, HoldsLock, ChildWaited

LEMMA NextTypeInv == TypeInv /\ [Next]_vars => TypeInv'
<1> SUFFICES ASSUME TypeInv, [Next]_vars PROVE TypeInv'
  OBVIOUS
<1>1. ASSUME NEW p \in Procs, Acquire(p) PROVE TypeInv'
  <2> DEFINE step == CASE pc[p] = "add_lock" -> "add_check"
                       [] pc[p] = "rem_lock" -> "rem_check"
                       [] pc[p] = "own_lock" -> "own_check"
  <2>1. \/ pc[p] = "add_lock" /\ step = "add_check"
        \/ pc[p] = "rem_lock" /\ step = "rem_check"
        \/ pc[p] = "own_lock" /\ step = "own_check"
    BY <1>1 DEF Acquire
  <2>2. pc' = [pc EXCEPT ![p] = step]
    BY <1>1 DEF Acquire, Goto
  <2> HIDE DEF step
  <2>3. lock = NoProc /\ lock' = p
        /\ UNCHANGED <<ent, snap, seen, ctx, child, mine, list, session, clock, kernel, orphans, moves>>
    BY <1>1 DEF Acquire
  <2>4. TypeOK' /\ EntryKnown'
    BY <2>1, <2>2, <2>3 DEF TypeInv, TypeOK, EntryKnown
  <2>5. HoldsLock' /\ ChildWaited'
    BY <2>1, <2>2, <2>3, ConstantsAssumption DEF TypeInv, TypeOK, HoldsLock, ChildWaited
  <2>6. QED BY <2>4, <2>5 DEF TypeInv
<1>2. ASSUME NEW p \in Procs, Cancel(p) PROVE TypeInv'
  BY <1>2 DEF Cancel, TypeInv, TypeOK, EntryKnown, HoldsLock, ChildWaited
<1>3. ASSUME NEW p \in Procs, CallStep(p) PROVE TypeInv'
  BY <1>1, <1>3, RefuseTypeInv, AddTypeInv, RemTypeInv, OwnTypeInv DEF CallStep, LockFails
<1>4. CASE UNCHANGED vars
  BY <1>4 DEF vars, call, TypeInv, TypeOK, EntryKnown, HoldsLock, ChildWaited
<1>5. QED
  BY <1>2, <1>3, <1>4, BeginTypeInv, ChildTypeInv, ExitTypeInv, OrphanTypeInv, AdminTypeInv
     DEF Next

\* Every variable keeps its type: in particular every entry that reaches the
\* session file is complete, with the index of an interface and a time.
THEOREM TypeCorrect == Spec => []TypeOK
<1>1. TypeInv => TypeOK
  BY DEF TypeInv
<1>2. QED BY <1>1, InitTypeInv, NextTypeInv, PTL DEF Spec

-----------------------------------------------------------------------------
(* The session file: what a call has loaded is what the file holds, until  *)
(* the call itself saves.  This is what the flock is for.                  *)

Unsaved  == {"add_save", "rem_present", "rem_run", "rem_wait", "rem_save",
             "own_link", "own_dump", "own_relink", "own_run", "own_wait", "own_save"}
Saved    == {"add_run", "add_wait", "add_undo"}
Removing == {"rem_present", "rem_run", "rem_wait", "rem_save"}

Loaded   == \A p \in Procs : pc[p] \in Unsaved => snap[p] = session
Appended == \A p \in Procs : pc[p] \in Saved => session = snap[p] \cup {ent[p]}

\* The new entry is the latest and the only one for its interface and address.
Newest ==
  \A p \in Procs : pc[p] \in {"add_save"} \cup Saved =>
    /\ ent[p].stamp <= clock
    /\ \A x \in snap[p] : /\ x.stamp < ent[p].stamp
                          /\ x.name = ent[p].name => Ip[x.prefix] # Ip[ent[p].prefix]

Dated ==
  /\ \A e \in session : e.stamp <= clock
  /\ \A e, f \in session : e.stamp = f.stamp => e = f

Found == \A p \in Procs : pc[p] \in Removing => Matches(snap[p], ent[p]) # {}

FileInv == Loaded /\ Appended /\ Newest /\ Dated /\ OneEntryPerAddress /\ Found

USE DEF Unsaved, Saved, Removing

LEMMA InitFileInv == Init => FileInv
BY DEF Init, FileInv, Loaded, Appended, Newest, Dated, OneEntryPerAddress, Found

\* A step of one call that leaves the file alone, and goes where the call's
\* own part of the invariant holds.
LEMMA QuietFileInv ==
  ASSUME TypeInv, FileInv, NEW p \in Procs, NEW step,
         UNCHANGED <<session, clock>>,
         pc' = [pc EXCEPT ![p] = step],
         \A q \in Procs \ {p} : ent'[q] = ent[q] /\ snap'[q] = snap[q],
         step \in Unsaved => snap'[p] = session,
         step \in Saved \cup Removing => /\ snap'[p] = snap[p] /\ ent'[p] = ent[p]
                                         /\ step \in Saved => pc[p] \in Saved
                                         /\ step \in Removing => pc[p] \in Removing,
         step # "add_save"
  PROVE  FileInv'
<1> USE DEF TypeInv, TypeOK
<1>1. Loaded'
  BY DEF FileInv, Loaded
<1>2. Appended'
  BY DEF FileInv, Appended
<1>3. Newest'
  BY DEF FileInv, Newest
<1>4. Dated' /\ OneEntryPerAddress'
  BY DEF FileInv, Dated, OneEntryPerAddress
<1>5. Found'
  BY DEF FileInv, Found, Matches
<1>6. QED BY <1>1, <1>2, <1>3, <1>4, <1>5 DEF FileInv

LEMMA ReturnFileInv ==
  ASSUME TypeInv, FileInv, NEW p \in Procs, Return(p), UNCHANGED <<session, clock>>
  PROVE  FileInv'
BY QuietFileInv DEF Return, Goto, TypeInv, TypeOK

\* Saving under the lock disturbs nobody else: only p is past the lock.
LEMMA AloneFileInv ==
  ASSUME TypeInv, FileInv, NEW p \in Procs, pc[p] \in Critical
  PROVE  \A q \in Procs \ {p} : pc[q] \notin Critical
BY DEF TypeInv, HoldsLock

\* The two ways an entry leaves the file, and the rollback.
LEMMA DropFileInv ==
  ASSUME TypeInv, FileInv, NEW p \in Procs, pc[p] \in Critical,
         session' \subseteq session, UNCHANGED clock, Return(p)
  PROVE  FileInv'
<1>1. \A q \in Procs : pc'[q] \notin Critical
  BY AloneFileInv DEF Return, Goto, TypeInv, TypeOK
<1>2. Loaded' /\ Appended' /\ Newest' /\ Found'
  BY <1>1 DEF Loaded, Appended, Newest, Found
<1>3. Dated' /\ OneEntryPerAddress'
  BY DEF FileInv, Dated, OneEntryPerAddress
<1>4. QED BY <1>2, <1>3 DEF FileInv

LEMMA AddFileInv ==
  ASSUME TypeInv, FileInv, NEW p \in Procs, AddStep(p) PROVE FileInv'
<1>1. CASE AddCheck(p)
  <2> USE <1>1 DEF AddCheck, Goto, TypeInv, TypeOK
  <2>1. \A q \in Procs \ {p} : pc'[q] \notin Critical
    BY AloneFileInv
  <2>2. pc'[p] = "add_save" /\ snap'[p] = session
    OBVIOUS
  <2>3. Loaded' /\ Appended' /\ Found'
    BY <2>1, <2>2 DEF Loaded, Appended, Found
  <2>4. /\ ent'[p].stamp = clock + 1
        /\ ent'[p].name = ent[p].name
        /\ ent'[p].prefix = ent[p].prefix
    BY DEF EntryKnown, Request
  <2>5. clock' = clock + 1 /\ clock \in Nat /\ \A x \in session : x.stamp \in Nat
    BY ConstantsAssumption DEF Entry
  <2>6. \A x \in session : x.stamp < clock + 1
    BY <2>5 DEF FileInv, Dated
  <2>7. \A x \in session : x.name = ent[p].name => Ip[x.prefix] # Ip[ent[p].prefix]
    BY DEF AlreadyRecorded
  <2>8. Newest'
    BY <2>1, <2>2, <2>4, <2>5, <2>6, <2>7 DEF Newest
  <2>9. Dated' /\ OneEntryPerAddress'
    BY <2>5 DEF FileInv, Dated, OneEntryPerAddress
  <2>10. QED BY <2>3, <2>8, <2>9 DEF FileInv
<1>2. CASE AddSave(p)
  <2> USE <1>2 DEF AddSave, Goto, TypeInv, TypeOK
  <2>1. \A q \in Procs \ {p} : pc'[q] \notin Critical
    BY AloneFileInv
  <2>2. pc'[p] = "add_run" /\ snap[p] = session /\ session' = session \cup {ent[p]}
    BY DEF FileInv, Loaded
  <2>3. Loaded' /\ Appended' /\ Found' /\ Newest'
    BY <2>1, <2>2 DEF FileInv, Loaded, Appended, Found, Newest
  <2>4. /\ ent[p].stamp <= clock
        /\ \A x \in session : /\ x.stamp < ent[p].stamp
                              /\ x.name = ent[p].name => Ip[x.prefix] # Ip[ent[p].prefix]
    BY <2>2 DEF FileInv, Newest
  <2>5. ent[p] \in Entry /\ session \subseteq Entry
    BY DEF EntryKnown
  <2>6. Dated'
    <3>1. \A x \in session : x.stamp # ent[p].stamp
      BY <2>4, <2>5 DEF Entry
    <3>2. QED BY <2>2, <2>4, <3>1 DEF FileInv, Dated
  <2>7. OneEntryPerAddress'
    BY <2>2, <2>4 DEF FileInv, OneEntryPerAddress
  <2>8. QED BY <2>3, <2>6, <2>7 DEF FileInv
<1>3. CASE AddRun(p) \/ AddFailed(p)
  BY <1>3, QuietFileInv DEF AddRun, AddFailed, StartIP, Advance, Goto
<1>4. CASE AddDone(p)
  BY <1>4, ReturnFileInv DEF AddDone
<1>5. CASE AddUndo(p)
  BY <1>5, DropFileInv DEF AddUndo, FileInv, Appended
<1>6. CASE AddRefused(p) \/ AddSaveFails(p) \/ AddUnknown(p) \/ AddUndoFails(p)
  BY <1>6, ReturnFileInv DEF AddRefused, AddSaveFails, AddUnknown, AddUndoFails, Refuse
<1>7. QED BY <1>1, <1>2, <1>3, <1>4, <1>5, <1>6 DEF AddStep

LEMMA RemFileInv ==
  ASSUME TypeInv, FileInv, NEW p \in Procs, RemStep(p) PROVE FileInv'
<1>1. CASE RemCheck(p)
  <2> USE <1>1 DEF RemCheck, Advance, Goto, TypeInv, TypeOK
  <2>1. \A q \in Procs \ {p} : pc'[q] \notin Critical
    BY AloneFileInv
  <2>2. pc'[p] = "rem_present" /\ snap'[p] = session /\ ent'[p] = ent[p]
    OBVIOUS
  <2>3. Loaded' /\ Appended' /\ Newest'
    BY <2>1, <2>2 DEF Loaded, Appended, Newest
  <2>4. Found'
    BY <2>1, <2>2 DEF Found, Matches
  <2>5. Dated' /\ OneEntryPerAddress'
    BY DEF FileInv, Dated, OneEntryPerAddress
  <2>6. QED BY <2>3, <2>4, <2>5 DEF FileInv
<1>2. CASE RemPresent(p) \/ RemRun(p) \/ RemDone(p)
  BY <1>2, QuietFileInv DEF RemPresent, RemRun, RemDone, StartIP, Advance, Goto, FileInv, Loaded
<1>3. CASE RemSave(p)
  BY <1>3, DropFileInv DEF RemSave, FileInv, Loaded
<1>4. CASE RemRefused(p) \/ RemFails(p) \/ RemSaveFails(p)
  BY <1>4, ReturnFileInv DEF RemRefused, RemFails, RemSaveFails, Refuse
<1>5. QED BY <1>1, <1>2, <1>3, <1>4 DEF RemStep

LEMMA OwnAbsentFileInv ==
  ASSUME TypeInv, FileInv, NEW p \in Procs, pc[p] \in {"own_link", "own_relink"}, OwnAbsent(p)
  PROVE  FileInv'
<1>1. CASE Advance(p, "own_save") /\ UNCHANGED <<snap, seen, child>>
  BY <1>1, QuietFileInv DEF Advance, Goto, FileInv, Loaded
<1>2. CASE Return(p) /\ UNCHANGED <<session, clock>>
  BY <1>2, ReturnFileInv
<1>3. QED BY <1>1, <1>2 DEF OwnAbsent

LEMMA OwnFileInv ==
  ASSUME TypeInv, FileInv, NEW p \in Procs, OwnStep(p) PROVE FileInv'
<1>1. CASE OwnCheck(p)
  BY <1>1, QuietFileInv DEF OwnCheck, Advance, Goto, TypeInv, TypeOK
<1>2. ASSUME NEW step \in {"own_dump", "own_relink", "own_run", "own_wait", "own_save"},
             pc[p] \in Unsaved, Advance(p, step), UNCHANGED snap
      PROVE  FileInv'
  BY <1>2, QuietFileInv DEF Advance, Goto, FileInv, Loaded
<1>3. CASE OwnLink(p)
  BY <1>3, <1>2, OwnAbsentFileInv DEF OwnLink
<1>4. CASE OwnRelink(p)
  BY <1>4, <1>2, OwnAbsentFileInv DEF OwnRelink, OwnPresent
<1>5. CASE OwnDump(p) \/ OwnRun(p) \/ OwnDone(p)
  BY <1>5, <1>2 DEF OwnDump, OwnRun, OwnDone, StartIP
<1>6. CASE OwnSave(p)
  BY <1>6, DropFileInv DEF OwnSave, FileInv, Loaded
<1>7. CASE OwnRefused(p) \/ OwnFails(p) \/ OwnSaveFails(p)
  BY <1>7, ReturnFileInv DEF OwnRefused, OwnFails, OwnSaveFails, Refuse
<1>8. QED BY <1>1, <1>3, <1>4, <1>5, <1>6, <1>7 DEF OwnStep

\* Steps of the children, the orphans and the administrator, and stuttering.
LEMMA OutsideFileInv ==
  ASSUME FileInv, UNCHANGED <<pc, ent, snap, session, clock>> PROVE FileInv'
BY DEF FileInv, Loaded, Appended, Newest, Dated, OneEntryPerAddress, Found, Matches

LEMMA NextFileInv == TypeInv /\ FileInv /\ [Next]_vars => FileInv'
<1> SUFFICES ASSUME TypeInv, FileInv, [Next]_vars PROVE FileInv'
  OBVIOUS
<1>1. ASSUME NEW p \in Procs, Begin(p) PROVE FileInv'
  <2>1. ASSUME NEW e, NEW step \in LockSteps, Start(p, e, step) PROVE FileInv'
    BY <2>1, QuietFileInv DEF Start, Goto, TypeInv, TypeOK
  <2>2. ASSUME NEW n, NEW ip, DisconnectLoad(p, n, ip) PROVE FileInv'
    BY <2>2, OutsideFileInv DEF DisconnectLoad, call
  <2>3. QED BY <1>1, <2>1, <2>2 DEF Begin, StartAdd, StartRemove, StartRemoveOwned
<1>2. ASSUME NEW p \in Procs, Acquire(p) PROVE FileInv'
  <2>1. ASSUME NEW step \in {"add_check", "rem_check", "own_check"}, Goto(p, step)
        PROVE  FileInv'
    BY <1>2, <2>1, QuietFileInv DEF Acquire, Goto
  <2>2. \E step \in {"add_check", "rem_check", "own_check"} : Goto(p, step)
    BY <1>2 DEF Acquire, Goto
  <2>3. QED BY <2>1, <2>2
<1>3. ASSUME NEW p \in Procs, CallStep(p) PROVE FileInv'
  <2>1. CASE LockFails(p)
    BY <2>1, ReturnFileInv DEF LockFails, Refuse
  <2>2. QED BY <1>2, <1>3, <2>1, AddFileInv, RemFileInv, OwnFileInv DEF CallStep
<1>4. ASSUME NEW p \in Procs, Exit(p) PROVE FileInv'
  BY <1>4, ReturnFileInv DEF Exit
<1>5. ASSUME NEW p \in Procs, ChildStep(p) \/ Cancel(p) PROVE FileInv'
  BY <1>5, OutsideFileInv DEF ChildStep, ChildOK, ChildFails, ChildKilled, ChildEnds, Cancel
<1>6. CASE Admin \/ (\E o \in orphans : OrphanEnds(o)) \/ UNCHANGED vars
  <2>1. UNCHANGED <<pc, ent, snap, session, clock>>
    BY <1>6 DEF Admin, AdminAdd, AdminDel, AdminRename, Unplug, Plug, AdminActs, OrphanEnds, vars, call
  <2>2. QED BY <2>1, OutsideFileInv
<1>7. QED BY <1>1, <1>3, <1>4, <1>5, <1>6 DEF Next

LEMMA FileInvariant == Spec => [](TypeInv /\ FileInv)
BY InitTypeInv, NextTypeInv, InitFileInv, NextFileInv, PTL DEF Spec

\* The record of an address is in the file before its `ip address add' runs
\* and for as long as it may take effect under a living wirepup, whatever the
\* other processes, the administrator and the faults do.
THEOREM RecordFirst == Spec => []RecordedBeforeApplied
<1>1. TypeInv /\ FileInv => RecordedBeforeApplied
  BY DEF FileInv, Appended, RecordedBeforeApplied
<1>2. QED BY <1>1, FileInvariant, PTL

\* The file never holds two entries for one interface name and address.
THEOREM NoDuplicateEntry == Spec => []OneEntryPerAddress
<1>1. FileInv => OneEntryPerAddress
  BY DEF FileInv
<1>2. QED BY <1>1, FileInvariant, PTL

-----------------------------------------------------------------------------
(* The ledger.  SessionManager implements SessionLedger on a host where no *)
(* interface is renamed, an `ip' child does not outlive its wirepup, and   *)
(* interfaces and addresses can be read.  Each of the three is needed: the *)
(* run orphan_unrecorded shows it of the second, a failed inspection makes *)
(* Remove drop the record of a configured address, and so does a rename,   *)
(* which makes it look the address up under a name that is not there.      *)

Contained == ~Orphans /\ "rename" \notin AdminMoves /\ ~InspectFaults

NotLive(s) == \A a \in addrs : a.by # s

LinksUnique ==
  \A i, j \in Indexes : links[i] = links[j] /\ links[i] \in Names => i = j

KeysUnique ==
  \A a, b \in addrs : a.index = b.index /\ a.prefix = b.prefix => a = b

\* Every address wirepup applied has its entry, and sits on the interface of
\* that name.
Placed ==
  \A a \in addrs : a.by # 0 =>
    \E e \in session : e.stamp = a.by /\ links[a.index] = e.name /\ a.prefix = e.prefix

\* What a call knows of its address at each of its steps.
NotYet(p) ==
  \/ pc[p] \in {"add_run", "add_undo"}
  \/ pc[p] = "add_wait" /\ child[p] \in {"running", "failed"}
  => NotLive(ent[p].stamp)

RemGone(p) ==
  \/ pc[p] = "rem_save"
  \/ pc[p] = "rem_wait" /\ child[p] = "ok"
  => NotLive(Dropped(p).stamp)

OwnRecorded(p) == pc[p] \in {"own_run", "own_wait", "own_save"} => ent[p] \in session

\* The dump did not show the address on the entry's own index.
OwnDumped(p) ==
  pc[p] = "own_relink" /\ ~seen[p] /\ ent[p] \in session
    => \A a \in addrs : a.by = ent[p].stamp => a.index # ent[p].index

OwnGone(p) ==
  \/ pc[p] = "own_save"
  \/ pc[p] = "own_wait" /\ child[p] = "ok"
  => NotLive(ent[p].stamp)

CallInv(p) == NotYet(p) /\ RemGone(p) /\ OwnRecorded(p) /\ OwnDumped(p) /\ OwnGone(p)

LiveInv ==
  /\ orphans = {}
  /\ LinksUnique /\ KeysUnique /\ Placed
  /\ \A p \in Procs : CallInv(p)

LEMMA InitLiveInv == Init => LiveInv
BY ConstantsAssumption
   DEF Init, LiveInv, LinksUnique, KeysUnique, Placed, CallInv, NotYet, RemGone,
       OwnRecorded, OwnDumped, OwnGone

-----------------------------------------------------------------------------
\* Where the address of a recorded entry is, if it is anywhere.
LEMMA WhereLive ==
  ASSUME TypeInv, FileInv, LiveInv, NEW e \in session, NEW a \in addrs, a.by = e.stamp
  PROVE  links[a.index] = e.name /\ a.prefix = e.prefix
<1>1. e.stamp # 0
  BY DEF TypeInv, TypeOK, Entry
<1>2. QED BY <1>1 DEF LiveInv, Placed, FileInv, Dated

LEMMA DroppedRecorded ==
  ASSUME TypeInv, FileInv, NEW p \in Procs, pc[p] \in Removing
  PROVE  /\ Dropped(p) \in session
         /\ Dropped(p).name = ent[p].name /\ Dropped(p).prefix = ent[p].prefix
<1>1. snap[p] = session /\ Matches(snap[p], ent[p]) # {}
  BY DEF FileInv, Loaded, Found
<1>2. PICK x \in Matches(snap[p], ent[p]) : TRUE
  BY <1>1
<1>3. \A y \in Matches(snap[p], ent[p]) : y = x
  BY <1>1 DEF Matches, FileInv, OneEntryPerAddress
<1>4. x.stamp <= x.stamp
  BY <1>1 DEF Matches, TypeInv, TypeOK, Entry
<1>5. Dropped(p) \in Matches(snap[p], ent[p])
  BY <1>2, <1>3, <1>4 DEF Dropped, Latest
<1>6. QED BY <1>1, <1>5 DEF Matches

\* After a delete every address left was there before, where it was.
LEMMA WithoutKeeps ==
  ASSUME TypeInv, KeysUnique, NEW a \in addrs, addrs' \in Without(a)
  PROVE  /\ KeysUnique'
         /\ \A b \in addrs' : \E c \in addrs : /\ c.index = b.index
                                               /\ c.prefix = b.prefix
                                               /\ c.by = b.by
                                               /\ c # a
<1> DEFINE rest == addrs \ {a}
           deps == InSubnet(rest, a.index, a.prefix)
<1>1. \A b \in addrs : LET n == [b EXCEPT !.secondary = FALSE]
                       IN n.index = b.index /\ n.prefix = b.prefix /\ n.by = b.by
  BY DEF TypeInv, TypeOK, Address
<1>2. deps \subseteq rest
  BY DEF InSubnet
<1>3. CASE addrs' \subseteq rest
  BY <1>3 DEF KeysUnique
<1>4. CASE \E b \in deps : addrs' = (rest \ {b}) \cup {[b EXCEPT !.secondary = FALSE]}
  <2>1. PICK b \in deps : addrs' = (rest \ {b}) \cup {[b EXCEPT !.secondary = FALSE]}
    BY <1>4
  <2> DEFINE m == [b EXCEPT !.secondary = FALSE]
  <2>2. m.index = b.index /\ m.prefix = b.prefix /\ m.by = b.by
    BY <1>1, <1>2
  <2>3. addrs' = (rest \ {b}) \cup {m} /\ b \in addrs /\ b # a
    BY <1>2, <2>1
  <2> HIDE DEF m
  <2>4. QED BY <2>2, <2>3 DEF KeysUnique
<1>5. QED BY <1>3, <1>4 DEF Without

\* A step outside the calls that takes addresses away, or adds one that is
\* not wirepup's; a child it ends has done no more than its call waits for.
LEMMA FewerLive ==
  ASSUME TypeInv, LiveInv,
         UNCHANGED <<pc, ent, snap, seen, session, orphans>>,
         \A p \in Procs :
            \/ child'[p] = child[p]
            \/ child[p] = "running" /\ child'[p] = "failed"
            \/ child'[p] = "killed"
            \/ /\ child'[p] = "ok"
               /\ pc[p] = "rem_wait" => NotLive(Dropped(p).stamp)'
               /\ pc[p] = "own_wait" => NotLive(ent[p].stamp)'
               /\ pc[p] # "add_wait",
         LinksUnique', KeysUnique',
         FileInv,
         \A b \in addrs' : b.by # 0 =>
            \E c \in addrs : c.index = b.index /\ c.prefix = b.prefix /\ c.by = b.by
                             /\ links'[c.index] = links[c.index]
  PROVE  LiveInv'
<1>1. Placed'
  <2> SUFFICES ASSUME NEW b \in addrs', b.by # 0
               PROVE  \E e \in session : e.stamp = b.by /\ links'[b.index] = e.name /\ b.prefix = e.prefix
    BY DEF Placed
  <2>1. PICK c \in addrs : c.index = b.index /\ c.prefix = b.prefix /\ c.by = b.by
                            /\ links'[c.index] = links[c.index]
    OBVIOUS
  <2>2. PICK e \in session : e.stamp = c.by /\ links[c.index] = e.name /\ c.prefix = e.prefix
    BY <2>1 DEF LiveInv, Placed
  <2>3. QED BY <2>1, <2>2
<1>2. ASSUME NEW s \in Nat \ {0}, NotLive(s) PROVE NotLive(s)'
  BY <1>2 DEF NotLive
<1> SUFFICES ASSUME NEW p \in Procs PROVE CallInv(p)'
  BY <1>1 DEF LiveInv
<1>3. pc[p] \in AddSteps \ {"add_check"} \/ pc[p] \in OwnSteps => ent[p].stamp \in Nat \ {0}
  BY ConstantsAssumption DEF TypeInv, EntryKnown, Entry
<1>4. NotYet(p)'
  BY <1>2, <1>3 DEF LiveInv, CallInv, NotYet
<1>5. RemGone(p)'
  <2> SUFFICES ASSUME pc[p] = "rem_save" \/ (pc[p] = "rem_wait" /\ child'[p] = "ok")
               PROVE  NotLive(Dropped(p).stamp)'
    BY DEF RemGone
  <2>1. Dropped(p)' = Dropped(p)
    BY DEF Dropped, Latest, Matches
  <2>2. Dropped(p).stamp \in Nat \ {0}
    BY DroppedRecorded, ConstantsAssumption DEF TypeInv, TypeOK, Entry
  <2>3. CASE NotLive(Dropped(p).stamp)
    BY <2>1, <2>2, <2>3 DEF NotLive
  <2>4. CASE ~NotLive(Dropped(p).stamp)
    BY <2>4 DEF LiveInv, CallInv, RemGone
  <2>5. QED BY <2>3, <2>4
<1>6. OwnRecorded(p)' /\ OwnGone(p)'
  BY <1>2, <1>3 DEF LiveInv, CallInv, OwnRecorded, OwnGone
<1>7. OwnDumped(p)'
  BY <1>3 DEF LiveInv, CallInv, OwnDumped
<1>8. QED BY <1>4, <1>5, <1>6, <1>7 DEF CallInv

\* A step of one call that leaves addresses, interfaces and file alone.
LEMMA QuietLive ==
  ASSUME TypeInv, LiveInv, NEW p \in Procs,
         UNCHANGED <<session, links, addrs, orphans>>,
         \A q \in Procs \ {p} : /\ pc'[q] = pc[q] /\ ent'[q] = ent[q] /\ snap'[q] = snap[q]
                                /\ seen'[q] = seen[q] /\ child'[q] = child[q],
         CallInv(p)'
  PROVE  LiveInv'
<1>1. LinksUnique' /\ KeysUnique' /\ Placed'
  BY DEF LiveInv, LinksUnique, KeysUnique, Placed
<1>2. ASSUME NEW q \in Procs \ {p} PROVE CallInv(q)'
  BY <1>2 DEF LiveInv, CallInv, NotYet, RemGone, OwnRecorded, OwnDumped, OwnGone, NotLive,
              Dropped, Latest, Matches
<1>3. QED BY <1>1, <1>2 DEF LiveInv

\* The same when the file changes: nobody else is past the lock.
LEMMA SaveLive ==
  ASSUME TypeInv, FileInv, LiveInv, NEW p \in Procs, pc[p] \in Critical,
         UNCHANGED <<links, addrs, orphans>>,
         \A q \in Procs \ {p} : pc'[q] = pc[q],
         Placed', CallInv(p)'
  PROVE  LiveInv'
<1>1. LinksUnique' /\ KeysUnique'
  BY DEF LiveInv, LinksUnique, KeysUnique
<1>2. ASSUME NEW q \in Procs \ {p} PROVE CallInv(q)'
  BY AloneFileInv DEF CallInv, NotYet, RemGone, OwnRecorded, OwnDumped, OwnGone
<1>3. QED BY <1>1, <1>2 DEF LiveInv

IdleSteps == PCs \ {"add_run", "add_undo", "add_wait", "rem_save", "rem_wait",
                    "own_relink", "own_run", "own_wait", "own_save"}

LEMMA IdleCall ==
  ASSUME NEW p \in Procs, pc'[p] \in IdleSteps PROVE CallInv(p)'
BY DEF IdleSteps, CallInv, NotYet, RemGone, OwnRecorded, OwnDumped, OwnGone

LEMMA ReturnLive ==
  ASSUME TypeInv, LiveInv, NEW p \in Procs, Return(p),
         UNCHANGED <<session, links, addrs, orphans>>
  PROVE  LiveInv'
<1>1. CallInv(p)'
  BY IdleCall DEF Return, Goto, IdleSteps, TypeInv, TypeOK
<1>2. QED BY <1>1, QuietLive DEF Return, Goto, TypeInv, TypeOK

LEMMA ChildLive ==
  ASSUME TypeInv, FileInv, LiveInv, NEW p \in Procs, ChildStep(p) PROVE LiveInv'
<1> USE DEF ChildEnds
<1>1. CASE ChildFails(p) \/ ChildKilled(p)
  <2>1. \A b \in addrs' : \E c \in addrs : c.index = b.index /\ c.prefix = b.prefix /\ c.by = b.by
                             /\ links'[c.index] = links[c.index]
    BY <1>1 DEF ChildFails, ChildKilled
  <2>2. LinksUnique' /\ KeysUnique'
    BY <1>1 DEF ChildFails, ChildKilled, LiveInv, LinksUnique, KeysUnique
  <2>3. QED BY <1>1, <2>1, <2>2, FewerLive DEF ChildFails, ChildKilled, TypeInv, TypeOK
<1>2. CASE ChildOK(p) /\ pc[p] # "add_wait"
  <2>1. PICK a \in addrs : /\ links[a.index] = ent[p].name
                           /\ a.prefix = ent[p].prefix
                           /\ addrs' \in Without(a)
    BY <1>2 DEF ChildOK, IpDel
  <2>2. /\ KeysUnique'
        /\ \A b \in addrs' : \E c \in addrs : c.index = b.index /\ c.prefix = b.prefix
                                              /\ c.by = b.by /\ c # a
    BY <2>1, WithoutKeeps DEF LiveInv
  <2>3. ASSUME NEW e \in session, e.name = ent[p].name, e.prefix = ent[p].prefix
        PROVE  NotLive(e.stamp)'
    <3> SUFFICES ASSUME NEW b \in addrs', b.by = e.stamp PROVE FALSE
      BY <1>2 DEF NotLive, ChildOK
    <3>1. PICK c \in addrs : c.by = b.by /\ c # a
      BY <2>2
    <3>2. links[c.index] = e.name /\ c.prefix = e.prefix
      BY <3>1, WhereLive
    <3>3. c.index = a.index
      BY <2>1, <2>3, <3>2 DEF LiveInv, LinksUnique, TypeInv, TypeOK, Address, Entry
    <3>4. QED BY <2>1, <2>3, <3>1, <3>2, <3>3 DEF LiveInv, KeysUnique
  <2>4. pc[p] = "rem_wait" => NotLive(Dropped(p).stamp)'
    <3> SUFFICES ASSUME pc[p] = "rem_wait" PROVE NotLive(Dropped(p).stamp)'
      OBVIOUS
    <3>1. Dropped(p)' = Dropped(p)
      BY <1>2 DEF ChildOK, Dropped, Latest, Matches
    <3>2. QED BY <2>3, <3>1, DroppedRecorded DEF NotLive
  <2>5. pc[p] = "own_wait" => NotLive(ent[p].stamp)'
    <3>1. pc[p] = "own_wait" => ent[p] \in session
      BY DEF LiveInv, CallInv, OwnRecorded
    <3>2. QED BY <1>2, <2>3, <3>1 DEF ChildOK, NotLive
  <2>6. LinksUnique'
    BY <1>2 DEF ChildOK, LiveInv, LinksUnique
  <2>7. \A q \in Procs \ {p} : child'[q] = child[q]
    BY <1>2 DEF ChildOK, TypeInv, TypeOK
  <2>8. child'[p] = "ok"
    BY <1>2 DEF ChildOK, TypeInv, TypeOK
  <2>9. QED BY <1>2, <2>2, <2>4, <2>5, <2>6, <2>7, <2>8, FewerLive DEF ChildOK
<1>3. CASE ChildOK(p) /\ pc[p] = "add_wait"
  <2> DEFINE e == ent[p]
  <2>1. PICK i \in Indexes : /\ links[i] = e.name
                             /\ Free(i, e.prefix)
                             /\ addrs' = addrs \cup {NewAddress(i, e.prefix, e.label, e.stamp)}
    BY <1>3 DEF ChildOK, IpAdd, Named
  <2>2. PICK n : /\ n.index = i /\ n.prefix = e.prefix /\ n.by = e.stamp
                 /\ addrs' = addrs \cup {n}
    <3> DEFINE n == NewAddress(i, e.prefix, e.label, e.stamp)
    <3>1. n.index = i /\ n.prefix = e.prefix /\ n.by = e.stamp
      BY DEF NewAddress
    <3>2. addrs' = addrs \cup {n}
      BY <2>1
    <3> HIDE DEF n
    <3>3. QED BY <3>1, <3>2
  <2>3. e \in session /\ NotLive(e.stamp)
    BY <1>3 DEF FileInv, Appended, LiveInv, CallInv, NotYet, ChildOK
  <2>4. UNCHANGED <<pc, ent, snap, seen, session, links, orphans>>
    BY <1>3 DEF ChildOK
  <2>5. KeysUnique' /\ LinksUnique'
    BY <2>1, <2>2, <2>4 DEF LiveInv, KeysUnique, LinksUnique, Free
  <2>6. Placed'
    BY <2>1, <2>2, <2>3, <2>4 DEF LiveInv, Placed
  <2>7. \A q \in Procs : CallInv(q)'
    <3>1. CallInv(p)'
      BY <1>3, <2>4 DEF ChildOK, CallInv, NotYet, RemGone, OwnRecorded, OwnDumped, OwnGone, TypeInv, TypeOK
    <3>2. ASSUME NEW q \in Procs \ {p} PROVE CallInv(q)'
      BY <1>3, <2>4, AloneFileInv DEF CallInv, NotYet, RemGone, OwnRecorded, OwnDumped, OwnGone
    <3>3. QED BY <3>1, <3>2
  <2>8. QED BY <2>4, <2>5, <2>6, <2>7 DEF LiveInv
<1>4. QED BY <1>1, <1>2, <1>3 DEF ChildStep

LEMMA AdminLive ==
  ASSUME Contained, TypeInv, FileInv, LiveInv, Admin PROVE LiveInv'
<1> DEFINE Kept == \A b \in addrs' : b.by # 0 =>
              \E c \in addrs : c.index = b.index /\ c.prefix = b.prefix /\ c.by = b.by
                               /\ links'[c.index] = links[c.index]
<1>1. UNCHANGED <<pc, ent, snap, seen, child, session, orphans>>
  BY DEF Admin, AdminAdd, AdminDel, AdminRename, Unplug, Plug, AdminActs, call
<1>2. ASSUME NEW i \in Indexes, NEW x \in Prefixes, NEW l \in Labels, AdminAdd(i, x, l)
      PROVE  LinksUnique' /\ KeysUnique' /\ Kept
  <2> DEFINE n == NewAddress(i, x, l, 0)
  <2>1. n.index = i /\ n.prefix = x /\ n.by = 0
    BY DEF NewAddress
  <2>2. addrs' = addrs \cup {n} /\ Free(i, x) /\ UNCHANGED links
    BY <1>2 DEF AdminAdd
  <2> HIDE DEF n
  <2>3. QED BY <2>1, <2>2 DEF Free, LiveInv, LinksUnique, KeysUnique
<1>3. ASSUME NEW a \in addrs, AdminDel(a) PROVE LinksUnique' /\ KeysUnique' /\ Kept
  <2>1. KeysUnique' /\ Kept
    BY <1>3, WithoutKeeps DEF AdminDel, LiveInv
  <2>2. QED BY <1>3, <2>1 DEF AdminDel, LiveInv, LinksUnique
<1>4. ASSUME NEW i \in Indexes, NEW n \in Names, AdminRename(i, n) PROVE FALSE
  BY <1>4 DEF AdminRename, AdminActs, Contained
<1>5. ASSUME NEW i \in Indexes, Unplug(i) PROVE LinksUnique' /\ KeysUnique' /\ Kept
  <2>1. \A j \in Indexes : links'[j] = IF j = i THEN Gone ELSE links[j]
    BY <1>5 DEF Unplug, TypeInv, TypeOK
  <2>2. LinksUnique'
    BY <2>1, ConstantsAssumption DEF LiveInv, LinksUnique
  <2>3. QED BY <1>5, <2>1, <2>2 DEF Unplug, LiveInv, KeysUnique, TypeInv, TypeOK, Address
<1>6. ASSUME NEW i \in Indexes, NEW n \in Names, Plug(i, n)
      PROVE  LinksUnique' /\ KeysUnique' /\ Kept
  <2>1. \A j \in Indexes : links'[j] = IF j = i THEN n ELSE links[j]
    BY <1>6 DEF Plug, TypeInv, TypeOK
  <2>2. LinksUnique'
    BY <1>6, <2>1 DEF Plug, Named, LiveInv, LinksUnique
  <2>3. KeysUnique'
    BY <1>6 DEF Plug, LiveInv, KeysUnique
  <2>4. ASSUME NEW b \in addrs', b.by # 0 PROVE links'[b.index] = links[b.index] /\ b \in addrs
    <3>1. b \in addrs /\ links[b.index] \in Names
      BY <1>6, <2>4 DEF Plug, LiveInv, Placed, TypeInv, TypeOK, Entry
    <3>2. b.index \in Indexes /\ b.index # i
      BY <1>6, <3>1, ConstantsAssumption DEF Plug, TypeInv, TypeOK, Address
    <3>3. QED BY <2>1, <3>1, <3>2
  <2>5. QED BY <2>2, <2>3, <2>4
<1>7. LinksUnique' /\ KeysUnique' /\ Kept
  BY <1>2, <1>3, <1>4, <1>5, <1>6 DEF Admin
<1>8. QED BY <1>1, <1>7, FewerLive

LEMMA AddLive ==
  ASSUME TypeInv, FileInv, LiveInv, NEW p \in Procs, AddStep(p) PROVE LiveInv'
<1> USE DEF Goto
<1>1. CASE AddCheck(p)
  <2>1. CallInv(p)'
    BY <1>1, IdleCall DEF AddCheck, IdleSteps, TypeInv, TypeOK
  <2>2. QED BY <1>1, <2>1, QuietLive DEF AddCheck, TypeInv, TypeOK
<1>2. CASE AddSave(p)
  <2>1. snap[p] = session /\ session' = session \cup {ent[p]}
    BY <1>2 DEF AddSave, FileInv, Loaded
  <2>2. Placed'
    BY <1>2, <2>1 DEF AddSave, LiveInv, Placed
  <2>3. NotLive(ent[p].stamp)
    <3>1. ent[p].stamp # 0 /\ \A x \in session : x.stamp # ent[p].stamp
      BY <1>2, <2>1 DEF AddSave, FileInv, Newest, TypeInv, TypeOK, EntryKnown, Entry
    <3>2. QED BY <3>1 DEF NotLive, LiveInv, Placed
  <2>4. CallInv(p)'
    BY <1>2, <2>3 DEF AddSave, CallInv, NotYet, RemGone, OwnRecorded, OwnDumped, OwnGone,
                      NotLive, TypeInv, TypeOK
  <2>5. QED BY <1>2, <2>2, <2>4, SaveLive DEF AddSave, TypeInv, TypeOK
<1>3. CASE AddRun(p) \/ AddFailed(p)
  <2>1. NotLive(ent[p].stamp)
    BY <1>3 DEF AddRun, AddFailed, LiveInv, CallInv, NotYet
  <2>2. CallInv(p)'
    BY <1>3, <2>1 DEF AddRun, AddFailed, StartIP, Advance, CallInv, NotYet, RemGone, OwnRecorded,
                      OwnDumped, OwnGone, NotLive, TypeInv, TypeOK
  <2>3. QED
    BY <1>3, <2>2, QuietLive DEF AddRun, AddFailed, StartIP, Advance, TypeInv, TypeOK
<1>4. CASE AddUndo(p)
  <2>1. session = snap[p] \cup {ent[p]} /\ session' = snap[p] /\ NotLive(ent[p].stamp)
    BY <1>4 DEF AddUndo, FileInv, Appended, LiveInv, CallInv, NotYet
  <2>2. Placed'
    BY <1>4, <2>1 DEF AddUndo, LiveInv, Placed, NotLive
  <2>3. CallInv(p)'
    BY <1>4, IdleCall DEF AddUndo, Return, IdleSteps, TypeInv, TypeOK
  <2>4. QED BY <1>4, <2>2, <2>3, SaveLive DEF AddUndo, Return, TypeInv, TypeOK
<1>5. CASE AddDone(p) \/ AddRefused(p) \/ AddSaveFails(p) \/ AddUnknown(p) \/ AddUndoFails(p)
  BY <1>5, ReturnLive DEF AddDone, AddRefused, AddSaveFails, AddUnknown, AddUndoFails, Refuse
<1>6. QED BY <1>1, <1>2, <1>3, <1>4, <1>5 DEF AddStep

\* Dropping an entry whose address is not configured.
LEMMA ForgetLive ==
  ASSUME TypeInv, FileInv, LiveInv, NEW p \in Procs, pc[p] \in Critical,
         NEW e \in session, NotLive(e.stamp), session' = session \ {e},
         Return(p), UNCHANGED <<links, addrs, orphans>>
  PROVE  LiveInv'
<1>1. Placed'
  BY DEF LiveInv, Placed, NotLive
<1>2. CallInv(p)'
  BY IdleCall DEF Return, Goto, IdleSteps, TypeInv, TypeOK
<1>3. QED BY <1>1, <1>2, SaveLive DEF Return, Goto, TypeInv, TypeOK

LEMMA RemLive ==
  ASSUME Contained, TypeInv, FileInv, LiveInv, NEW p \in Procs, RemStep(p) PROVE LiveInv'
<1> USE DEF Goto
<1>1. ASSUME NEW step \in IdleSteps, Advance(p, step),
             \A q \in Procs \ {p} : snap'[q] = snap[q] /\ seen'[q] = seen[q] /\ child'[q] = child[q]
      PROVE  LiveInv'
  <2>1. CallInv(p)'
    BY <1>1, IdleCall DEF Advance, TypeInv, TypeOK
  <2>2. QED BY <1>1, <2>1, QuietLive DEF Advance, TypeInv, TypeOK
<1>2. CASE RemCheck(p)
  BY <1>1, <1>2 DEF RemCheck, IdleSteps, TypeInv, TypeOK
<1>3. CASE RemPresent(p) /\ Advance(p, "rem_run")
  BY <1>1, <1>3 DEF RemPresent, IdleSteps
<1>4. ASSUME Advance(p, "rem_save"), UNCHANGED <<snap, seen, child>>, pc[p] \in Removing,
             NotLive(Dropped(p).stamp)
      PROVE  LiveInv'
  <2>1. Dropped(p)' = Dropped(p)
    BY <1>4 DEF Advance, Dropped, Latest, Matches
  <2>2. CallInv(p)'
    BY <1>4, <2>1 DEF Advance, CallInv, NotYet, RemGone, OwnRecorded, OwnDumped, OwnGone,
                      NotLive, TypeInv, TypeOK
  <2>3. QED BY <1>4, <2>2, QuietLive DEF Advance, TypeInv, TypeOK
<1>5. CASE RemPresent(p) /\ ~Present(ent[p]) /\ Advance(p, "rem_save")
  <2>1. NotLive(Dropped(p).stamp)
    BY <1>5, DroppedRecorded, WhereLive DEF RemPresent, Present, NotLive
  <2>2. QED BY <1>4, <1>5, <2>1 DEF RemPresent
<1>6. CASE RemPresent(p)
  BY <1>3, <1>5, <1>6 DEF RemPresent, Contained
<1>7. CASE RemRun(p)
  <2>1. CallInv(p)'
    BY <1>7 DEF RemRun, StartIP, Advance, CallInv, NotYet, RemGone, OwnRecorded, OwnDumped, OwnGone,
                NotLive, TypeInv, TypeOK
  <2>2. QED BY <1>7, <2>1, QuietLive DEF RemRun, StartIP, Advance, TypeInv, TypeOK
<1>8. CASE RemDone(p)
  BY <1>4, <1>8 DEF RemDone, LiveInv, CallInv, RemGone
<1>9. CASE RemSave(p)
  <2>1. NotLive(Dropped(p).stamp) /\ snap[p] = session /\ Dropped(p) \in session
    BY <1>9, DroppedRecorded DEF RemSave, LiveInv, CallInv, RemGone, FileInv, Loaded
  <2>2. QED BY <1>9, <2>1, ForgetLive DEF RemSave
<1>10. CASE RemRefused(p) \/ RemFails(p) \/ RemSaveFails(p)
  BY <1>10, ReturnLive DEF RemRefused, RemFails, RemSaveFails, Refuse
<1>11. QED BY <1>2, <1>6, <1>7, <1>8, <1>9, <1>10 DEF RemStep

LEMMA OwnLive ==
  ASSUME TypeInv, FileInv, LiveInv, NEW p \in Procs, OwnStep(p) PROVE LiveInv'
<1> USE DEF Goto
<1>1. ASSUME NEW step \in IdleSteps, Advance(p, step),
             \A q \in Procs \ {p} : snap'[q] = snap[q] /\ seen'[q] = seen[q] /\ child'[q] = child[q]
      PROVE  LiveInv'
  <2>1. CallInv(p)'
    BY <1>1, IdleCall DEF Advance, TypeInv, TypeOK
  <2>2. QED BY <1>1, <2>1, QuietLive DEF Advance, TypeInv, TypeOK
\* A recorded address is on the entry's own index, or the link differs.
<1>2. ASSUME pc[p] \in {"own_link", "own_dump", "own_relink"}, ent[p] \in session,
             ~LinkDiffers(ent[p]), NEW a \in addrs, a.by = ent[p].stamp
      PROVE  a.index = ent[p].index /\ LinkLive(ent[p]) /\ a.prefix = ent[p].prefix
  <2>1. links[a.index] = ent[p].name /\ a.prefix = ent[p].prefix
    BY <1>2, WhereLive
  <2>2. a.index \in Indexes /\ ent[p].name \in Names
    BY <1>2 DEF TypeInv, TypeOK, Address, Entry
  <2>3. a.index = ent[p].index
    BY <1>2, <2>1, <2>2 DEF LinkDiffers
  <2>4. QED BY <2>1, <2>3 DEF LinkLive
<1>3. ASSUME pc[p] \in {"own_link", "own_relink"}, OwnAbsent(p),
             ent[p] \in session => NotLive(ent[p].stamp)
      PROVE  LiveInv'
  <2>1. CASE ent[p] \in snap[p] /\ Advance(p, "own_save") /\ UNCHANGED <<snap, seen, child>>
    <3>1. ent[p] \in session
      BY <1>3, <2>1 DEF FileInv, Loaded, Unsaved
    <3>2. CallInv(p)'
      BY <1>3, <2>1, <3>1 DEF Advance, CallInv, NotYet, RemGone, OwnRecorded, OwnDumped, OwnGone,
                              NotLive, TypeInv, TypeOK
    <3>3. QED BY <2>1, <3>2, QuietLive DEF Advance, TypeInv, TypeOK
  <2>2. CASE ~(ent[p] \in snap[p] /\ Advance(p, "own_save") /\ UNCHANGED <<snap, seen, child>>)
    <3>1. Return(p) /\ UNCHANGED <<list, session, clock, kernel, orphans, moves>>
      BY <1>3, <2>2 DEF OwnAbsent
    <3>2. QED BY <3>1, ReturnLive
  <2>3. QED BY <2>1, <2>2
<1>4. CASE OwnCheck(p)
  BY <1>1, <1>4 DEF OwnCheck, IdleSteps, TypeInv, TypeOK
<1>5. CASE OwnLink(p)
  <2>1. CASE Advance(p, "own_dump") /\ UNCHANGED <<snap, seen, child>>
    BY <1>1, <2>1 DEF IdleSteps
  <2>2. CASE ~LinkLive(ent[p]) /\ OwnAbsent(p)
    <3>1. ent[p] \in session => NotLive(ent[p].stamp)
      BY <1>2, <1>5, <2>2 DEF OwnLink, NotLive
    <3>2. QED BY <1>3, <1>5, <2>2, <3>1 DEF OwnLink
  <2>3. QED BY <1>5, <2>1, <2>2 DEF OwnLink
<1>6. CASE OwnDump(p)
  <2>1. /\ pc'[p] = "own_relink" /\ seen'[p] = (Same(ent[p]) # {})
        /\ UNCHANGED <<ent, session, addrs, snap, child>>
    BY <1>6 DEF OwnDump, Advance, TypeInv, TypeOK
  <2>2. ASSUME Same(ent[p]) = {}, ent[p] \in session, NEW a \in addrs, a.by = ent[p].stamp
        PROVE  a.index # ent[p].index
    <3>1. a.prefix = ent[p].prefix
      BY <2>2, WhereLive
    <3>2. QED BY <2>2, <3>1 DEF Same
  <2>3. CallInv(p)'
    BY <2>1, <2>2 DEF CallInv, NotYet, RemGone, OwnRecorded, OwnDumped, OwnGone
  <2>4. QED BY <1>6, <2>3, QuietLive DEF OwnDump, Advance, TypeInv, TypeOK
<1>7. CASE OwnRelink(p)
  <2>1. CASE OwnPresent(p)
    <3>1. ent[p] \in session
      BY <1>7, <2>1 DEF OwnRelink, OwnPresent, FileInv, Loaded, Unsaved
    <3>2. CallInv(p)'
      BY <1>7, <2>1, <3>1 DEF OwnPresent, OwnRelink, Advance, CallInv, NotYet, RemGone,
                              OwnRecorded, OwnDumped, OwnGone, TypeInv, TypeOK, ChildWaited
    <3>3. QED BY <2>1, <3>2, QuietLive DEF OwnPresent, Advance, TypeInv, TypeOK
  <2>2. CASE ~(seen[p] /\ LinkLive(ent[p])) /\ OwnAbsent(p)
    <3>1. ent[p] \in session => NotLive(ent[p].stamp)
      BY <1>2, <1>7, <2>2 DEF OwnRelink, NotLive, LiveInv, CallInv, OwnDumped
    <3>2. QED BY <1>3, <1>7, <2>2, <3>1 DEF OwnRelink
  <2>3. QED BY <1>7, <2>1, <2>2 DEF OwnRelink
<1>8. CASE OwnRun(p)
  <2>1. CallInv(p)'
    BY <1>8 DEF OwnRun, StartIP, Advance, LiveInv, CallInv, NotYet, RemGone, OwnRecorded, OwnDumped,
                OwnGone, TypeInv, TypeOK
  <2>2. QED BY <1>8, <2>1, QuietLive DEF OwnRun, StartIP, Advance, TypeInv, TypeOK
<1>9. CASE OwnDone(p)
  <2>1. CallInv(p)'
    BY <1>9 DEF OwnDone, Advance, LiveInv, CallInv, NotYet, RemGone, OwnRecorded, OwnDumped,
                OwnGone, NotLive, TypeInv, TypeOK
  <2>2. QED BY <1>9, <2>1, QuietLive DEF OwnDone, Advance, TypeInv, TypeOK
<1>10. CASE OwnSave(p)
  <2>1. ent[p] \in session /\ NotLive(ent[p].stamp) /\ snap[p] = session
    BY <1>10 DEF OwnSave, LiveInv, CallInv, OwnRecorded, OwnGone, FileInv, Loaded, Unsaved
  <2>2. QED BY <1>10, <2>1, ForgetLive DEF OwnSave
<1>11. CASE OwnRefused(p) \/ OwnFails(p) \/ OwnSaveFails(p)
  BY <1>11, ReturnLive DEF OwnRefused, OwnFails, OwnSaveFails, Refuse
<1>12. QED BY <1>4, <1>5, <1>6, <1>7, <1>8, <1>9, <1>10, <1>11 DEF OwnStep

LEMMA BeginLive ==
  ASSUME TypeInv, LiveInv, NEW p \in Procs, Begin(p) PROVE LiveInv'
<1>1. /\ UNCHANGED <<snap, seen, child, session, links, addrs, orphans>>
      /\ \A q \in Procs \ {p} : pc'[q] = pc[q] /\ ent'[q] = ent[q]
      /\ pc'[p] \in IdleSteps
  BY DEF Begin, StartAdd, DisconnectLoad, StartRemove, StartRemoveOwned, Start, Goto, call,
         IdleSteps, TypeInv, TypeOK
<1>2. CallInv(p)'
  BY <1>1, IdleCall
<1>3. QED BY <1>1, <1>2, QuietLive

LEMMA NextLiveInv ==
  ASSUME Contained, TypeInv, FileInv, LiveInv, [Next]_vars PROVE LiveInv'
<1>1. ASSUME NEW p \in Procs, Acquire(p) PROVE LiveInv'
  <2>1. pc'[p] \in {"add_check", "rem_check", "own_check"}
    BY <1>1 DEF Acquire, Goto, TypeInv, TypeOK
  <2>2. CallInv(p)'
    BY <2>1, IdleCall DEF IdleSteps
  <2>3. QED BY <1>1, <2>2, QuietLive DEF Acquire, Goto, TypeInv, TypeOK
<1>2. ASSUME NEW p \in Procs, Cancel(p) PROVE LiveInv'
  <2>1. UNCHANGED <<pc, ent, snap, seen, child, session, links, addrs, orphans>>
    BY <1>2 DEF Cancel
  <2>2. CallInv(p)'
    BY <2>1 DEF LiveInv, CallInv, NotYet, RemGone, OwnRecorded, OwnDumped, OwnGone, NotLive,
                Dropped, Latest, Matches
  <2>3. QED BY <2>1, <2>2, QuietLive
<1>3. ASSUME NEW p \in Procs, Exit(p) PROVE LiveInv'
  <2>1. UNCHANGED <<session, links, addrs, orphans>>
    BY <1>3 DEF Exit, Contained
  <2>2. QED BY <1>3, <2>1, ReturnLive DEF Exit
<1>4. CASE UNCHANGED vars
  <2>1. UNCHANGED <<pc, ent, snap, seen, child, session, links, addrs, orphans>>
    BY <1>4 DEF vars, call
  <2>2. QED
    BY <2>1 DEF LiveInv, LinksUnique, KeysUnique, Placed, CallInv, NotYet, RemGone, OwnRecorded,
                OwnDumped, OwnGone, NotLive, Dropped, Latest, Matches
<1>5. ASSUME NEW p \in Procs, CallStep(p) PROVE LiveInv'
  BY <1>1, <1>5, AddLive, RemLive, OwnLive, ReturnLive DEF CallStep, LockFails, Refuse
<1>6. ASSUME NEW o \in orphans, OrphanEnds(o) PROVE FALSE
  BY <1>6 DEF LiveInv
<1>7. QED
  BY <1>2, <1>3, <1>4, <1>5, <1>6, BeginLive, ChildLive, AdminLive DEF Next

LEMMA LiveInvariant ==
  ASSUME Contained PROVE Spec => [](TypeInv /\ FileInv /\ LiveInv)
<1>1. Contained
  OBVIOUS
<1>2. Init => LiveInv
  BY InitLiveInv
<1>3. Contained /\ TypeInv /\ FileInv /\ LiveInv /\ [Next]_vars => LiveInv'
  BY NextLiveInv
<1>4. TypeInv /\ FileInv /\ LiveInv /\ [Next]_vars => LiveInv'
  BY <1>1, <1>3
<1>5. QED BY <1>2, <1>4, FileInvariant, PTL DEF Spec

\* On a contained host every address wirepup applied and that is still
\* configured is in the session file, whatever is interrupted, refused,
\* cancelled or unplugged.
THEOREM NeverUnrecorded ==
  ASSUME Contained PROVE Spec => []LiveIsRecorded
<1>1. LiveInv => LiveIsRecorded
  BY DEF LiveInv, Placed, LiveIsRecorded
<1>2. QED BY <1>1, LiveInvariant, PTL

-----------------------------------------------------------------------------
(* The refinement: each step of the manager is a step of the ledger or     *)
(* changes neither the file nor the set of live stamps.                    *)

\* Addresses of wirepup's that a step leaves were there before.
NoneNew == \A b \in addrs' : b.by # 0 => \E c \in addrs : c.by = b.by

LEMMA VanishStep ==
  ASSUME UNCHANGED session, NoneNew PROVE Ledger!Next
BY DEF NoneNew, LiveStamps, Ledger!Next, Ledger!Vanish

LEMMA ForgetStep ==
  ASSUME TypeInv, NEW e \in session, NotLive(e.stamp), session' = session \ {e}, UNCHANGED addrs
  PROVE  Ledger!Next
<1>1. e.stamp \notin LiveStamps /\ UNCHANGED LiveStamps
  BY DEF NotLive, LiveStamps
<1>2. e \in Entry
  BY DEF TypeInv, TypeOK
<1>3. QED BY <1>1, <1>2 DEF Ledger!Next, Ledger!Forget

LEMMA RecordSteps ==
  ASSUME TypeInv, FileInv, LiveInv, NEW p \in Procs, AddStep(p)
  PROVE  [Ledger!Next]_(Ledger!vars)
<1>1. CASE AddSave(p)
  <2>1. session' = session \cup {ent[p]} /\ UNCHANGED addrs /\ ent[p] \in Entry
    BY <1>1 DEF AddSave, FileInv, Loaded, TypeInv, EntryKnown
  <2>2. \A x \in session : x.stamp < ent[p].stamp
    BY <1>1 DEF AddSave, FileInv, Loaded, Newest
  <2>3. ent[p].stamp \notin LiveStamps
    <3>1. \A x \in session : x.stamp # ent[p].stamp
      BY <2>1, <2>2 DEF TypeInv, TypeOK, Entry
    <3>2. QED BY <3>1 DEF LiveStamps, LiveInv, Placed
  <2>4. UNCHANGED LiveStamps
    BY <2>1 DEF LiveStamps
  <2>5. QED BY <2>1, <2>2, <2>3, <2>4 DEF Ledger!Next, Ledger!Record
<1>2. CASE AddUndo(p)
  <2>1. session = snap[p] \cup {ent[p]} /\ session' = snap[p] /\ UNCHANGED addrs
    BY <1>2 DEF AddUndo, FileInv, Appended
  <2>2. NotLive(ent[p].stamp) /\ session' = session \ {ent[p]}
    <3>1. \A x \in snap[p] : x # ent[p]
      BY <1>2 DEF AddUndo, FileInv, Newest, TypeInv, TypeOK, EntryKnown, Entry
    <3>2. QED BY <1>2, <2>1, <3>1 DEF AddUndo, LiveInv, CallInv, NotYet
  <2>3. QED BY <2>1, <2>2, ForgetStep
<1>3. CASE ~AddSave(p) /\ ~AddUndo(p)
  <2>1. UNCHANGED <<session, addrs>>
    BY <1>3 DEF AddStep, AddRefused, AddCheck, AddSaveFails, AddRun, AddFailed, AddUnknown, AddDone,
                AddUndoFails, Refuse, StartIP, Advance
  <2>2. QED BY <2>1 DEF Ledger!vars, LiveStamps
<1>4. QED BY <1>1, <1>2, <1>3

LEMMA RemoveSteps ==
  ASSUME TypeInv, FileInv, LiveInv, NEW p \in Procs, RemStep(p) \/ OwnStep(p)
  PROVE  [Ledger!Next]_(Ledger!vars)
<1>1. CASE RemSave(p)
  <2>1. NotLive(Dropped(p).stamp) /\ snap[p] = session /\ Dropped(p) \in session
    BY <1>1, DroppedRecorded DEF RemSave, LiveInv, CallInv, RemGone, FileInv, Loaded
  <2>2. QED BY <1>1, <2>1, ForgetStep DEF RemSave
<1>2. CASE OwnSave(p)
  <2>1. ent[p] \in session /\ NotLive(ent[p].stamp) /\ snap[p] = session
    BY <1>2 DEF OwnSave, LiveInv, CallInv, OwnRecorded, OwnGone, FileInv, Loaded
  <2>2. QED BY <1>2, <2>1, ForgetStep DEF OwnSave
<1>3. CASE ~RemSave(p) /\ ~OwnSave(p)
  <2>1. UNCHANGED <<session, addrs>>
    BY <1>3 DEF RemStep, RemRefused, RemCheck, RemPresent, RemRun, RemFails, RemDone, RemSaveFails,
                OwnStep, OwnRefused, OwnCheck, OwnLink, OwnDump, OwnRelink, OwnRun, OwnFails, OwnDone,
                OwnSaveFails, OwnAbsent, OwnPresent, Refuse, StartIP, Advance
  <2>2. QED BY <2>1 DEF Ledger!vars, LiveStamps
<1>4. QED BY <1>1, <1>2, <1>3

LEMMA ChildSteps ==
  ASSUME TypeInv, FileInv, LiveInv, NEW p \in Procs, ChildStep(p)
  PROVE  [Ledger!Next]_(Ledger!vars)
<1>1. CASE ChildOK(p) /\ pc[p] = "add_wait"
  <2>1. ent[p] \in session /\ ent[p] \in Entry /\ UNCHANGED session
    BY <1>1 DEF ChildOK, ChildEnds, FileInv, Appended, TypeInv, EntryKnown
  <2>2. PICK n : addrs' = addrs \cup {n} /\ n.by = ent[p].stamp
    <3>1. PICK i \in Indexes : addrs' = addrs \cup {NewAddress(i, ent[p].prefix, ent[p].label, ent[p].stamp)}
      BY <1>1 DEF ChildOK, IpAdd, Named
    <3> DEFINE n == NewAddress(i, ent[p].prefix, ent[p].label, ent[p].stamp)
    <3>2. addrs' = addrs \cup {n} /\ n.by = ent[p].stamp
      BY <3>1 DEF NewAddress
    <3> HIDE DEF n
    <3>3. QED BY <3>2
  <2>3. ent[p].stamp # 0
    BY <2>1 DEF Entry
  <2>4. LiveStamps' = LiveStamps \cup {ent[p].stamp}
    BY <2>2, <2>3 DEF LiveStamps
  <2>5. QED BY <2>1, <2>4 DEF Ledger!Next, Ledger!Apply
<1>2. CASE ChildOK(p) /\ pc[p] # "add_wait"
  <2>1. PICK a \in addrs : addrs' \in Without(a)
    BY <1>2 DEF ChildOK, IpDel
  <2>2. NoneNew
    BY <2>1, WithoutKeeps DEF LiveInv, NoneNew
  <2>3. QED BY <1>2, <2>2, VanishStep DEF ChildOK, ChildEnds
<1>3. CASE ChildFails(p) \/ ChildKilled(p)
  BY <1>3 DEF ChildFails, ChildKilled, ChildEnds, Ledger!vars, LiveStamps
<1>4. QED BY <1>1, <1>2, <1>3 DEF ChildStep

LEMMA AdminSteps ==
  ASSUME TypeInv, LiveInv, Admin PROVE Ledger!Next
<1>1. UNCHANGED session
  BY DEF Admin, AdminAdd, AdminDel, AdminRename, Unplug, Plug, AdminActs
<1>2. ASSUME NEW i, NEW x, NEW l, AdminAdd(i, x, l) PROVE NoneNew
  <2> DEFINE n == NewAddress(i, x, l, 0)
  <2>1. addrs' = addrs \cup {n} /\ n.by = 0
    BY <1>2 DEF AdminAdd, NewAddress
  <2> HIDE DEF n
  <2>2. QED BY <2>1 DEF NoneNew
<1>3. ASSUME NEW a \in addrs, AdminDel(a) PROVE NoneNew
  BY <1>3, WithoutKeeps DEF AdminDel, LiveInv, NoneNew
<1>4. ASSUME NEW i, Unplug(i) PROVE NoneNew
  BY <1>4 DEF Unplug, NoneNew
<1>5. ASSUME NEW i, NEW n, AdminRename(i, n) \/ Plug(i, n) PROVE NoneNew
  BY <1>5 DEF AdminRename, Plug, NoneNew
<1>6. NoneNew
  BY <1>2, <1>3, <1>4, <1>5 DEF Admin
<1>7. QED BY <1>1, <1>6, VanishStep

LEMMA NextSteps ==
  ASSUME TypeInv, FileInv, LiveInv, [Next]_vars PROVE [Ledger!Next]_(Ledger!vars)
<1>1. ASSUME UNCHANGED <<session, addrs>> PROVE [Ledger!Next]_(Ledger!vars)
  BY <1>1 DEF Ledger!vars, LiveStamps
<1>2. CASE UNCHANGED vars
  BY <1>1, <1>2 DEF vars
<1>3. ASSUME NEW p \in Procs, Begin(p) \/ Acquire(p) \/ LockFails(p) \/ Cancel(p) \/ Exit(p)
      PROVE  UNCHANGED <<session, addrs>>
  BY <1>3 DEF Begin, StartAdd, DisconnectLoad, StartRemove, StartRemoveOwned, Start, Acquire,
              LockFails, Refuse, Cancel, Exit
<1>4. ASSUME NEW o \in orphans, OrphanEnds(o) PROVE FALSE
  BY <1>4 DEF LiveInv
<1>5. QED
  BY <1>1, <1>2, <1>3, <1>4, RecordSteps, RemoveSteps, ChildSteps, AdminSteps DEF Next, CallStep

\* On a contained host the session file and the configured addresses follow
\* the ledger: an entry is recorded before its address is configured and
\* dropped when it is not configured, and whole-file saves by any number of
\* processes change one entry at a time.
THEOREM FollowsLedger ==
  ASSUME Contained PROVE Spec => LedgerSpec
<1>1. Init => Ledger!Init
  BY DEF Init, Ledger!Init, LiveStamps
<1>2. TypeInv /\ FileInv /\ LiveInv /\ [Next]_vars => [Ledger!Next]_(Ledger!vars)
  BY NextSteps
<1>3. QED BY <1>1, <1>2, LiveInvariant, PTL DEF Spec, LedgerSpec, Ledger!Spec

-----------------------------------------------------------------------------
(* The kernel's side: names and keys are unique, addresses sit on          *)
(* interfaces that exist.                                                  *)

Carried == \A a \in addrs : links[a.index] \in Names

KernelInv == LinksUnique /\ KeysUnique /\ Carried

LEMMA InitKernelInv == Init => KernelInv
BY ConstantsAssumption DEF Init, KernelInv, LinksUnique, KeysUnique, Carried

\* Where an address of the next state comes from.
Kept(b) == \E c \in addrs : c.index = b.index /\ c.prefix = b.prefix /\ c.by = b.by

LEMMA DelKernel ==
  ASSUME TypeInv, KernelInv, NEW a \in addrs, addrs' \in Without(a), UNCHANGED links
  PROVE  KernelInv' /\ \A b \in addrs' : Kept(b)
<1>1. KeysUnique' /\ \A b \in addrs' : Kept(b)
  BY WithoutKeeps DEF KernelInv, Kept
<1>2. LinksUnique' /\ Carried'
  BY <1>1 DEF KernelInv, LinksUnique, Carried, Kept
<1>3. QED BY <1>1, <1>2 DEF KernelInv

LEMMA AddKernel ==
  ASSUME TypeInv, KernelInv, NEW i \in Indexes, NEW x \in Prefixes, NEW l, NEW by,
         links[i] \in Names, Free(i, x),
         addrs' = addrs \cup {NewAddress(i, x, l, by)}, UNCHANGED links
  PROVE  /\ KernelInv'
         /\ \A b \in addrs' : Kept(b) \/ (b.index = i /\ b.prefix = x /\ b.by = by)
<1> DEFINE n == NewAddress(i, x, l, by)
<1>1. n.index = i /\ n.prefix = x /\ n.by = by
  BY DEF NewAddress
<1>2. addrs' = addrs \cup {n}
  OBVIOUS
<1> HIDE DEF n
<1>3. QED BY <1>1, <1>2 DEF Free, KernelInv, LinksUnique, KeysUnique, Carried, Kept

LEMMA IpKernel ==
  ASSUME TypeInv, KernelInv, NEW e \in Entry, IpAdd(e) \/ IpDel(e), UNCHANGED links
  PROVE  /\ KernelInv'
         /\ \A b \in addrs' : Kept(b) \/ (/\ IpAdd(e)
                                          /\ links[b.index] = e.name /\ b.prefix = e.prefix
                                          /\ b.by = e.stamp)
<1>1. CASE IpAdd(e)
  <2>1. PICK i \in Indexes : links[i] = e.name /\ Free(i, e.prefix)
             /\ addrs' = addrs \cup {NewAddress(i, e.prefix, e.label, e.stamp)}
    BY <1>1 DEF IpAdd, Named
  <2>2. links[i] \in Names /\ e.prefix \in Prefixes
    BY <2>1 DEF Entry
  <2>3. QED BY <1>1, <2>1, <2>2, AddKernel
<1>2. CASE IpDel(e)
  BY <1>2, DelKernel DEF IpDel
<1>3. QED BY <1>1, <1>2

\* The administrator and the hardware: addresses go, or come without an entry.
LEMMA AdminKernel ==
  ASSUME TypeInv, KernelInv, Admin
  PROVE  KernelInv' /\ \A b \in addrs' : Kept(b) \/ b.by = 0
<1>1. ASSUME NEW i \in Indexes, NEW x \in Prefixes, NEW l \in Labels, AdminAdd(i, x, l)
      PROVE  KernelInv' /\ \A b \in addrs' : Kept(b) \/ b.by = 0
  BY <1>1, AddKernel DEF AdminAdd
<1>2. ASSUME NEW a \in addrs, AdminDel(a)
      PROVE  KernelInv' /\ \A b \in addrs' : Kept(b)
  BY <1>2, DelKernel DEF AdminDel
<1>3. ASSUME UNCHANGED addrs PROVE \A b \in addrs' : Kept(b)
  BY <1>3 DEF Kept
<1>4. ASSUME NEW i \in Indexes, NEW n \in Names,
             links[i] \in Names \/ links[i] = Unborn, Named(n) = {},
             links' = [links EXCEPT ![i] = n], UNCHANGED addrs
      PROVE  KernelInv'
  <2>1. \A j \in Indexes : links'[j] = IF j = i THEN n ELSE links[j]
    BY <1>4 DEF TypeInv, TypeOK
  <2>2. LinksUnique'
    BY <1>4, <2>1 DEF Named, KernelInv, LinksUnique
  <2>3. Carried' /\ KeysUnique'
    BY <1>4, <2>1 DEF KernelInv, Carried, KeysUnique, TypeInv, TypeOK, Address
  <2>4. QED BY <2>2, <2>3 DEF KernelInv
<1>5. ASSUME NEW i \in Indexes, Unplug(i)
      PROVE  KernelInv' /\ \A b \in addrs' : Kept(b)
  <2>1. \A j \in Indexes : links'[j] = IF j = i THEN Gone ELSE links[j]
    BY <1>5 DEF Unplug, TypeInv, TypeOK
  <2>2. LinksUnique'
    BY <2>1, ConstantsAssumption DEF KernelInv, LinksUnique
  <2>3. addrs' = {a \in addrs : a.index # i}
    BY <1>5 DEF Unplug
  <2>4. KeysUnique' /\ \A b \in addrs' : Kept(b)
    BY <2>3 DEF KernelInv, KeysUnique, Kept
  <2>5. Carried'
    BY <2>1, <2>3 DEF KernelInv, Carried, TypeInv, TypeOK, Address
  <2>6. QED BY <2>2, <2>4, <2>5 DEF KernelInv
<1>6. ASSUME NEW i \in Indexes, NEW n \in Names, AdminRename(i, n) \/ Plug(i, n)
      PROVE  KernelInv' /\ \A b \in addrs' : Kept(b)
  BY <1>3, <1>4, <1>6 DEF AdminRename, Plug
<1>7. QED BY <1>1, <1>2, <1>5, <1>6 DEF Admin

-----------------------------------------------------------------------------
(* Stamps tell the adds apart: one that may still be applied is nobody's   *)
(* confirmed entry.                                                        *)

Adding(p) == pc[p] \in {"add_save", "add_run", "add_wait"}

AddOrphans == {o \in orphans : o.kind = "add"}

StampInv ==
  /\ \A a \in addrs : a.by <= clock
  /\ \A o \in AddOrphans : o.entry.stamp <= clock
  /\ \A q \in Procs : \A e \in mine[q] :
        /\ e.stamp <= clock
        /\ \A o \in AddOrphans : o.entry.stamp # e.stamp
  /\ \A p \in Procs : Adding(p) =>
        /\ ent[p].stamp <= clock
        /\ \A o \in AddOrphans : o.entry.stamp # ent[p].stamp
        /\ \A q \in Procs : \A e \in mine[q] : e.stamp # ent[p].stamp

LEMMA InitStampInv == Init => StampInv
BY DEF Init, StampInv, AddOrphans, Adding

LEMMA StampKept ==
  ASSUME TypeInv, StampInv, UNCHANGED clock, orphans' \subseteq orphans,
         \A b \in addrs' : Kept(b) \/ b.by <= clock,
         \A q \in Procs : mine'[q] \subseteq mine[q],
         \A q \in Procs : Adding(q)' => Adding(q) /\ ent'[q] = ent[q]
  PROVE  StampInv'
<1>1. AddOrphans' \subseteq AddOrphans
  BY DEF AddOrphans
<1>2. \A b \in addrs' : b.by <= clock'
  BY DEF StampInv, Kept
<1>3. \A o \in AddOrphans' : o.entry.stamp <= clock'
  BY <1>1 DEF StampInv
<1>4. \A q \in Procs : \A e \in mine'[q] :
         e.stamp <= clock' /\ \A o \in AddOrphans' : o.entry.stamp # e.stamp
  BY <1>1 DEF StampInv
<1>5. ASSUME NEW p \in Procs, Adding(p)'
      PROVE  /\ ent'[p].stamp <= clock'
             /\ \A o \in AddOrphans' : o.entry.stamp # ent'[p].stamp
             /\ \A q \in Procs : \A e \in mine'[q] : e.stamp # ent'[p].stamp
  BY <1>1, <1>5 DEF StampInv
<1>6. QED BY <1>2, <1>3, <1>4, <1>5 DEF StampInv

\* A step of one call that confirms nothing and starts no add.
LEMMA StampQuiet ==
  ASSUME TypeInv, StampInv, NEW p \in Procs, NEW step, Goto(p, step),
         UNCHANGED <<addrs, orphans, clock>>,
         \A q \in Procs : mine'[q] \subseteq mine[q],
         \A q \in Procs \ {p} : ent'[q] = ent[q],
         step \in {"add_save", "add_run", "add_wait"} => Adding(p) /\ ent'[p] = ent[p]
  PROVE  StampInv'
<1>1. \A b \in addrs' : Kept(b)
  BY DEF Kept
<1>2. \A q \in Procs : Adding(q)' => Adding(q) /\ ent'[q] = ent[q]
  BY DEF Adding, Goto, TypeInv, TypeOK
<1>3. QED BY <1>1, <1>2, StampKept

LEMMA StampReturn ==
  ASSUME TypeInv, StampInv, NEW p \in Procs, Return(p),
         UNCHANGED <<addrs, orphans, clock>>,
         \A q \in Procs : mine'[q] \subseteq mine[q]
  PROVE  StampInv'
BY StampQuiet DEF Return, TypeInv, TypeOK

LEMMA AddStamp ==
  ASSUME TypeInv, StampInv, NEW p \in Procs, AddStep(p) PROVE StampInv'
<1>1. CASE AddCheck(p)
  <2>1. /\ clock' = clock + 1 /\ clock \in Nat
        /\ UNCHANGED <<addrs, orphans, mine>>
        /\ ent'[p].stamp = clock + 1
        /\ \A q \in Procs \ {p} : ent'[q] = ent[q] /\ pc'[q] = pc[q]
    BY <1>1, ConstantsAssumption DEF AddCheck, Goto, TypeInv, TypeOK, EntryKnown, Request
  <2>2. \A q \in Procs \ {p} : ~Adding(q)
    BY <1>1 DEF AddCheck, TypeInv, HoldsLock, Adding
  <2>3. \A a \in addrs : a.by \in Nat
    BY ConstantsAssumption DEF TypeInv, TypeOK, Address
  <2>4. \A o \in AddOrphans : o.entry.stamp \in Nat
    BY ConstantsAssumption DEF TypeInv, TypeOK, Orphan, Entry, AddOrphans
  <2>5. \A q \in Procs : \A e \in mine[q] : e.stamp \in Nat
    BY ConstantsAssumption DEF TypeInv, TypeOK, Entry
  <2>6. AddOrphans' = AddOrphans
    BY <2>1 DEF AddOrphans
  <2>7. \A q \in Procs : Adding(q)' => q = p
    BY <2>1, <2>2 DEF Adding
  <2>8. QED BY <2>1, <2>3, <2>4, <2>5, <2>6, <2>7 DEF StampInv
<1>2. CASE AddSave(p) \/ AddRun(p) \/ AddFailed(p)
  <2>1. PICK step \in {"add_run", "add_wait", "add_undo"} : Goto(p, step)
    BY <1>2 DEF AddSave, AddRun, AddFailed, StartIP, Advance
  <2>2. UNCHANGED <<addrs, orphans, clock, mine, ent>>
    BY <1>2 DEF AddSave, AddRun, AddFailed, StartIP, Advance
  <2>3. step # "add_undo" => Adding(p)
    BY <1>2, <2>1 DEF AddSave, AddRun, AddFailed, StartIP, Advance, Goto, Adding, TypeInv, TypeOK
  <2>4. QED BY <2>1, <2>2, <2>3, StampQuiet
<1>3. CASE AddDone(p)
  <2>1. /\ UNCHANGED <<clock, addrs, orphans>>
        /\ mine'[p] = mine[p] \cup {ent[p]}
        /\ \A q \in Procs \ {p} : mine'[q] = mine[q] /\ ent'[q] = ent[q] /\ pc'[q] = pc[q]
        /\ pc'[p] = "idle"
    BY <1>3 DEF AddDone, Return, Goto, TypeInv, TypeOK
  <2>2. Adding(p)
    BY <1>3 DEF AddDone, Adding
  <2>3. \A q \in Procs : ~Adding(q)'
    BY <1>3, <2>1 DEF AddDone, TypeInv, HoldsLock, Adding
  <2>4. AddOrphans' = AddOrphans
    BY <2>1 DEF AddOrphans
  <2>5. \A q \in Procs : mine'[q] \subseteq mine[q] \cup {ent[p]}
    BY <2>1
  <2>6. QED BY <2>1, <2>2, <2>3, <2>4, <2>5 DEF StampInv
<1>4. CASE AddUndo(p)
  BY <1>4, StampReturn DEF AddUndo
<1>5. CASE AddRefused(p) \/ AddSaveFails(p) \/ AddUnknown(p) \/ AddUndoFails(p)
  BY <1>5, StampReturn DEF AddRefused, AddSaveFails, AddUnknown, AddUndoFails, Refuse
<1>6. QED BY <1>1, <1>2, <1>3, <1>4, <1>5 DEF AddStep

\* Remove and RemoveOwned.
LEMMA RemoveStamp ==
  ASSUME TypeInv, StampInv, NEW p \in Procs, RemStep(p) \/ OwnStep(p) PROVE StampInv'
<1>1. ASSUME NEW step, step \notin {"add_save", "add_run", "add_wait"}, Advance(p, step)
      PROVE  StampInv'
  BY <1>1, StampQuiet DEF Advance
<1>2. ASSUME Refuse(p) PROVE StampInv'
  BY <1>2, StampReturn DEF Refuse
<1>3. CASE RemStep(p) /\ ~RemSave(p)
  BY <1>1, <1>2, <1>3 DEF RemStep, RemRefused, RemCheck, RemPresent, RemRun, RemFails, RemDone,
                          RemSaveFails, StartIP
<1>4. CASE RemSave(p)
  BY <1>4, StampReturn DEF RemSave
<1>5. ASSUME OwnAbsent(p) PROVE StampInv'
  <2>1. CASE Advance(p, "own_save")
    BY <1>1, <2>1
  <2>2. CASE mine' = [mine EXCEPT ![p] = @ \ {ent[p]}] /\ Return(p)
             /\ UNCHANGED <<list, session, clock, kernel, orphans, moves>>
    BY <2>2, StampReturn DEF TypeInv, TypeOK
  <2>3. QED BY <1>5, <2>1, <2>2 DEF OwnAbsent
<1>6. CASE OwnSave(p)
  BY <1>6, StampReturn DEF OwnSave, TypeInv, TypeOK
<1>7. CASE OwnStep(p) /\ ~OwnSave(p)
  BY <1>1, <1>2, <1>5, <1>7 DEF OwnStep, OwnRefused, OwnCheck, OwnLink, OwnDump, OwnRelink,
        OwnPresent, OwnRun, OwnFails, OwnDone, OwnSaveFails, StartIP
<1>8. QED BY <1>3, <1>4, <1>6, <1>7

\* What a child does to the kernel.
LEMMA ChildKernel ==
  ASSUME TypeInv, KernelInv, NEW p \in Procs, ChildStep(p)
  PROVE  /\ KernelInv'
         /\ \A b \in addrs' : Kept(b) \/ (/\ ChildOK(p) /\ pc[p] = "add_wait"
                                          /\ links[b.index] = ent[p].name
                                          /\ b.prefix = ent[p].prefix
                                          /\ b.by = ent[p].stamp)
<1>1. CASE ChildOK(p)
  <2>1. ent[p] \in Entry /\ UNCHANGED links
    BY <1>1 DEF ChildOK, ChildEnds, TypeInv, EntryKnown, ChildWaited
  <2>2. CASE pc[p] = "add_wait" /\ IpAdd(ent[p])
    BY <1>1, <2>1, <2>2, IpKernel
  <2>3. CASE pc[p] # "add_wait" /\ IpDel(ent[p])
    <3>1. PICK a \in addrs : addrs' \in Without(a)
      BY <2>3 DEF IpDel
    <3>2. QED BY <2>1, <3>1, DelKernel
  <2>4. QED BY <1>1, <2>2, <2>3 DEF ChildOK
<1>2. CASE ChildFails(p) \/ ChildKilled(p)
  BY <1>2 DEF ChildFails, ChildKilled, ChildEnds, KernelInv, LinksUnique, KeysUnique, Carried, Kept
<1>3. QED BY <1>1, <1>2 DEF ChildStep

LEMMA OrphanKernel ==
  ASSUME TypeInv, KernelInv, NEW o \in orphans, OrphanEnds(o)
  PROVE  /\ KernelInv'
         /\ \A b \in addrs' : Kept(b) \/ (o \in AddOrphans /\ b.by = o.entry.stamp)
<1>1. o.entry \in Entry /\ UNCHANGED links
  BY DEF OrphanEnds, TypeInv, TypeOK, Orphan
<1>2. CASE o.kind = "add" /\ IpAdd(o.entry)
  BY <1>1, <1>2, IpKernel DEF AddOrphans
<1>3. CASE o.kind = "del" /\ IpDel(o.entry)
  <2>1. PICK a \in addrs : addrs' \in Without(a)
    BY <1>3 DEF IpDel
  <2>2. QED BY <1>1, <2>1, DelKernel
<1>4. CASE UNCHANGED addrs
  BY <1>1, <1>4 DEF KernelInv, LinksUnique, KeysUnique, Carried, Kept
<1>5. QED BY <1>2, <1>3, <1>4 DEF OrphanEnds

LEMMA NextKernelInv ==
  ASSUME TypeInv, KernelInv, [Next]_vars PROVE KernelInv'
<1>1. ASSUME UNCHANGED kernel PROVE KernelInv'
  BY <1>1 DEF KernelInv, LinksUnique, KeysUnique, Carried
<1>2. ASSUME NEW p \in Procs, Begin(p) \/ CallStep(p) \/ Cancel(p) \/ Exit(p)
      PROVE  UNCHANGED kernel
  <2>1. CASE Begin(p) \/ Cancel(p) \/ Exit(p)
    BY <2>1 DEF Begin, StartAdd, DisconnectLoad, StartRemove, StartRemoveOwned, Start, Cancel, Exit
  <2>2. CASE Acquire(p) \/ LockFails(p) \/ AddStep(p)
    BY <2>2 DEF Acquire, LockFails, Refuse, AddStep, AddRefused, AddCheck, AddSave, AddSaveFails,
                AddRun, AddFailed, AddUnknown, AddDone, AddUndo, AddUndoFails, StartIP, Advance
  <2>3. CASE RemStep(p)
    BY <2>3 DEF RemStep, RemRefused, RemCheck, RemPresent, RemRun, RemFails, RemDone, RemSave,
                RemSaveFails, Refuse, StartIP, Advance
  <2>4. CASE OwnStep(p)
    BY <2>4 DEF OwnStep, OwnRefused, OwnCheck, OwnLink, OwnDump, OwnRelink, OwnRun, OwnFails,
                OwnDone, OwnSave, OwnSaveFails, OwnAbsent, OwnPresent, Refuse, StartIP, Advance
  <2>5. QED BY <1>2, <2>1, <2>2, <2>3, <2>4 DEF CallStep
<1>3. CASE UNCHANGED vars
  BY <1>1, <1>3 DEF vars
<1>4. QED
  BY <1>1, <1>2, <1>3, ChildKernel, OrphanKernel, AdminKernel DEF Next

LEMMA ExitStamp ==
  ASSUME TypeInv, StampInv, NEW p \in Procs, Exit(p) PROVE StampInv'
<1>1. /\ UNCHANGED <<addrs, clock>>
      /\ mine'[p] = {} /\ pc'[p] = "idle"
      /\ \A q \in Procs \ {p} : mine'[q] = mine[q] /\ ent'[q] = ent[q] /\ pc'[q] = pc[q]
  BY DEF Exit, Return, Goto, TypeInv, TypeOK
<1>2. CASE child[p] = "running" /\ pc[p] = "add_wait"
  <2>1. \A q \in Procs : ~Adding(q)'
    BY <1>1, <1>2 DEF TypeInv, HoldsLock, Adding
  <2>2. \A o \in AddOrphans' : o \in AddOrphans \/ o.entry = ent[p]
    BY <1>2 DEF Exit, AddOrphans
  <2>3. Adding(p)
    BY <1>2 DEF Adding
  <2>4. \A q \in Procs : mine'[q] \subseteq mine[q]
    BY <1>1
  <2>5. QED BY <1>1, <2>1, <2>2, <2>3, <2>4 DEF StampInv
<1>3. CASE ~(child[p] = "running" /\ pc[p] = "add_wait")
  <2>1. AddOrphans' = AddOrphans
    BY <1>3 DEF Exit, AddOrphans
  <2>2. \A q \in Procs : Adding(q)' => q # p /\ Adding(q)
    BY <1>1 DEF Adding
  <2>3. \A q \in Procs : mine'[q] \subseteq mine[q]
    BY <1>1
  <2>4. QED BY <1>1, <2>1, <2>2, <2>3 DEF StampInv
<1>4. QED BY <1>2, <1>3

LEMMA NextStampInv ==
  ASSUME TypeInv, KernelInv, StampInv, [Next]_vars PROVE StampInv'
<1>1. ASSUME NEW p \in Procs, Begin(p) \/ Acquire(p) \/ LockFails(p) PROVE StampInv'
  <2>1. ASSUME NEW e, NEW step \in LockSteps, Start(p, e, step) PROVE StampInv'
    BY <2>1, StampQuiet DEF Start, TypeInv, TypeOK
  <2>2. CASE Acquire(p)
    <3>1. PICK step \in {"add_check", "rem_check", "own_check"} : Goto(p, step)
      BY <2>2 DEF Acquire, Goto
    <3>2. QED BY <2>2, <3>1, StampQuiet DEF Acquire
  <2>3. CASE LockFails(p)
    BY <2>3, StampReturn DEF LockFails, Refuse
  <2>4. ASSUME NEW n, NEW ip, DisconnectLoad(p, n, ip) PROVE StampInv'
    BY <2>4, StampKept DEF DisconnectLoad, call, Kept, Adding
  <2>5. QED
    BY <1>1, <2>1, <2>2, <2>3, <2>4 DEF Begin, StartAdd, StartRemove, StartRemoveOwned
<1>2. ASSUME NEW p \in Procs, CallStep(p) PROVE StampInv'
  BY <1>1, <1>2, AddStamp, RemoveStamp DEF CallStep
<1>3. ASSUME NEW p \in Procs, ChildStep(p) PROVE StampInv'
  <2>1. UNCHANGED <<pc, ent, mine, clock, orphans>>
    BY <1>3 DEF ChildStep, ChildOK, ChildFails, ChildKilled, ChildEnds
  <2>2. \A b \in addrs' : Kept(b) \/ b.by <= clock
    BY <1>3, ChildKernel DEF StampInv, Adding
  <2>3. QED BY <2>1, <2>2, StampKept DEF Adding
<1>4. ASSUME NEW p \in Procs, Cancel(p) PROVE StampInv'
  BY <1>4, StampKept DEF Cancel, Kept, Adding
<1>5. ASSUME NEW o \in orphans, OrphanEnds(o) PROVE StampInv'
  <2>1. UNCHANGED <<pc, ent, mine, clock>> /\ orphans' \subseteq orphans
    BY <1>5 DEF OrphanEnds, call
  <2>2. \A b \in addrs' : Kept(b) \/ b.by <= clock
    BY <1>5, OrphanKernel DEF StampInv
  <2>3. QED BY <2>1, <2>2, StampKept DEF Adding
<1>6. CASE Admin
  <2>1. UNCHANGED <<pc, ent, mine, clock, orphans>>
    BY <1>6 DEF Admin, AdminAdd, AdminDel, AdminRename, Unplug, Plug, AdminActs, call
  <2>2. 0 <= clock
    BY ConstantsAssumption DEF TypeInv, TypeOK
  <2>3. \A b \in addrs' : Kept(b) \/ b.by <= clock
    BY <1>6, <2>2, AdminKernel
  <2>4. QED BY <2>1, <2>3, StampKept DEF Adding
<1>7. CASE UNCHANGED vars
  BY <1>7, StampKept DEF vars, call, Kept, Adding
<1>8. QED BY <1>2, <1>1, <1>3, <1>4, <1>5, <1>6, <1>7, ExitStamp DEF Next

-----------------------------------------------------------------------------
(* What RemoveOwned knows of its address at each of its steps, when nobody *)
(* acts on the kernel between what a call read and its `ip'.               *)

At(a, e) == a.index = e.index /\ a.prefix = e.prefix

\* What the dump showed: only the entry's own address, alone in its subnet.
SafeDump(p) == (\A a \in Same(ent[p]) : Exact(a, ent[p])) /\ ~Unsafe(ent[p])

Deletes(p) == pc[p] = "own_run" \/ (pc[p] = "own_wait" /\ child[p] = "running")

Deleted(p) == pc[p] = "own_save" \/ (pc[p] = "own_wait" /\ child[p] = "ok")

OwnInv(p) ==
  /\ pc[p] \in {"own_lock"} \cup OwnSteps => ent[p] \in mine[p]
  /\ pc[p] = "own_relink" => SafeDump(p) /\ (seen[p] <=> Same(ent[p]) # {})
  /\ Deletes(p) => /\ SafeDump(p)
                   /\ ent[p] \in session
                   /\ ~LinkDiffers(ent[p])
                   /\ LinkLive(ent[p])
  /\ Deleted(p) => NotLive(ent[p].stamp)

AddedAt(p) ==
  Adding(p) => /\ links[ent[p].index] = ent[p].name
               /\ \A a \in addrs : a.by = ent[p].stamp => At(a, ent[p])

MineAt ==
  \A q \in Procs : \A e \in mine[q] : \A a \in addrs : a.by = e.stamp => At(a, e)

PlaceInv == MineAt /\ \A p \in Procs : AddedAt(p) /\ OwnInv(p)

LEMMA InitPlaceInv == Init => PlaceInv
BY DEF Init, PlaceInv, MineAt, AddedAt, Adding, OwnInv, Deletes, Deleted

\* What a process knows stays true while the kernel and its locals do.
LEMMA SafeKept ==
  ASSUME NEW q \in Procs, UNCHANGED <<addrs, links>>, ent'[q] = ent[q]
  PROVE  /\ SafeDump(q)' <=> SafeDump(q)
         /\ Same(ent[q])' = Same(ent[q])
         /\ LinkDiffers(ent[q])' <=> LinkDiffers(ent[q])
         /\ LinkLive(ent[q])' <=> LinkLive(ent[q])
         /\ NotLive(ent[q].stamp)' <=> NotLive(ent[q].stamp)
<1>1. Same(ent[q])' = Same(ent[q]) /\ Others(ent[q])' = Others(ent[q])
  BY DEF Same, Others
<1>2. Unsafe(ent[q])' <=> Unsafe(ent[q])
  BY <1>1 DEF Unsafe
<1>3. SafeDump(q)' <=> SafeDump(q)
  BY <1>1, <1>2 DEF SafeDump, Exact
<1>4. QED BY <1>1, <1>3 DEF LinkDiffers, LinkLive, NotLive

\* A step of one call that leaves the kernel alone and confirms nothing.
LEMMA PlaceQuiet ==
  ASSUME TypeInv, PlaceInv, NEW p \in Procs, UNCHANGED <<addrs, links>>,
         \A q \in Procs : mine'[q] \subseteq mine[q],
         \A q \in Procs \ {p} : /\ pc'[q] = pc[q] /\ ent'[q] = ent[q] /\ seen'[q] = seen[q]
                                /\ child'[q] = child[q] /\ mine'[q] = mine[q],
         pc[p] \in Critical \/ UNCHANGED session,
         AddedAt(p)', OwnInv(p)'
  PROVE  PlaceInv'
<1>1. MineAt'
  BY DEF PlaceInv, MineAt, At
<1>2. ASSUME NEW q \in Procs \ {p} PROVE AddedAt(q)'
  BY <1>2 DEF PlaceInv, AddedAt, Adding, At
<1>3. ASSUME NEW q \in Procs \ {p} PROVE OwnInv(q)'
  <2>1. Deletes(q) => UNCHANGED session
    BY DEF Deletes, TypeInv, HoldsLock
  <2>2. OwnInv(q)
    BY DEF PlaceInv
  <2>3. (Deletes(q)' <=> Deletes(q)) /\ (Deleted(q)' <=> Deleted(q))
    BY DEF Deletes, Deleted
  <2>4. QED BY <2>1, <2>2, <2>3, SafeKept DEF OwnInv
<1>4. QED BY <1>1, <1>2, <1>3 DEF PlaceInv

\* Steps before which, or after which, the call knows nothing yet.
LEMMA PlaceReturn ==
  ASSUME TypeInv, PlaceInv, NEW p \in Procs, Return(p), UNCHANGED <<addrs, links>>,
         mine'[p] \subseteq mine[p], \A q \in Procs \ {p} : mine'[q] = mine[q],
         pc[p] \in Critical \/ UNCHANGED session
  PROVE  PlaceInv'
<1>1. pc'[p] = "idle"
  BY DEF Return, Goto, TypeInv, TypeOK
<1>2. AddedAt(p)' /\ OwnInv(p)'
  BY <1>1 DEF AddedAt, Adding, OwnInv, Deletes, Deleted
<1>3. QED BY <1>2, PlaceQuiet DEF Return, Goto, TypeInv, TypeOK

Known == {"add_save", "add_run", "add_wait", "own_lock"} \cup OwnSteps

LEMMA PlaceElsewhere ==
  ASSUME TypeInv, PlaceInv, NEW p \in Procs, NEW step, step \notin Known, Goto(p, step),
         UNCHANGED <<addrs, links, mine, session>>,
         \A q \in Procs \ {p} : ent'[q] = ent[q] /\ seen'[q] = seen[q] /\ child'[q] = child[q]
  PROVE  PlaceInv'
<1>1. pc'[p] = step /\ \A q \in Procs \ {p} : pc'[q] = pc[q]
  BY DEF Goto, TypeInv, TypeOK
<1>2. AddedAt(p)' /\ OwnInv(p)'
  BY <1>1 DEF AddedAt, Adding, OwnInv, Deletes, Deleted, Known
<1>3. QED BY <1>1, <1>2, PlaceQuiet

\* Nothing of the entry is left where the inspection found it absent: its
\* address can only sit where it was added, on an interface that exists.
LEMMA AbsentGone ==
  ASSUME TypeInv, KernelInv, PlaceInv, NEW p \in Procs,
         pc[p] \in {"own_link", "own_relink"}, ~LinkDiffers(ent[p]),
         \/ ~LinkLive(ent[p])
         \/ pc[p] = "own_relink" /\ ~seen[p]
  PROVE  NotLive(ent[p].stamp)
<1> SUFFICES ASSUME NEW a \in addrs, a.by = ent[p].stamp PROVE FALSE
  BY DEF NotLive
<1>1. ent[p] \in mine[p]
  BY DEF PlaceInv, OwnInv
<1>2. At(a, ent[p])
  BY <1>1 DEF PlaceInv, MineAt
<1>3. links[ent[p].index] \in Names /\ ent[p].index \in Indexes
  BY <1>2 DEF KernelInv, Carried, At, TypeInv, TypeOK, Address
<1>4. LinkLive(ent[p])
  BY <1>3 DEF LinkDiffers, LinkLive
<1>5. a \in Same(ent[p])
  BY <1>2 DEF Same, At
<1>6. Same(ent[p]) = {}
  BY <1>4 DEF PlaceInv, OwnInv
<1>7. QED BY <1>5, <1>6

LEMMA AddPlace ==
  ASSUME TypeInv, StampInv, PlaceInv, NEW p \in Procs, AddStep(p) PROVE PlaceInv'
<1>1. CASE AddCheck(p)
  <2>1. PICK i \in Indexes :
          /\ links[i] = ent[p].name
          /\ ent'[p].index = i /\ ent'[p].stamp = clock + 1 /\ ent'[p].name = ent[p].name
    BY <1>1 DEF AddCheck, Named, TypeInv, TypeOK, EntryKnown, Request
  <2>2. pc'[p] = "add_save" /\ UNCHANGED <<addrs, links, mine, session, seen, child>>
        /\ \A q \in Procs \ {p} : pc'[q] = pc[q] /\ ent'[q] = ent[q]
    BY <1>1 DEF AddCheck, Goto, TypeInv, TypeOK
  <2>3. \A a \in addrs : a.by # clock + 1
    BY ConstantsAssumption DEF StampInv, TypeInv, TypeOK, Address
  <2>4. AddedAt(p)' /\ OwnInv(p)'
    BY <2>1, <2>2, <2>3 DEF AddedAt, OwnInv, Deletes, Deleted
  <2>5. QED BY <2>2, <2>4, PlaceQuiet
<1>2. CASE AddSave(p) \/ AddRun(p)
  <2>1. /\ pc[p] \in {"add_save", "add_run"} /\ pc'[p] \in {"add_run", "add_wait"}
        /\ UNCHANGED <<addrs, links, mine, seen, ent>>
        /\ \A q \in Procs \ {p} : pc'[q] = pc[q] /\ child'[q] = child[q]
    BY <1>2 DEF AddSave, AddRun, StartIP, Advance, Goto, TypeInv, TypeOK
  <2>2. AddedAt(p)
    BY DEF PlaceInv
  <2>3. AddedAt(p)' /\ OwnInv(p)'
    BY <2>1, <2>2 DEF AddedAt, Adding, At, OwnInv, Deletes, Deleted
  <2>4. QED BY <2>1, <2>3, PlaceQuiet
<1>3. CASE AddFailed(p)
  BY <1>3, PlaceElsewhere DEF AddFailed, Advance, Known
<1>4. CASE AddDone(p)
  <2>1. /\ UNCHANGED <<addrs, links, session>>
        /\ mine'[p] = mine[p] \cup {ent[p]} /\ pc'[p] = "idle"
        /\ \A q \in Procs \ {p} : /\ pc'[q] = pc[q] /\ ent'[q] = ent[q] /\ seen'[q] = seen[q]
                                 /\ child'[q] = child[q] /\ mine'[q] = mine[q]
    BY <1>4 DEF AddDone, Return, Goto, TypeInv, TypeOK
  <2>2. AddedAt(p) /\ Adding(p)
    BY <1>4 DEF PlaceInv, AddDone, Adding
  <2>3. MineAt'
    BY <2>1, <2>2 DEF PlaceInv, MineAt, AddedAt, At
  <2>4. AddedAt(p)' /\ OwnInv(p)'
    BY <2>1 DEF AddedAt, Adding, OwnInv, Deletes, Deleted
  <2>5. ASSUME NEW q \in Procs \ {p} PROVE AddedAt(q)' /\ OwnInv(q)'
    <3>1. AddedAt(q) /\ OwnInv(q)
      BY DEF PlaceInv
    <3>2. AddedAt(q)'
      BY <2>1, <3>1 DEF AddedAt, Adding, At
    <3>3. (Deletes(q)' <=> Deletes(q)) /\ (Deleted(q)' <=> Deleted(q))
      BY <2>1 DEF Deletes, Deleted
    <3>4. OwnInv(q)'
      BY <2>1, <3>1, <3>3, SafeKept DEF OwnInv
    <3>5. QED BY <3>2, <3>4
  <2>6. QED BY <2>3, <2>4, <2>5 DEF PlaceInv
<1>5. CASE AddUndo(p)
  BY <1>5, PlaceReturn DEF AddUndo
<1>6. CASE AddRefused(p) \/ AddSaveFails(p) \/ AddUnknown(p) \/ AddUndoFails(p)
  BY <1>6, PlaceReturn DEF AddRefused, AddSaveFails, AddUnknown, AddUndoFails, Refuse
<1>7. QED BY <1>1, <1>2, <1>3, <1>4, <1>5, <1>6 DEF AddStep

LEMMA RemPlace ==
  ASSUME TypeInv, PlaceInv, NEW p \in Procs, RemStep(p) PROVE PlaceInv'
<1>1. ASSUME NEW step \in {"rem_present", "rem_run", "rem_wait", "rem_save"}, Advance(p, step),
             UNCHANGED seen, \A q \in Procs \ {p} : child'[q] = child[q]
      PROVE  PlaceInv'
  BY <1>1, PlaceElsewhere DEF Advance, Known
<1>2. CASE RemCheck(p) \/ RemPresent(p) \/ RemDone(p)
  BY <1>1, <1>2 DEF RemCheck, RemPresent, RemDone
<1>3. CASE RemRun(p)
  BY <1>1, <1>3 DEF RemRun, StartIP, TypeInv, TypeOK
<1>4. CASE RemSave(p)
  BY <1>4, PlaceReturn DEF RemSave
<1>5. CASE RemRefused(p) \/ RemFails(p) \/ RemSaveFails(p)
  BY <1>5, PlaceReturn DEF RemRefused, RemFails, RemSaveFails, Refuse
<1>6. QED BY <1>2, <1>3, <1>4, <1>5 DEF RemStep

LEMMA OwnPlace ==
  ASSUME TypeInv, FileInv, KernelInv, PlaceInv, NEW p \in Procs, OwnStep(p) PROVE PlaceInv'
<1> DEFINE Moves(step) ==
             /\ pc[p] \in OwnSteps /\ pc'[p] = step
             /\ UNCHANGED <<addrs, links, mine, session, ent>>
             /\ \A q \in Procs \ {p} : /\ pc'[q] = pc[q] /\ seen'[q] = seen[q]
                                      /\ child'[q] = child[q]
<1>0. ent[p] \in mine[p] /\ OwnInv(p)
  <2>1. pc[p] \in OwnSteps
    BY DEF OwnStep, OwnRefused, OwnCheck, OwnLink, OwnDump, OwnRelink, OwnRun, OwnFails, OwnDone,
           OwnSave, OwnSaveFails
  <2>2. QED BY <2>1 DEF PlaceInv, OwnInv
<1>1. ASSUME NEW step \in {"own_link", "own_dump"}, Moves(step) PROVE PlaceInv'
  <2>1. AddedAt(p)' /\ OwnInv(p)'
    BY <1>0, <1>1 DEF AddedAt, Adding, OwnInv, Deletes, Deleted
  <2>2. QED BY <1>1, <2>1, PlaceQuiet
<1>2. ASSUME Moves("own_save"), NotLive(ent[p].stamp) PROVE PlaceInv'
  <2>1. AddedAt(p)' /\ OwnInv(p)'
    BY <1>0, <1>2, SafeKept DEF AddedAt, Adding, OwnInv, Deletes, Deleted
  <2>2. QED BY <1>2, <2>1, PlaceQuiet
<1>3. CASE OwnCheck(p)
  <2>1. Moves("own_link")
    BY <1>3 DEF OwnCheck, Advance, Goto, TypeInv, TypeOK
  <2>2. QED BY <1>1, <2>1
<1>4. ASSUME pc[p] \in {"own_link", "own_relink"}, OwnAbsent(p), NotLive(ent[p].stamp)
      PROVE  PlaceInv'
  <2>1. CASE Advance(p, "own_save") /\ UNCHANGED <<snap, seen, child>>
    <3>1. Moves("own_save")
      BY <1>4, <2>1 DEF Advance, Goto, TypeInv, TypeOK
    <3>2. QED BY <1>2, <1>4, <3>1
  <2>2. CASE mine' = [mine EXCEPT ![p] = @ \ {ent[p]}] /\ Return(p)
             /\ UNCHANGED <<list, session, clock, kernel, orphans, moves>>
    BY <2>2, PlaceReturn DEF TypeInv, TypeOK
  <2>3. QED BY <1>4, <2>1, <2>2 DEF OwnAbsent
<1>5. CASE OwnLink(p)
  <2>1. CASE Advance(p, "own_dump") /\ UNCHANGED <<snap, seen, child>>
    <3>1. Moves("own_dump")
      BY <1>5, <2>1 DEF OwnLink, Advance, Goto, TypeInv, TypeOK
    <3>2. QED BY <1>1, <3>1
  <2>2. CASE ~LinkLive(ent[p]) /\ OwnAbsent(p)
    BY <1>4, <1>5, <2>2, AbsentGone DEF OwnLink
  <2>3. QED BY <1>5, <2>1, <2>2 DEF OwnLink
<1>6. CASE OwnDump(p)
  <2>1. /\ Moves("own_relink") /\ SafeDump(p)
        /\ seen'[p] <=> Same(ent[p]) # {}
    BY <1>6 DEF OwnDump, Advance, Goto, SafeDump, TypeInv, TypeOK
  <2>2. AddedAt(p)' /\ OwnInv(p)'
    BY <1>0, <2>1, SafeKept DEF AddedAt, Adding, OwnInv, Deletes, Deleted
  <2>3. QED BY <2>1, <2>2, PlaceQuiet
<1>7. CASE OwnRelink(p)
  <2>1. CASE OwnPresent(p) /\ seen[p] /\ LinkLive(ent[p])
    <3>1. Moves("own_run")
      BY <1>7, <2>1 DEF OwnRelink, OwnPresent, Advance, Goto, TypeInv, TypeOK
    <3>2. /\ SafeDump(p) /\ ent[p] \in session /\ ~LinkDiffers(ent[p]) /\ LinkLive(ent[p])
      BY <1>0, <1>7, <2>1 DEF OwnRelink, OwnPresent, FileInv, Loaded, Unsaved, OwnInv
    <3>3. AddedAt(p)' /\ OwnInv(p)'
      BY <1>0, <3>1, <3>2, SafeKept DEF AddedAt, Adding, OwnInv, Deletes, Deleted
    <3>4. QED BY <3>1, <3>3, PlaceQuiet
  <2>2. CASE OwnAbsent(p) /\ ~(seen[p] /\ LinkLive(ent[p]))
    BY <1>4, <1>7, <2>2, AbsentGone DEF OwnRelink
  <2>3. QED BY <1>7, <2>1, <2>2 DEF OwnRelink
<1>8. CASE OwnRun(p)
  <2>1. Moves("own_wait")
    BY <1>8 DEF OwnRun, StartIP, Advance, Goto, TypeInv, TypeOK
  <2>2. child'[p] = "running" /\ Deletes(p)
    BY <1>8 DEF OwnRun, StartIP, Deletes, TypeInv, TypeOK
  <2>3. AddedAt(p)' /\ OwnInv(p)'
    BY <1>0, <2>1, <2>2, SafeKept DEF AddedAt, Adding, OwnInv, Deletes, Deleted
  <2>4. QED BY <2>1, <2>3, PlaceQuiet
<1>9. CASE OwnDone(p)
  <2>1. Moves("own_save") /\ Deleted(p)
    BY <1>9 DEF OwnDone, Advance, Goto, Deleted, TypeInv, TypeOK
  <2>2. QED BY <1>0, <1>2, <2>1 DEF OwnInv
<1>10. CASE OwnSave(p)
  BY <1>10, PlaceReturn DEF OwnSave, TypeInv, TypeOK
<1>11. CASE OwnRefused(p) \/ OwnFails(p) \/ OwnSaveFails(p)
  BY <1>11, PlaceReturn DEF OwnRefused, OwnFails, OwnSaveFails, Refuse
<1>12. QED
  BY <1>3, <1>5, <1>6, <1>7, <1>8, <1>9, <1>10, <1>11 DEF OwnStep

LEMMA BeginPlace ==
  ASSUME TypeInv, PlaceInv, NEW p \in Procs,
         Begin(p) \/ Acquire(p) \/ LockFails(p) \/ Cancel(p) \/ Exit(p)
  PROVE  PlaceInv'
<1>1. ASSUME NEW e, NEW step \in {"add_lock", "rem_lock"}, Start(p, e, step) PROVE PlaceInv'
  BY <1>1, PlaceElsewhere DEF Start, Known, TypeInv, TypeOK
<1>2. ASSUME NEW e \in mine[p], Start(p, e, "own_lock") PROVE PlaceInv'
  <2>1. /\ pc'[p] = "own_lock" /\ ent'[p] = e
        /\ UNCHANGED <<addrs, links, mine, session, seen, child>>
        /\ \A q \in Procs \ {p} : pc'[q] = pc[q] /\ ent'[q] = ent[q]
    BY <1>2 DEF Start, Goto, TypeInv, TypeOK
  <2>2. AddedAt(p)' /\ OwnInv(p)'
    BY <2>1 DEF AddedAt, Adding, OwnInv, Deletes, Deleted
  <2>3. QED BY <2>1, <2>2, PlaceQuiet
<1>3. ASSUME UNCHANGED <<pc, ent, seen, child, mine, session, addrs, links>> PROVE PlaceInv'
  <2>1. AddedAt(p)'
    BY <1>3 DEF PlaceInv, AddedAt, Adding, At
  <2>2. (Deletes(p)' <=> Deletes(p)) /\ (Deleted(p)' <=> Deleted(p)) /\ OwnInv(p)
    BY <1>3 DEF PlaceInv, Deletes, Deleted
  <2>3. OwnInv(p)'
    BY <1>3, <2>2, SafeKept DEF OwnInv
  <2>4. QED BY <1>3, <2>1, <2>3, PlaceQuiet
<1>4. CASE Begin(p)
  BY <1>1, <1>2, <1>3, <1>4 DEF Begin, StartAdd, DisconnectLoad, StartRemove, StartRemoveOwned, call
<1>5. CASE Acquire(p)
  <2>1. CASE pc[p] = "own_lock"
    <3>1. /\ pc'[p] = "own_check" /\ ent[p] \in mine[p]
          /\ UNCHANGED <<addrs, links, mine, session, seen, child, ent>>
          /\ \A q \in Procs \ {p} : pc'[q] = pc[q]
      BY <1>5, <2>1 DEF Acquire, Goto, PlaceInv, OwnInv, TypeInv, TypeOK
    <3>2. AddedAt(p)' /\ OwnInv(p)'
      BY <3>1 DEF AddedAt, Adding, OwnInv, Deletes, Deleted
    <3>3. QED BY <3>1, <3>2, PlaceQuiet
  <2>2. CASE pc[p] # "own_lock"
    <3>1. PICK step \in {"add_check", "rem_check"} : Goto(p, step)
      BY <1>5, <2>2 DEF Acquire, Goto
    <3>2. QED BY <1>5, <3>1, PlaceElsewhere DEF Acquire, Known
  <2>3. QED BY <2>1, <2>2
<1>6. CASE LockFails(p)
  BY <1>6, PlaceReturn DEF LockFails, Refuse
<1>7. CASE Cancel(p)
  BY <1>3, <1>7 DEF Cancel
<1>8. CASE Exit(p)
  BY <1>8, PlaceReturn DEF Exit, TypeInv, TypeOK
<1>9. QED BY <1>4, <1>5, <1>6, <1>7, <1>8

\* A delete that finished has taken the entry's own address.
LEMMA DeleteGone ==
  ASSUME TypeInv, KernelInv, PlaceInv, NEW p \in Procs, ChildOK(p), pc[p] = "own_wait"
  PROVE  NotLive(ent[p].stamp)'
<1>1. /\ Deletes(p) /\ ent[p] \in mine[p] /\ LinkLive(ent[p])
      /\ UNCHANGED <<ent, links>>
  BY DEF ChildOK, ChildEnds, Deletes, PlaceInv, OwnInv
<1>2. PICK a \in addrs : /\ links[a.index] = ent[p].name
                         /\ a.prefix = ent[p].prefix
                         /\ addrs' \in Without(a)
  BY DEF ChildOK, IpDel
<1>3. ent[p] \in Entry /\ ent[p].index \in Indexes /\ ent[p].name \in Names
  BY <1>1 DEF TypeInv, TypeOK, Entry
<1>4. a.index = ent[p].index
  <2>1. a.index \in Indexes
    BY DEF TypeInv, TypeOK, Address
  <2>2. QED BY <1>1, <1>2, <1>3, <2>1 DEF KernelInv, LinksUnique, LinkLive
<1>5. ASSUME NEW b \in addrs', b.by = ent[p].stamp PROVE FALSE
  <2>1. PICK c \in addrs : c.by = b.by /\ c # a
    BY <1>2, WithoutKeeps DEF KernelInv
  <2>2. At(c, ent[p])
    BY <1>1, <1>5, <2>1 DEF PlaceInv, MineAt
  <2>3. QED BY <1>2, <1>4, <2>1, <2>2 DEF At, KernelInv, KeysUnique
<1>6. QED BY <1>1, <1>5 DEF NotLive

LEMMA ChildPlace ==
  ASSUME TypeInv, KernelInv, StampInv, PlaceInv, NEW p \in Procs, ChildStep(p)
  PROVE  PlaceInv'
<1>0. /\ UNCHANGED <<pc, ent, seen, mine, session, links>>
      /\ \A q \in Procs \ {p} : child'[q] = child[q]
      /\ pc[p] \in WaitSteps
  BY DEF ChildStep, ChildOK, ChildFails, ChildKilled, ChildEnds, TypeInv, TypeOK, ChildWaited
<1>1. CASE ChildFails(p) \/ ChildKilled(p)
  <2>1. UNCHANGED addrs /\ child'[p] \in {"failed", "killed"}
    BY <1>1 DEF ChildFails, ChildKilled, ChildEnds, TypeInv, TypeOK
  <2>2. AddedAt(p)'
    BY <1>0, <2>1 DEF PlaceInv, AddedAt, Adding, At
  <2>3. OwnInv(p)'
    BY <1>0, <2>1 DEF PlaceInv, OwnInv, Deletes, Deleted
  <2>4. QED BY <1>0, <2>1, <2>2, <2>3, PlaceQuiet
<1>2. CASE ChildOK(p)
  <2>1. child'[p] = "ok"
    BY <1>2 DEF ChildOK, ChildEnds, TypeInv, TypeOK
  <2>2. TypeInv'
    BY ChildTypeInv
  <2>3. ASSUME NEW b \in addrs', ~Kept(b)
        PROVE  /\ pc[p] = "add_wait"
               /\ b.by = ent[p].stamp /\ At(b, ent[p])
    <3>1. /\ pc[p] = "add_wait" /\ links[b.index] = ent[p].name
          /\ b.prefix = ent[p].prefix /\ b.by = ent[p].stamp
      BY <2>3, ChildKernel
    <3>2. links[ent[p].index] = ent[p].name
      BY <3>1 DEF PlaceInv, AddedAt, Adding
    <3>3. b.index \in Indexes /\ ent[p].index \in Indexes /\ ent[p].name \in Names
      BY <2>2, <3>1 DEF TypeInv, TypeOK, Address, EntryKnown, Entry
    <3>4. b.index = ent[p].index
      BY <3>1, <3>2, <3>3 DEF KernelInv, LinksUnique
    <3>5. QED BY <3>1, <3>4 DEF At
  <2>4. MineAt'
    <3> SUFFICES ASSUME NEW q \in Procs, NEW e \in mine[q], NEW b \in addrs', b.by = e.stamp
                 PROVE  At(b, e)
      BY <1>0 DEF MineAt, At
    <3>1. Kept(b)
      BY <2>3 DEF StampInv, Adding
    <3>2. QED BY <3>1 DEF Kept, PlaceInv, MineAt, At
  <2>5. AddedAt(p)'
    <3> SUFFICES ASSUME Adding(p), NEW b \in addrs', b.by = ent[p].stamp
                 PROVE  links[ent[p].index] = ent[p].name /\ At(b, ent[p])
      BY <1>0 DEF PlaceInv, AddedAt, Adding, At
    <3>1. AddedAt(p)
      BY DEF PlaceInv
    <3>2. QED BY <2>3, <3>1 DEF Kept, AddedAt, At
  <2>6. OwnInv(p)'
    <3>1. pc[p] = "own_wait" => NotLive(ent[p].stamp)'
      BY <1>2, DeleteGone
    <3>2. OwnInv(p)
      BY DEF PlaceInv
    <3>3. ~Deletes(p)' /\ (Deleted(p)' => pc[p] = "own_wait")
      BY <1>0, <2>1 DEF Deletes, Deleted
    <3>4. QED BY <1>0, <3>1, <3>2, <3>3 DEF OwnInv
  <2>7. ASSUME NEW q \in Procs \ {p} PROVE AddedAt(q)' /\ OwnInv(q)'
    <3>1. pc[q] \notin Critical
      BY <1>0 DEF TypeInv, HoldsLock
    <3>2. OwnInv(q)
      BY DEF PlaceInv
    <3>3. QED BY <1>0, <3>1, <3>2 DEF AddedAt, Adding, OwnInv, Deletes, Deleted
  <2>8. QED BY <2>4, <2>5, <2>6, <2>7 DEF PlaceInv
<1>3. QED BY <1>1, <1>2 DEF ChildStep

\* Whoever acts outside of the flock acts while no call relies on the kernel.
LEMMA OutsidePlace ==
  ASSUME ~Races, TypeInv, KernelInv, StampInv, PlaceInv,
         Admin \/ \E o \in orphans : OrphanEnds(o)
  PROVE  PlaceInv'
<1>1. /\ UNCHANGED <<pc, ent, seen, child, mine, session>>
      /\ \A p \in Procs : ~Acting(p)
  BY DEF Admin, AdminAdd, AdminDel, AdminRename, Unplug, Plug, AdminActs, OrphanEnds, Undisturbed, call
<1>2. \A b \in addrs' : Kept(b) \/ b.by = 0 \/ \E o \in AddOrphans : b.by = o.entry.stamp
  BY AdminKernel, OrphanKernel
<1>3. ASSUME NEW q \in Procs, NEW e \in mine[q], NEW b \in addrs', b.by = e.stamp PROVE Kept(b)
  <2>1. e.stamp # 0
    BY DEF TypeInv, TypeOK, Entry
  <2>2. QED BY <1>2, <1>3, <2>1 DEF StampInv
<1>4. MineAt'
  <2> SUFFICES ASSUME NEW q \in Procs, NEW e \in mine[q], NEW b \in addrs', b.by = e.stamp
               PROVE  At(b, e)
    BY <1>1 DEF MineAt, At
  <2>1. QED BY <1>3 DEF Kept, PlaceInv, MineAt, At
<1>5. ASSUME NEW p \in Procs PROVE AddedAt(p)' /\ OwnInv(p)'
  <2>1. OwnInv(p)
    BY DEF PlaceInv
  <2>2. Deleted(p) => NotLive(ent[p].stamp)'
    <3> SUFFICES ASSUME Deleted(p), NEW b \in addrs', b.by = ent[p].stamp PROVE FALSE
      BY <1>1 DEF NotLive
    <3>1. ent[p] \in mine[p] /\ NotLive(ent[p].stamp)
      BY <2>1 DEF OwnInv, Deleted
    <3>2. QED BY <1>3, <3>1 DEF Kept, NotLive
  <2>3. ~Deletes(p)' /\ ~Adding(p)' /\ pc'[p] # "own_relink" /\ (Deleted(p)' <=> Deleted(p))
    BY <1>1 DEF Deletes, Adding, Deleted, Acting
  <2>4. QED BY <1>1, <2>1, <2>2, <2>3 DEF AddedAt, OwnInv
<1>6. QED BY <1>4, <1>5 DEF PlaceInv

LEMMA NextPlaceInv ==
  ASSUME ~Races, TypeInv, FileInv, KernelInv, StampInv, PlaceInv, [Next]_vars PROVE PlaceInv'
<1>1. CASE UNCHANGED vars
  <2>1. UNCHANGED <<pc, ent, seen, child, mine, session, addrs, links>>
    BY <1>1 DEF vars, call
  <2>2. MineAt'
    BY <2>1 DEF PlaceInv, MineAt, At
  <2>3. ASSUME NEW p \in Procs PROVE AddedAt(p)' /\ OwnInv(p)'
    <3>1. AddedAt(p)'
      BY <2>1 DEF PlaceInv, AddedAt, Adding, At
    <3>2. (Deletes(p)' <=> Deletes(p)) /\ (Deleted(p)' <=> Deleted(p)) /\ OwnInv(p)
      BY <2>1 DEF PlaceInv, Deletes, Deleted
    <3>3. OwnInv(p)'
      BY <2>1, <3>2, SafeKept DEF OwnInv
    <3>4. QED BY <3>1, <3>3
  <2>4. QED BY <2>2, <2>3 DEF PlaceInv
<1>2. CASE Next
  BY <1>2, BeginPlace, AddPlace, RemPlace, OwnPlace, ChildPlace, OutsidePlace DEF Next, CallStep
<1>3. QED BY <1>1, <1>2

LEMMA OwnedInvariant ==
  ASSUME ~Races PROVE Spec => [](TypeInv /\ FileInv /\ KernelInv /\ StampInv /\ PlaceInv)
<1>1. TypeInv /\ FileInv /\ KernelInv /\ StampInv /\ PlaceInv /\ [Next]_vars
        => KernelInv' /\ StampInv' /\ PlaceInv'
  BY NextKernelInv, NextStampInv, NextPlaceInv
<1>2. QED
  BY <1>1, FileInvariant, InitKernelInv, InitStampInv, InitPlaceInv, PTL DEF Spec

-----------------------------------------------------------------------------
\* Only the `ip' of a call reports success.
LEMMA OnlyChildOK ==
  ASSUME TypeInv, NEW p \in Procs, [Next]_vars, child[p] = "running", child'[p] = "ok"
  PROVE  ChildOK(p)
<1>1. ASSUME NEW q \in Procs, \A r \in Procs \ {q} : child'[r] = child[r],
             child'[q] \in {"none", "running", "failed", "killed", child[q]}
      PROVE  FALSE
  BY <1>1
<1>2. ASSUME UNCHANGED child PROVE FALSE
  BY <1>2
<1>3. ASSUME NEW q \in Procs, Return(q) PROVE FALSE
  BY <1>1, <1>3 DEF Return, TypeInv, TypeOK
<1>4. ASSUME NEW q \in Procs, NEW step, StartIP(q, step) PROVE FALSE
  BY <1>1, <1>4 DEF StartIP, TypeInv, TypeOK
<1>5. ASSUME NEW q \in Procs, Begin(q) \/ Acquire(q) \/ LockFails(q) \/ Cancel(q) \/ Exit(q) PROVE FALSE
  BY <1>2, <1>3, <1>5 DEF Begin, StartAdd, DisconnectLoad, StartRemove, StartRemoveOwned, Start,
        Acquire, LockFails, Refuse, Cancel, Exit, call
<1>6. ASSUME NEW q \in Procs, AddStep(q) PROVE FALSE
  BY <1>2, <1>3, <1>4, <1>6 DEF AddStep, AddRefused, AddCheck, AddSave, AddSaveFails,
        AddRun, AddFailed, AddUnknown, AddDone, AddUndo, AddUndoFails, Refuse
<1>7. ASSUME NEW q \in Procs, RemStep(q) PROVE FALSE
  BY <1>2, <1>3, <1>4, <1>7 DEF RemStep, RemRefused, RemCheck, RemPresent, RemRun, RemFails,
        RemDone, RemSave, RemSaveFails, Refuse
<1>8. ASSUME NEW q \in Procs, OwnStep(q) PROVE FALSE
  BY <1>2, <1>3, <1>4, <1>8 DEF OwnStep, OwnRefused, OwnCheck, OwnLink, OwnDump, OwnRelink, OwnRun,
        OwnFails, OwnDone, OwnSave, OwnSaveFails, OwnAbsent, OwnPresent, Refuse
<1>9. ASSUME NEW q \in Procs, ChildFails(q) \/ ChildKilled(q) PROVE FALSE
  BY <1>1, <1>9 DEF ChildFails, ChildKilled, ChildEnds, TypeInv, TypeOK
<1>10. ASSUME NEW q \in Procs, ChildOK(q) PROVE q = p
  BY <1>10 DEF ChildOK, ChildEnds, TypeInv, TypeOK
<1>11. CASE Admin \/ (\E o \in orphans : OrphanEnds(o)) \/ UNCHANGED vars
  BY <1>2, <1>11 DEF Admin, AdminAdd, AdminDel, AdminRename, Unplug, Plug, AdminActs, OrphanEnds,
        call, vars
<1>12. QED
  BY <1>5, <1>6, <1>7, <1>8, <1>9, <1>10, <1>11 DEF Next, CallStep, ChildStep

\* What a delete removes besides its own address are the secondaries of the
\* same subnet; the dump showed none.
LEMMA DeletesOwn ==
  ASSUME TypeInv, KernelInv, PlaceInv, NEW p \in Procs, ChildOK(p), pc[p] = "own_wait"
  PROVE  ent[p] \in session /\ \A a \in addrs \ addrs' : Exact(a, ent[p])
<1>1. /\ Deletes(p) /\ SafeDump(p) /\ ent[p] \in session /\ ent[p] \in mine[p]
      /\ LinkLive(ent[p]) /\ ent[p] \in Entry
  BY DEF ChildOK, ChildEnds, Deletes, PlaceInv, OwnInv, TypeInv, TypeOK
<1>2. PICK a \in addrs : /\ links[a.index] = ent[p].name
                         /\ a.prefix = ent[p].prefix
                         /\ addrs' \in Without(a)
  BY DEF ChildOK, IpDel
<1>3. a.index = ent[p].index
  <2>1. a.index \in Indexes /\ ent[p].index \in Indexes /\ ent[p].name \in Names
    BY <1>1 DEF TypeInv, TypeOK, Address, Entry
  <2>2. QED BY <1>1, <1>2, <2>1 DEF KernelInv, LinksUnique, LinkLive
<1>4. a \in Same(ent[p])
  BY <1>2, <1>3 DEF Same
<1> DEFINE rest == addrs \ {a}
           deps == InSubnet(rest, a.index, a.prefix)
<1>5. ~a.secondary => deps \subseteq Same(ent[p])
  <2> SUFFICES ASSUME ~a.secondary, NEW b \in deps, b \notin Same(ent[p]) PROVE FALSE
    OBVIOUS
  <2>1. b \in addrs /\ b.index = ent[p].index /\ Subnet[b.prefix] = Subnet[a.prefix]
    BY <1>3 DEF InSubnet
  <2>2. b \in Others(ent[p])
    BY <2>1 DEF Same, Others
  <2>3. Unsafe(ent[p])
    BY <1>4, <2>1, <2>2 DEF Unsafe
  <2>4. QED BY <1>1, <2>3 DEF SafeDump
<1>6. \A c \in addrs \ addrs' : c = a \/ (~a.secondary /\ c \in deps)
  <2>1. CASE a.secondary \/ deps = {}
    BY <1>2, <2>1 DEF Without
  <2>2. CASE ~a.secondary /\ deps # {}
    <3>1. CASE addrs' = rest \ deps
      BY <2>2, <3>1
    <3>2. CASE \E b \in deps : addrs' = (rest \ {b}) \cup {[b EXCEPT !.secondary = FALSE]}
      BY <2>2, <3>2
    <3>3. QED BY <1>2, <2>2, <3>1, <3>2 DEF Without
  <2>3. QED BY <2>1, <2>2
<1>7. \A c \in addrs \ addrs' : c \in Same(ent[p])
  BY <1>4, <1>5, <1>6
<1>8. QED BY <1>1, <1>7 DEF SafeDump

\* While nobody outside the flock acts between a call's inspection and its
\* `ip', RemoveOwned's delete takes away exactly the recorded address: no
\* other address, and none of its subnet along with it - for any number of
\* processes and orphans, and whatever was renamed, replugged or configured
\* before.
THEOREM OwnedDeletesExactly ==
  ASSUME ~Races PROVE Spec => OwnedDeletesOnlyItsOwn
<1> DEFINE Step == \A p \in Procs :
                     pc[p] = "own_wait" /\ child[p] = "running" /\ child'[p] = "ok"
                       => /\ ent[p] \in session
                          /\ \A a \in addrs \ addrs' : Exact(a, ent[p])
<1>1. TypeInv /\ KernelInv /\ PlaceInv /\ [Next]_vars => [Step]_vars
  BY OnlyChildOK, DeletesOwn
<1>2. QED BY <1>1, OwnedInvariant, PTL DEF Spec, OwnedDeletesOnlyItsOwn

\* When RemoveOwned reports success, the address its entry applied is gone.
LEMMA SuccessGone ==
  ASSUME TypeInv, KernelInv, PlaceInv, NEW p \in Procs, OwnSucceeds(p)
  PROVE  NotLive(ent[p].stamp)
<1>1. CASE OwnSave(p)
  BY <1>1 DEF OwnSave, PlaceInv, OwnInv, Deleted
<1>2. ASSUME NEW step \in {"own_dump", "own_run"}, Advance(p, step), pc'[p] = "idle" PROVE FALSE
  BY <1>2 DEF Advance, Goto, TypeInv, TypeOK
<1>3. CASE OwnLink(p) /\ pc'[p] = "idle"
  BY <1>2, <1>3, AbsentGone DEF OwnLink
<1>4. CASE OwnRelink(p) /\ pc'[p] = "idle"
  BY <1>2, <1>4, AbsentGone DEF OwnRelink, OwnPresent
<1>5. QED BY <1>1, <1>3, <1>4 DEF OwnSucceeds

\* Under the same assumption a success of RemoveOwned means that no interface
\* carries the address the entry applied, be it deleted now or found absent.
THEOREM OwnedSuccessIsTrue ==
  ASSUME ~Races PROVE Spec => OwnedSuccessMeansGone
<1> DEFINE Step == \A p \in Procs : OwnSucceeds(p) => \A a \in addrs : a.by # ent[p].stamp
<1>1. TypeInv /\ KernelInv /\ PlaceInv /\ [Next]_vars => [Step]_vars
  BY SuccessGone DEF NotLive
<1>2. QED BY <1>1, OwnedInvariant, PTL DEF Spec, OwnedSuccessMeansGone

=============================================================================
