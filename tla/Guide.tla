-------------------------------- MODULE Guide --------------------------------
(***************************************************************************)
(* cmd/wirepup/cmd_guide.go: the interaction on the main goroutine, with   *)
(* confirm and runConnect of cmd_active.go and executeOperation of         *)
(* operation.go, over the reader of PromptInput.                           *)
(*                                                                         *)
(* The guide asks, runs one operation at a time, keeps the entries its own *)
(* connects added, and on the way out cancels everything, waits for the    *)
(* reader and removes the entries, the last one first.  Of the menus the   *)
(* model keeps what an answer leads to: an operation, a connect, quitting, *)
(* or another question.                                                    *)
(***************************************************************************)
EXTENDS PromptInput

CONSTANTS Quit, Operate, Connect, Yes   \* answers, as texts

ASSUME GuideAssumption ==
  /\ EndsGuide
  /\ {Quit, Operate, Connect, Yes} \subseteq Seq(Chars)
  /\ Quit # Operate /\ Quit # Connect /\ Operate # Connect

VARIABLES
  main,      \* where the guide stands
  status,    \* g.status, of the last operation
  entries,   \* g.entries: an entry is the number of the question that led to it
  left,      \* how many entries cleanup has still to go through
  removed,   \* entries RemoveOwned reported gone
  code       \* what runGuide returns

guideVars == <<status, entries, left, removed, code>>
vars == <<promptVars, main, guideVars>>

Statuses == {"ok", "error"}
Asking  == {"choose", "decide"}
Steps   == {"menu", "confirm", "operate", "probe", "add", "adding", "close",
            "join", "clean", "over"} \cup Asking

Init ==
  /\ PromptInit
  /\ main = "menu" /\ status = "ok" /\ code = "ok"
  /\ entries = <<>> /\ left = 0 /\ removed = {}

Goto(step) == main' = step

Answered(text) == got.kind = "line" /\ Text(got.answer) = text
Failed == got.kind \notin {"none", "line"}

-----------------------------------------------------------------------------
(* Menus.                                                                  *)

\* next() checks the context before it shows its menu.
AskMenu ==
  /\ main = "menu"
  /\ Ask
  /\ Goto("choose")
  /\ UNCHANGED guideVars

\* g.exit: the status of the last operation when the user quit and nothing
\* was cancelled, an error otherwise.
Exit(result) ==
  /\ Goto("close")
  /\ code' = result
  /\ UNCHANGED <<promptVars, status, entries, left, removed>>

MenuCancelled == main = "menu" /\ ctx = "cancelled" /\ Exit("error")

Choice == main = "choose" /\ line = "out"

ChooseQuit == Choice /\ Answered(Quit) /\ Exit(IF ctx = "live" THEN status ELSE "error")

ChooseFails == Choice /\ Failed /\ Exit("error")

\* execute, executeOperation: nothing starts once the context ended.
Execute(step) ==
  /\ Goto(IF ctx = "live" THEN step ELSE "menu")
  /\ status' = IF ctx = "live" THEN status ELSE "error"
  /\ UNCHANGED <<promptVars, entries, left, removed, code>>

ChooseOperation == Choice /\ Answered(Operate) /\ Execute("operate")

\* Mutant: the menu's choice is the confirmation.
ChooseConnectAtOnce == Choice /\ Answered(Connect) /\ Execute("probe")

ChooseConnect == Choice /\ Answered(Connect) /\ Execute("confirm")

ChooseAgain ==
  /\ Choice
  /\ got.kind = "line"
  /\ ~Answered(Quit) /\ ~Answered(Operate) /\ ~Answered(Connect)
  /\ Goto("menu")
  /\ UNCHANGED <<promptVars, guideVars>>

\* An operation ends; cancellation makes its result an error.
Ends(result) ==
  /\ Goto("menu")
  /\ status' = IF ctx = "live" THEN result ELSE "error"
  /\ UNCHANGED <<promptVars, left, removed, code>>

\* A passive operation, whatever it finds.
OperationEnds ==
  /\ main = "operate"
  /\ \E result \in Statuses : Ends(result)
  /\ UNCHANGED entries

-----------------------------------------------------------------------------
(* connect                                                                 *)

AskConfirm ==
  /\ main = "confirm"
  /\ ctx = "live"
  /\ Ask
  /\ Goto("decide")
  /\ UNCHANGED guideVars

Decision == main = "decide" /\ line = "out"

\* The observation or a check refused, there is nothing to do, or the context
\* ended, before the question was asked.
NotAsked ==
  /\ main = "confirm"
  /\ \E result \in Statuses : Ends(result)
  /\ UNCHANGED entries

ConfirmYes ==
  /\ Decision
  /\ Answered(Yes)
  /\ ctx = "live"
  /\ Goto("probe")
  /\ UNCHANGED <<promptVars, guideVars>>

Aborted ==
  /\ Decision
  /\ ~Answered(Yes) \/ ctx = "cancelled"
  /\ Ends("error")
  /\ UNCHANGED entries

\* The ARP probe finds the address free; a probe cut short by a cancellation
\* in its last wait reports the same.
ProbeClear ==
  /\ main = "probe"
  /\ Goto("add")
  /\ UNCHANGED <<promptVars, guideVars>>

\* It finds a conflict, or fails, or is cancelled.
ProbeRefuses == main = "probe" /\ Ends("error") /\ UNCHANGED entries

\* AddContext's first and later context checks.
AddStarts ==
  /\ main = "add"
  /\ ctx = "live"
  /\ Goto("adding")
  /\ UNCHANGED <<promptVars, guideVars>>

AddRefused == main = "add" /\ Ends("error") /\ UNCHANGED entries

\* A confirmed success is an entry of this guide, even when a cancellation
\* follows it; a failure or an unknown outcome is not.
Added == main = "adding" /\ Ends("ok") /\ entries' = Append(entries, asks)

NotAdded == main = "adding" /\ Ends("error") /\ UNCHANGED entries

-----------------------------------------------------------------------------
(* The deferred shutdown and cleanup.                                      *)

Close ==
  /\ main = "close"
  /\ ctx' = "cancelled"
  /\ Goto("join")
  /\ UNCHANGED <<terminal, reading, channels, asking, guideVars>>

\* Mutant: cleanup does not wait for the reader.
JoinAtOnce ==
  /\ main = "join"
  /\ Goto("clean")
  /\ left' = Len(entries)
  /\ UNCHANGED <<promptVars, status, entries, removed, code>>

Join ==
  /\ main = "join"
  /\ reader = "done"
  /\ Goto("clean")
  /\ left' = Len(entries)
  /\ UNCHANGED <<promptVars, status, entries, removed, code>>

\* RemoveOwned of one entry, within what is left of the five seconds.
Clean ==
  /\ main = "clean"
  /\ left > 0
  /\ left' = left - 1
  /\ UNCHANGED <<promptVars, main, status, entries>>

\* Mutant: a failed removal is only reported.
CleanFailsQuietly == Clean /\ UNCHANGED <<code, removed>>

CleanOK    == Clean /\ removed' = removed \cup {entries[left]} /\ UNCHANGED code
CleanFails == Clean /\ code' = "error" /\ UNCHANGED removed

Over ==
  /\ main = "clean"
  /\ left = 0
  /\ Goto("over")
  /\ UNCHANGED <<promptVars, guideVars>>

\* The process has ended.
Terminated == main = "over" /\ UNCHANGED vars

-----------------------------------------------------------------------------
MainStep ==
  \/ AskMenu \/ MenuCancelled \/ ChooseQuit \/ ChooseFails \/ ChooseOperation
  \/ ChooseConnect \/ ChooseAgain \/ OperationEnds \/ AskConfirm \/ NotAsked
  \/ ConfirmYes \/ Aborted \/ ProbeClear \/ ProbeRefuses \/ AddStarts \/ AddRefused
  \/ Added \/ NotAdded \/ Close \/ Join \/ CleanOK \/ CleanFails \/ Over

InLine == LineStep /\ UNCHANGED <<main, guideVars>>
Reads  == Reader /\ UNCHANGED <<main, guideVars>>
Outside == main # "over" /\ (User \/ Signal) /\ UNCHANGED <<main, guideVars>>

Next == MainStep \/ InLine \/ Reads \/ Outside \/ Terminated

Spec == Init /\ [][Next]_vars

\* Both goroutines run; every operation ends by itself (windows, budgets and
\* deadlines bound it), and a call of line() ends when the user answers.
FairSpec == /\ Spec
            /\ WF_vars(MainStep)
            /\ WF_vars(InLine)
            /\ WF_vars(Reads \/ (TakeRequest /\ UNCHANGED <<main, guideVars>>))

-----------------------------------------------------------------------------
(* Properties                                                              *)

TypeOK ==
  /\ PromptTypeOK
  /\ main \in Steps
  /\ status \in Statuses /\ code \in Statuses
  /\ entries \in Seq(1..MaxAsks)
  /\ left \in 0..Len(entries)
  /\ removed \subseteq 1..MaxAsks

Active == {"probe", "add", "adding"}

\* An active step follows an affirmative line that was typed for its own
\* confirmation: not a menu's answer and not type-ahead.
ConfirmedBeforeActive ==
  /\ [](main \in Active => /\ Answered(Yes)
                          /\ \A i \in DOMAIN got.answer.keys : got.answer.keys[i].of = asks)
  /\ [][main' \in Active => main \in Active \cup {"decide"}]_vars

\* An exit status of 0 means that every address this guide added was removed.
ZeroMeansClean ==
  main = "over" /\ code = "ok" => \A i \in DOMAIN entries : entries[i] \in removed

\* Cleanup goes through every entry of this guide and no other, the last one
\* first, and alone: no reader is left that could take input meant for the
\* shell, and nothing can be added meanwhile.
CleanupIsLast ==
  [][main = "clean" =>
       /\ reader' = "done" /\ line' = "out" /\ entries' = entries
       /\ main' = "over" => left = 0]_vars

\* Once it is interrupted or at its end, the guide ends.
GuideEnds == ctx = "cancelled" ~> main = "over"

\* Nobody waits for ever: not the guide for its reader, not the reader for a
\* prompt, and no question behind idle polls of the terminal.
NobodyWaits == GuideEnds /\ AskServed /\ ReaderEnds

=============================================================================
