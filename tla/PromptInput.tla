----------------------------- MODULE PromptInput -----------------------------
(***************************************************************************)
(* cmd/wirepup/prompt.go, prompt_unix.go: the one reader of the terminal.  *)
(*                                                                         *)
(* A reader goroutine owns the descriptor for a whole interaction; the     *)
(* main goroutine asks it for one line at a time through promptInput.line. *)
(* The terminal is canonical: it edits a line, drops what exceeds its      *)
(* capacity, and hands over finished lines.  A key carries when it was     *)
(* typed: the request the reader was serving (0 for none) and whether that *)
(* prompt was on the screen.                                               *)
(***************************************************************************)
EXTENDS Naturals, Sequences

CONSTANTS
  Chars,             \* printable characters
  Newline, Eof,      \* the Enter and Ctrl-D keys
  MaxPromptBytes,    \* longest answer, without its newline
  LineCapacity,      \* characters the terminal keeps of one line
  EndsGuide,         \* the reader cancels the interaction when it fails (end # nil)
  MaxAsks, MaxKeys   \* bounds of a run: prompts, keys typed

ASSUME PromptAssumption ==
  /\ Newline \notin Chars /\ Eof \notin Chars /\ Newline # Eof
  /\ MaxPromptBytes \in Nat /\ LineCapacity \in Nat
  /\ MaxPromptBytes < LineCapacity
  /\ EndsGuide \in BOOLEAN
  /\ MaxAsks \in Nat /\ MaxKeys \in Nat

VARIABLES
  edit,      \* terminal: the unfinished line
  cut,       \* terminal: it dropped a character of the unfinished line
  queue,     \* terminal: finished input, ready to read
  keys,      \* keys typed so far
  reader,    \* where the reader goroutine stands
  next,      \* the request it took last, 0 for none
  request,   \* the request it serves, 0 for none
  buf,       \* the part of the answer read so far
  perr,      \* promptInput.err
  line,      \* where the main goroutine stands in line()
  asks,      \* calls of line() so far
  ready, start,   \* the current request's channels, closed or not
  reply,     \* its buffered answer
  got,       \* what the last line() returned
  ctx        \* the interaction's context

terminal == <<edit, cut, queue, keys>>
channels == <<ready, start, reply>>
reading  == <<reader, next, request, buf, perr>>
asking   == <<line, asks, got>>
promptVars == <<terminal, reading, channels, asking, ctx>>

Key == [ch: Chars \cup {Newline, Eof}, of: 0..MaxAsks, shown: BOOLEAN, cut: BOOLEAN]

\* An answer: its keys without the newline, and whether the terminal had
\* dropped part of the typed line.
Answer  == [keys: Seq(Key), cut: BOOLEAN]
NoReply == [keys |-> <<>>, cut |-> FALSE, sent |-> FALSE]
Reply(a, c) == [keys |-> a, cut |-> c, sent |-> TRUE]
Text(a) == [i \in DOMAIN a.keys |-> a.keys[i].ch]

Errors  == {"none", "eof", "cancelled", "too_long"}
Result(kind, a) == [kind |-> kind, answer |-> a]

ReaderSteps == {"top", "discard", "flush", "ready", "poll", "failing", "done"}
LineSteps   == {"out", "send", "wait", "reading"}

PromptInit ==
  /\ edit = <<>> /\ cut = FALSE /\ queue = <<>> /\ keys = 0
  /\ reader = "top" /\ next = 0 /\ request = 0 /\ buf = <<>> /\ perr = "none"
  /\ line = "out" /\ asks = 0 /\ got = Result("none", NoReply)
  /\ ready = FALSE /\ start = FALSE /\ reply = NoReply
  /\ ctx = "live"

-----------------------------------------------------------------------------
(* The user at the terminal.                                               *)

Typed(c, dropped) ==
  [ch |-> c, of |-> request, shown |-> line = "reading", cut |-> dropped]

Press ==
  /\ keys < MaxKeys      \* bound
  /\ keys' = keys + 1
  /\ UNCHANGED <<reading, channels, asking, ctx>>

TypeChar(c) ==
  /\ Press
  /\ IF Len(edit) < LineCapacity
     THEN edit' = Append(edit, Typed(c, FALSE)) /\ UNCHANGED cut
     ELSE cut' = TRUE /\ UNCHANGED edit
  /\ UNCHANGED queue

TypeNewline ==
  /\ Press
  /\ queue' = queue \o Append(edit, Typed(Newline, cut))
  /\ edit' = <<>>
  /\ cut' = FALSE

\* Ctrl-D hands over the unfinished line; on an empty one it reads as the end.
TypeEof ==
  /\ Press
  /\ queue' = IF edit = <<>> THEN Append(queue, Typed(Eof, FALSE)) ELSE queue \o edit
  /\ edit' = <<>>
  /\ UNCHANGED cut

\* A signal cancels the context everything runs under.
Signal ==
  /\ ctx = "live"
  /\ ctx' = "cancelled"
  /\ UNCHANGED <<terminal, reading, channels, asking>>

-----------------------------------------------------------------------------
(* promptInput.read                                                        *)

ReaderGoes(step) ==
  /\ reader' = step
  /\ UNCHANGED <<asking, channels>>

End == ctx' = IF EndsGuide THEN "cancelled" ELSE ctx

\* The reader returns; the deferred close(p.done) is what "done" stands for.
ReaderFails(err) ==
  /\ perr' = err
  /\ ReaderGoes("done")
  /\ UNCHANGED <<next, request, buf, keys>>

\* Mutant: select offers the request and the poll with no preference.
ReadTopFirst ==
  /\ reader = "top"
  /\ \/ ctx = "cancelled" /\ ReaderFails("cancelled") /\ UNCHANGED <<edit, cut, queue, ctx>>
     \/ ctx = "live" /\ ReaderGoes("poll") /\ UNCHANGED <<terminal, next, request, buf, perr, ctx>>

ReadTop ==
  /\ reader = "top"
  /\ \/ /\ ctx = "cancelled"
        /\ ReaderFails("cancelled")
        /\ UNCHANGED <<edit, cut, queue, ctx>>
     \/ /\ ctx = "live" /\ line # "send"
        /\ ReaderGoes("poll")
        /\ UNCHANGED <<terminal, next, request, buf, perr, ctx>>

\* The rendezvous on p.requests.
TakeRequest ==
  /\ reader = "top" /\ ctx = "live"
  /\ line = "send"
  /\ reader' = "discard"
  /\ line' = "wait"
  /\ next' = asks
  /\ UNCHANGED <<terminal, request, buf, perr, channels, asks, got, ctx>>

\* discardPromptInput: finished input is read away, then the terminal is
\* flushed.  An end of input or a cancellation fails the reader.
Discard ==
  /\ reader = "discard"
  /\ \/ /\ ctx = "live" /\ queue # <<>> /\ Head(queue).ch # Eof
        /\ queue' = Tail(queue)
        /\ UNCHANGED <<reading, channels, asking, edit, cut, keys, ctx>>
     \/ /\ ctx = "live" /\ queue = <<>>
        /\ ReaderGoes("flush")
        /\ UNCHANGED <<terminal, next, request, buf, perr, ctx>>
     \/ /\ ctx = "live" /\ queue # <<>> /\ Head(queue).ch = Eof
        /\ perr' = "eof" /\ ReaderGoes("failing")
        /\ UNCHANGED <<terminal, next, request, buf, ctx>>
     \/ /\ ctx = "cancelled"
        /\ perr' = "cancelled" /\ ReaderGoes("failing")
        /\ UNCHANGED <<terminal, next, request, buf, ctx>>

\* Mutant: the unfinished line survives the flush.
EmptiedQueue == queue' = <<>> /\ UNCHANGED <<edit, cut>>

Emptied == queue' = <<>> /\ edit' = <<>> /\ cut' = FALSE

Flush ==
  /\ reader = "flush"
  /\ Emptied
  /\ request' = next
  /\ buf' = <<>>
  /\ reader' = "ready"
  /\ ready' = (ready \/ next = asks)
  /\ UNCHANGED <<keys, next, perr, start, reply, asking, ctx>>

FlushFailing ==
  /\ reader = "failing"
  /\ Emptied
  /\ ReaderFails(perr)
  /\ End

\* <-next.start, or the context.
ReadStart ==
  /\ reader = "ready"
  /\ \/ /\ start
        /\ ReaderGoes("poll")
        /\ UNCHANGED <<terminal, next, request, buf, perr, ctx>>
     \/ /\ ctx = "cancelled"
        /\ ReaderFails("cancelled")
        /\ UNCHANGED <<edit, cut, queue, ctx>>

\* promptByte: nothing to read for 100 ms, a cancelled context, or a byte.
\* The context may end between its last check and the read.
PollIdle ==
  /\ reader = "poll"
  /\ queue = <<>> /\ ctx = "live"
  /\ ReaderGoes("top")
  /\ UNCHANGED <<terminal, next, request, buf, perr, ctx>>

PollFails ==
  /\ reader = "poll"
  /\ \/ ctx = "cancelled" /\ ReaderFails("cancelled") /\ UNCHANGED queue
     \/ queue # <<>> /\ Head(queue).ch = Eof /\ ReaderFails("eof") /\ queue' = Tail(queue)
  /\ End
  /\ UNCHANGED <<edit, cut>>

\* A byte outside a request is dropped.
ReadOutside ==
  /\ reader = "poll"
  /\ queue # <<>> /\ Head(queue).ch # Eof
  /\ request = 0
  /\ queue' = Tail(queue)
  /\ ReaderGoes("top")
  /\ UNCHANGED <<edit, cut, keys, next, request, buf, perr, ctx>>

ReadNewline ==
  /\ reader = "poll"
  /\ queue # <<>> /\ Head(queue).ch = Newline
  /\ request # 0
  /\ reply' = IF request = asks THEN Reply(buf, Head(queue).cut) ELSE reply
  /\ queue' = Tail(queue)
  /\ request' = 0
  /\ buf' = <<>>
  /\ reader' = "top"
  /\ UNCHANGED <<edit, cut, keys, next, perr, ready, start, asking, ctx>>

\* Mutant: the limit is off by one.
ReadCharMore ==
  /\ reader = "poll"
  /\ queue # <<>> /\ Head(queue).ch \in Chars
  /\ request # 0
  /\ Len(buf) <= MaxPromptBytes
  /\ buf' = Append(buf, Head(queue))
  /\ queue' = Tail(queue)
  /\ ReaderGoes("top")
  /\ UNCHANGED <<edit, cut, keys, next, request, perr, ctx>>

ReadChar ==
  /\ reader = "poll"
  /\ queue # <<>> /\ Head(queue).ch \in Chars
  /\ request # 0
  /\ Len(buf) < MaxPromptBytes
  /\ buf' = Append(buf, Head(queue))
  /\ queue' = Tail(queue)
  /\ ReaderGoes("top")
  /\ UNCHANGED <<edit, cut, keys, next, request, perr, ctx>>

\* The rejected line and what is queued behind it are discarded; the reader
\* leaves the interaction's context alone.
ReadTooLong ==
  /\ reader = "poll"
  /\ queue # <<>> /\ Head(queue).ch \in Chars
  /\ request # 0
  /\ Len(buf) >= MaxPromptBytes
  /\ Emptied
  /\ ReaderFails("too_long")
  /\ UNCHANGED ctx

Reader == \/ ReadTop \/ Discard \/ Flush \/ FlushFailing \/ ReadStart
          \/ PollIdle \/ PollFails \/ ReadOutside \/ ReadNewline \/ ReadChar \/ ReadTooLong

-----------------------------------------------------------------------------
(* promptInput.line, on the main goroutine.                                *)

Ask ==
  /\ line = "out"
  /\ asks < MaxAsks      \* bound
  /\ asks' = asks + 1
  /\ line' = "send"
  /\ ready' = FALSE /\ start' = FALSE /\ reply' = NoReply
  /\ got' = Result("none", NoReply)
  /\ UNCHANGED <<terminal, reading, ctx>>

\* The prompt is printed when the reader is ready for its answer.
Show ==
  /\ line = "wait" /\ ready
  /\ line' = "reading"
  /\ start' = TRUE
  /\ UNCHANGED <<terminal, reading, ready, reply, asks, got, ctx>>

LineReturns ==
  /\ line = "reading" /\ reply.sent
  /\ line' = "out"
  /\ got' = Result("line", reply)
  /\ UNCHANGED <<terminal, reading, channels, asks, ctx>>

\* Every select of line() also waits for p.done and the context; when several
\* are ready, any of them is taken.
LineFails ==
  /\ line # "out"
  /\ \/ reader = "done" /\ got' = Result(perr, NoReply)
     \/ ctx = "cancelled" /\ got' = Result("cancelled", NoReply)
  /\ line' = "out"
  /\ UNCHANGED <<terminal, reading, channels, asks, ctx>>

LineStep == TakeRequest \/ Show \/ LineReturns \/ LineFails

User == (\E c \in Chars : TypeChar(c)) \/ TypeNewline \/ TypeEof

PromptNext == User \/ Signal \/ Reader \/ LineStep \/ Ask

PromptSpec == PromptInit /\ [][PromptNext]_promptVars

-----------------------------------------------------------------------------
(* Properties                                                              *)

Booleans == cut \in BOOLEAN /\ ready \in BOOLEAN /\ start \in BOOLEAN

PromptTypes ==
  /\ edit \in Seq(Key) /\ queue \in Seq(Key) /\ keys \in Nat
  /\ reader \in ReaderSteps /\ next \in 0..MaxAsks /\ request \in 0..MaxAsks /\ buf \in Seq(Key)
  /\ perr \in Errors
  /\ line \in LineSteps /\ asks \in 0..MaxAsks
  /\ reply \in [keys: Seq(Key), cut: BOOLEAN, sent: BOOLEAN]
  /\ got \in [kind: Errors \cup {"line"}, answer: [keys: Seq(Key), cut: BOOLEAN, sent: BOOLEAN]]
  /\ ctx \in {"live", "cancelled"}

PromptTypeOK == Booleans /\ PromptTypes

\* What a call of line() returns was typed for that call: after the reader had
\* taken its request and flushed the terminal ("queued input is discarded
\* between questions", docs/cli-design.md).
NoStaleAnswer ==
  got.kind = "line" => \A i \in DOMAIN got.answer.keys : got.answer.keys[i].of = asks

\* An answer is the line as it was typed: neither longer than the limit nor
\* one whose end the terminal had dropped ("it is never accepted as a
\* truncated value", docs/cli-design.md).
WholeAnswer ==
  got.kind = "line" => /\ Len(got.answer.keys) <= MaxPromptBytes
                       /\ ~got.answer.cut

\* A request is served or fails: the prompt is shown or line() has returned.
AskServed == line = "send" ~> line \in {"reading", "out"}

\* The reader ends with the interaction, so <-input.done returns.
ReaderEnds == ctx = "cancelled" ~> reader = "done"

=============================================================================
