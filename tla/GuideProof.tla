----------------------------- MODULE GuideProof -----------------------------
(* Theorems about the guide and its terminal reader, for every character   *)
(* set, answers, limits and bounds.                                        *)
EXTENDS Guide, TLAPS

-----------------------------------------------------------------------------
(* Types.                                                                  *)

\* A question precedes every answer, and so every entry.
Asked == main \in Asking \cup Active => asks > 0

TypeInv == TypeOK /\ Asked

USE DEF terminal, reading, channels, asking, promptVars, guideVars, vars

LEMMA InitTypeInv == Init => TypeInv
<1>1. Init => Booleans BY DEF Init, PromptInit, Booleans
<1>2. QED
  BY <1>1, PromptAssumption
     DEF Init, PromptInit, TypeInv, TypeOK, PromptTypeOK, PromptTypes, Asked, Asking, Active, Steps,
         Statuses, ReaderSteps, LineSteps, Errors, Result, NoReply

\* The Boolean variables, apart from the rest of the types.
LEMMA BooleansStep ==
  ASSUME Booleans, User \/ Signal \/ Reader \/ LineStep \/ Ask PROVE Booleans'
<1> USE DEF Booleans
<1>1. CASE User \/ Signal
  BY <1>1 DEF User, Press, TypeChar, TypeNewline, TypeEof, Signal
<1>2. CASE ReadTop \/ Discard \/ FlushFailing \/ ReadStart \/ PollIdle \/ PollFails
  BY <1>2 DEF ReadTop, Discard, FlushFailing, ReadStart, PollIdle, PollFails,
              ReaderGoes, ReaderFails, Emptied
<1>3. CASE ReadOutside \/ ReadNewline \/ ReadChar \/ ReadTooLong
  BY <1>3 DEF ReadOutside, ReadNewline, ReadChar, ReadTooLong, ReaderGoes, ReaderFails, Emptied
<1>4. CASE Flush BY <1>4 DEF Flush, Emptied
<1>5. CASE LineStep \/ Ask
  BY <1>5 DEF LineStep, Ask, TakeRequest, Show, LineReturns, LineFails
<1>6. QED BY <1>1, <1>2, <1>3, <1>4, <1>5 DEF Reader

\* What an element, the rest and an extension of a sequence are.
LEMMA ElementType ==
  ASSUME NEW S, NEW s \in Seq(S), NEW i \in 1..Len(s) PROVE s[i] \in S
OBVIOUS

LEMMA TailType ==
  ASSUME NEW S, NEW s \in Seq(S), s # <<>> PROVE Head(s) \in S /\ Tail(s) \in Seq(S)
OBVIOUS

LEMMA AppendType ==
  ASSUME NEW S, NEW s \in Seq(S), NEW e \in S PROVE Append(s, e) \in Seq(S)
OBVIOUS

\* What the user types is a key.
LEMMA TypedIsKey ==
  ASSUME PromptTypes, NEW c \in Chars \cup {Newline, Eof}, NEW d \in BOOLEAN
  PROVE  Typed(c, d) \in Key
BY DEF PromptTypes, Typed, Key

LEMMA UserTypes ==
  ASSUME PromptTypeOK, User PROVE PromptTypes'
<1> USE PromptAssumption DEF PromptTypes, Press
<1>0. PromptTypes /\ cut \in BOOLEAN BY DEF PromptTypeOK, Booleans
<1>1. ASSUME NEW c \in Chars, TypeChar(c) PROVE PromptTypes'
  <2>1. Typed(c, FALSE) \in Key BY <1>0, TypedIsKey
  <2>2. Append(edit, Typed(c, FALSE)) \in Seq(Key) BY <1>0, <2>1, AppendType, Zenon
  <2>2a. edit' \in {edit, Append(edit, Typed(c, FALSE))} BY <1>1 DEF TypeChar
  <2>2b. edit' \in Seq(Key) BY <1>0, <2>2, <2>2a
  <2>3. QED BY <1>0, <1>1, <2>2b DEF TypeChar
<1>2. CASE TypeNewline
  <2>1. Typed(Newline, cut) \in Key BY <1>0, TypedIsKey
  <2>2. Append(edit, Typed(Newline, cut)) \in Seq(Key) BY <1>0, <2>1
  <2>3. queue' \in Seq(Key) BY <1>0, <1>2, <2>2 DEF TypeNewline
  <2>4. QED BY <1>0, <1>2, <2>3 DEF TypeNewline
<1>3. CASE TypeEof
  <2>1. Typed(Eof, FALSE) \in Key BY <1>0, TypedIsKey
  <2>2. Append(queue, Typed(Eof, FALSE)) \in Seq(Key) BY <1>0, <2>1, AppendType, Zenon
  <2>2a. queue \o edit \in Seq(Key) BY <1>0
  <2>3. queue' \in {Append(queue, Typed(Eof, FALSE)), queue \o edit} BY <1>3 DEF TypeEof
  <2>4. queue' \in Seq(Key) BY <2>2, <2>2a, <2>3, Zenon
  <2>5. Press /\ edit' = <<>> BY <1>3 DEF TypeEof
  <2>6. QED BY <1>0, <2>4, <2>5
<1>4. QED BY <1>1, <1>2, <1>3 DEF User

LEMMA ReaderTypes ==
  ASSUME PromptTypes, Reader PROVE PromptTypes'
<1> USE PromptAssumption DEF PromptTypes, ReaderSteps, Errors, ReaderGoes, ReaderFails, End, Emptied
<1>1. CASE ReadTop BY <1>1 DEF ReadTop
<1>2. CASE Discard
  <2>1. queue # <<>> => Tail(queue) \in Seq(Key) OBVIOUS
  <2>2. QED BY <1>2, <2>1 DEF Discard
<1>3. CASE Flush BY <1>3 DEF Flush
<1>4. CASE FlushFailing BY <1>4 DEF FlushFailing
<1>5. CASE ReadStart BY <1>5 DEF ReadStart
<1>6. CASE PollIdle BY <1>6 DEF PollIdle
<1>7. CASE PollFails
  <2>1. queue' = queue \/ (queue # <<>> /\ queue' = Tail(queue)) BY <1>7 DEF PollFails
  <2>1a. queue \in Seq(Key) OBVIOUS
  <2>1b. queue # <<>> => Tail(queue) \in Seq(Key) BY <2>1a, TailType
  <2>2. queue' \in Seq(Key) BY <2>1, <2>1a, <2>1b, Zenon
  <2>3. perr' \in Errors /\ reader' \in ReaderSteps /\ ctx' \in {"live", "cancelled"}
    BY <1>7 DEF PollFails
  <2>4. QED BY <1>7, <2>2, <2>3 DEF PollFails
<1>8. CASE ReadOutside BY <1>8 DEF ReadOutside
<1>9. CASE ReadNewline
  <2>1. Head(queue) \in Key BY <1>9 DEF ReadNewline
  <2>2. Reply(buf, Head(queue).cut) \in [keys: Seq(Key), cut: BOOLEAN, sent: BOOLEAN]
    BY <2>1 DEF Reply, Key
  <2>3. QED BY <1>9, <2>2 DEF ReadNewline
<1>10. CASE ReadChar
  <2>1. Head(queue) \in Key BY <1>10 DEF ReadChar
  <2>2. buf' \in Seq(Key) /\ queue' \in Seq(Key) BY <1>10, <2>1 DEF ReadChar
  <2>3. QED BY <1>10, <2>2 DEF ReadChar
<1>11. CASE ReadTooLong BY <1>11 DEF ReadTooLong
<1>12. QED
  BY <1>1, <1>2, <1>3, <1>4, <1>5, <1>6, <1>7, <1>8, <1>9, <1>10, <1>11 DEF Reader

LEMMA LineTypes ==
  ASSUME PromptTypes, LineStep \/ Ask \/ Signal PROVE PromptTypes'
<1> USE PromptAssumption DEF PromptTypes, ReaderSteps, LineSteps, Errors, Result
<1>1. CASE TakeRequest BY <1>1 DEF TakeRequest
<1>2. CASE Show BY <1>2 DEF Show
<1>3. CASE LineReturns BY <1>3 DEF LineReturns
<1>4. CASE LineFails
  <2>1. NoReply \in [keys: Seq(Key), cut: BOOLEAN, sent: BOOLEAN] BY DEF NoReply
  <2>2. got' \in [kind: Errors \cup {"line"}, answer: [keys: Seq(Key), cut: BOOLEAN, sent: BOOLEAN]]
    BY <1>4, <2>1 DEF LineFails
  <2>3. QED BY <1>4, <2>2 DEF LineFails
<1>5. CASE Ask BY <1>5 DEF Ask, NoReply
<1>6. CASE Signal BY <1>6 DEF Signal
<1>7. QED BY <1>1, <1>2, <1>3, <1>4, <1>5, <1>6 DEF LineStep

LEMMA PromptStepType ==
  ASSUME PromptTypeOK, User \/ Signal \/ Reader \/ LineStep \/ Ask PROVE PromptTypeOK'
BY BooleansStep, UserTypes, ReaderTypes, LineTypes DEF PromptTypeOK

LEMMA StillAsked ==
  ASSUME TypeInv, main' = main, asks' = asks PROVE Asked'
BY DEF TypeInv, Asked

\* Main steps that leave the prompt alone.
LEMMA MainType ==
  ASSUME TypeInv, MainStep, UNCHANGED promptVars PROVE TypeInv'
<1> USE DEF TypeInv, TypeOK, Asked, Asking, Active, Steps, Statuses, Goto
<1>0. PromptTypeOK' BY DEF PromptTypeOK, PromptTypes, Booleans
<1>1. CASE MenuCancelled \/ ChooseQuit \/ ChooseFails
  BY <1>0, <1>1 DEF MenuCancelled, ChooseQuit, ChooseFails, Exit
<1>2. CASE ChooseOperation \/ ChooseConnect \/ ChooseAgain
  BY <1>0, <1>2 DEF ChooseOperation, ChooseConnect, ChooseAgain, Execute
<1>3. CASE OperationEnds \/ NotAsked \/ Aborted \/ ProbeRefuses \/ AddRefused \/ NotAdded
  BY <1>0, <1>3 DEF OperationEnds, NotAsked, Aborted, ProbeRefuses, AddRefused, NotAdded, Ends
<1>4. CASE ConfirmYes \/ ProbeClear \/ AddStarts
  BY <1>0, <1>4 DEF ConfirmYes, Decision, ProbeClear, AddStarts
<1>5. CASE Added
  <2>1. asks \in 1..MaxAsks BY <1>5, PromptAssumption DEF Added, PromptTypeOK, PromptTypes
  <2>2. entries' \in Seq(1..MaxAsks) /\ Len(entries') = Len(entries) + 1
    BY <1>5, <2>1 DEF Added
  <2>3. left' \in 0..Len(entries') BY <1>5, <2>2 DEF Added, Ends
  <2>4. QED BY <1>0, <1>5, <2>2, <2>3 DEF Added, Ends
<1>6. CASE Join BY <1>0, <1>6 DEF Join
<1>7. CASE CleanOK \/ CleanFails
  <2>1. left' \in 0..Len(entries) BY <1>7 DEF CleanOK, CleanFails, Clean
  <2>2. left > 0 => entries[left] \in 1..MaxAsks
    <3>1. entries \in Seq(1..MaxAsks) /\ left \in 0..Len(entries) OBVIOUS
    <3>2. left > 0 => left \in 1..Len(entries) BY <3>1
    <3>3. QED BY <3>1, <3>2, ElementType, Zenon
  <2>3. removed' \subseteq 1..MaxAsks BY <1>7, <2>2 DEF CleanOK, CleanFails, Clean
  <2>4. QED BY <1>0, <1>7, <2>1, <2>3 DEF CleanOK, CleanFails, Clean
<1>8. CASE Over BY <1>0, <1>8 DEF Over
<1>9. CASE AskMenu \/ AskConfirm
  BY <1>9 DEF AskMenu, AskConfirm, Ask, PromptTypeOK, PromptTypes
<1>10. CASE Close
  BY <1>0, <1>10 DEF Close
<1>11. QED
  BY <1>1, <1>2, <1>3, <1>4, <1>5, <1>6, <1>7, <1>8, <1>9, <1>10 DEF MainStep

\* Main steps that touch the prompt.
LEMMA MainPromptType ==
  ASSUME TypeInv, AskMenu \/ AskConfirm \/ Close PROVE TypeInv'
<1> USE DEF TypeInv, TypeOK, Asked, Asking, Active, Steps, Goto
<1>1. CASE AskMenu \/ AskConfirm
  <2>1. PromptTypeOK' BY <1>1, PromptStepType DEF AskMenu, AskConfirm
  <2>2. asks' > 0 BY <1>1 DEF AskMenu, AskConfirm, Ask, PromptTypeOK, PromptTypes
  <2>3. QED BY <1>1, <2>1, <2>2 DEF AskMenu, AskConfirm
<1>2. CASE Close
  <2>1. PromptTypeOK' BY <1>2 DEF Close, PromptTypeOK, PromptTypes, Booleans
  <2>2. QED BY <1>2, <2>1 DEF Close
<1>3. QED BY <1>1, <1>2

\* Every step of the guide's main goroutine leaves the prompt alone or is one
\* of three.
LEMMA MainKinds ==
  ASSUME MainStep PROVE AskMenu \/ AskConfirm \/ Close \/ UNCHANGED promptVars
BY DEF MainStep, MenuCancelled, ChooseQuit, ChooseFails, Exit, ChooseOperation, ChooseConnect,
       Execute, ChooseAgain, OperationEnds, NotAsked, ConfirmYes, Aborted, ProbeClear,
       ProbeRefuses, AddStarts, AddRefused, Added, NotAdded, Ends, Join, Clean, CleanOK,
       CleanFails, Over

LEMMA NextTypeInv == TypeInv /\ [Next]_vars => TypeInv'
<1> SUFFICES ASSUME TypeInv, [Next]_vars PROVE TypeInv'
  OBVIOUS
<1>1. CASE MainStep BY <1>1, MainKinds, MainType, MainPromptType
<1>2. CASE InLine
  <2>1. asks' = asks BY <1>2 DEF InLine, LineStep, TakeRequest, Show, LineReturns, LineFails
  <2>2. PromptTypeOK' BY <1>2, PromptStepType DEF InLine, TypeInv, TypeOK
  <2>3. QED BY <1>2, <2>1, <2>2, StillAsked DEF InLine, TypeInv, TypeOK
<1>3. CASE Reads
  <2>1. asks' = asks
    BY <1>3 DEF Reads, Reader, ReadTop, Discard, Flush, FlushFailing, ReadStart, PollIdle,
                PollFails, ReadOutside, ReadNewline, ReadChar, ReadTooLong, ReaderGoes, ReaderFails
  <2>2. PromptTypeOK' BY <1>3, PromptStepType DEF Reads, TypeInv, TypeOK
  <2>3. QED BY <1>3, <2>1, <2>2, StillAsked DEF Reads, TypeInv, TypeOK
<1>4. CASE Outside
  <2>1. asks' = asks BY <1>4 DEF Outside, User, TypeChar, TypeNewline, TypeEof, Press, Signal
  <2>2. PromptTypeOK' BY <1>4, PromptStepType DEF Outside, TypeInv, TypeOK
  <2>3. QED BY <1>4, <2>1, <2>2, StillAsked DEF Outside, TypeInv, TypeOK
<1>5. CASE UNCHANGED vars
  <2>1. PromptTypeOK' BY <1>5 DEF TypeInv, TypeOK, PromptTypeOK, PromptTypes, Booleans
  <2>2. QED BY <1>5, <2>1 DEF TypeInv, TypeOK, Asked
<1>6. QED BY <1>1, <1>2, <1>3, <1>4, <1>5 DEF Next, Terminated

\* The guide's state is always of its type: cleanup's index stays within the
\* entries, requests within the questions asked.
THEOREM GuideTypeCorrect == Spec => []TypeOK
<1>1. TypeInv => TypeOK BY DEF TypeInv
<1>2. QED BY <1>1, InitTypeInv, NextTypeInv, PTL DEF Spec

-----------------------------------------------------------------------------
(* Answers belong to their question.                                       *)

ForRequest(s, r) == \A i \in DOMAIN s : s[i].of = r

\* While the reader serves a request, whatever is in the terminal or in its
\* buffer was typed for it.
ServesOnly ==
  request # 0 => ForRequest(queue, request) /\ ForRequest(edit, request) /\ ForRequest(buf, request)

ReplyFresh == reply.sent => ForRequest(reply.keys, asks)

GotFresh == got.kind = "line" => ForRequest(got.answer.keys, asks)

FreshInv == ServesOnly /\ ReplyFresh /\ GotFresh

LEMMA EmptyOf == ASSUME NEW r PROVE ForRequest(<<>>, r)
BY DEF ForRequest

LEMMA AppendOf ==
  ASSUME NEW s \in Seq(Key), NEW k \in Key, NEW r, ForRequest(s, r), k.of = r
  PROVE  ForRequest(Append(s, k), r)
BY DEF ForRequest

LEMMA ConcatOf ==
  ASSUME NEW s \in Seq(Key), NEW t \in Seq(Key), NEW r, ForRequest(s, r), ForRequest(t, r)
  PROVE  ForRequest(s \o t, r)
BY DEF ForRequest

LEMMA TailOf ==
  ASSUME NEW s \in Seq(Key), s # <<>>, NEW r, ForRequest(s, r)
  PROVE  ForRequest(Tail(s), r) /\ Head(s).of = r
<1>1. \A i \in DOMAIN Tail(s) : i + 1 \in DOMAIN s /\ Tail(s)[i] = s[i + 1] OBVIOUS
<1>2. 1 \in DOMAIN s /\ Head(s) = s[1] OBVIOUS
<1>3. QED BY <1>1, <1>2 DEF ForRequest

\* What is typed is for the request that is served.
LEMMA TypedOf ==
  ASSUME NEW c, NEW d PROVE Typed(c, d).of = request
BY DEF Typed

LEMMA InitFresh == Init => FreshInv
BY DEF Init, PromptInit, FreshInv, ServesOnly, ReplyFresh, GotFresh, NoReply, Result

LEMMA UserFresh ==
  ASSUME PromptTypeOK, FreshInv, User PROVE FreshInv'
<1>0. edit \in Seq(Key) /\ queue \in Seq(Key) /\ cut \in BOOLEAN
  BY DEF PromptTypeOK, PromptTypes, Booleans
<1>a. PromptTypes BY DEF PromptTypeOK
<1>1. UNCHANGED <<request, buf, reply, got, asks>>
  BY DEF User, TypeChar, TypeNewline, TypeEof, Press
<1>2. SUFFICES ASSUME request # 0 PROVE ForRequest(queue', request) /\ ForRequest(edit', request)
  BY <1>1 DEF FreshInv, ServesOnly, ReplyFresh, GotFresh, ForRequest
<1>3. ForRequest(queue, request) /\ ForRequest(edit, request) BY <1>2 DEF FreshInv, ServesOnly
<1>4. ASSUME NEW c \in Chars, TypeChar(c) PROVE ForRequest(queue', request) /\ ForRequest(edit', request)
  <2>1. Typed(c, FALSE) \in Key /\ Typed(c, FALSE).of = request BY <1>a, TypedIsKey, TypedOf
  <2>2. ForRequest(Append(edit, Typed(c, FALSE)), request) BY <1>0, <1>3, <2>1, AppendOf, Zenon
  <2>3. queue' = queue /\ edit' \in {edit, Append(edit, Typed(c, FALSE))} BY <1>4 DEF TypeChar
  <2>4. QED BY <1>3, <2>2, <2>3, Zenon
<1>5. CASE TypeNewline
  <2>1. Typed(Newline, cut) \in Key /\ Typed(Newline, cut).of = request
    BY <1>0, <1>a, TypedIsKey, TypedOf
  <2>2. ForRequest(Append(edit, Typed(Newline, cut)), request) BY <1>0, <1>3, <2>1, AppendOf, Zenon
  <2>3. Append(edit, Typed(Newline, cut)) \in Seq(Key) BY <1>0, <2>1, AppendType, Zenon
  <2>4. ForRequest(queue \o Append(edit, Typed(Newline, cut)), request)
    BY <1>0, <1>3, <2>2, <2>3, ConcatOf, Zenon
  <2>5. edit' = <<>> /\ queue' = queue \o Append(edit, Typed(Newline, cut)) BY <1>5 DEF TypeNewline
  <2>6. QED BY <2>4, <2>5, EmptyOf, Zenon
<1>6. CASE TypeEof
  <2>1. Typed(Eof, FALSE) \in Key /\ Typed(Eof, FALSE).of = request BY <1>a, TypedIsKey, TypedOf
  <2>2. ForRequest(Append(queue, Typed(Eof, FALSE)), request) BY <1>0, <1>3, <2>1, AppendOf, Zenon
  <2>3. ForRequest(queue \o edit, request) BY <1>0, <1>3, ConcatOf, Zenon
  <2>4. edit' = <<>> /\ queue' \in {Append(queue, Typed(Eof, FALSE)), queue \o edit}
    BY <1>6 DEF TypeEof
  <2>5. QED BY <2>2, <2>3, <2>4, EmptyOf, Zenon
<1>7. QED BY <1>4, <1>5, <1>6 DEF User

\* Reader steps that take nothing but may drop input.
Dropping ==
  /\ UNCHANGED <<reply, got, asks>>
  /\ request' \in {0, request}
  /\ buf' \in {<<>>, buf}
  /\ edit' \in {<<>>, edit}
  /\ queue' \in {<<>>, queue} \/ (queue # <<>> /\ queue' = Tail(queue))

LEMMA DroppingFresh ==
  ASSUME PromptTypeOK, FreshInv, Dropping PROVE FreshInv'
<1>1. ReplyFresh' /\ GotFresh'
  BY DEF FreshInv, ReplyFresh, GotFresh, Dropping
<1>2. SUFFICES ASSUME request' # 0 PROVE ServesOnly'
  BY <1>1 DEF FreshInv, ServesOnly
<1>3. request' = request /\ ForRequest(queue, request) /\ ForRequest(edit, request)
      /\ ForRequest(buf, request)
  BY <1>2 DEF Dropping, FreshInv, ServesOnly
<1>4. queue \in Seq(Key) BY DEF PromptTypeOK, PromptTypes
<1>5. ForRequest(queue', request)
  BY <1>3, <1>4, EmptyOf, TailOf, Zenon DEF Dropping
<1>6. ForRequest(edit', request) /\ ForRequest(buf', request)
  BY <1>3, EmptyOf, Zenon DEF Dropping
<1>7. QED BY <1>3, <1>5, <1>6 DEF ServesOnly

LEMMA ReaderFresh ==
  ASSUME PromptTypeOK, FreshInv, Reader PROVE FreshInv'
<1>1. CASE ReadTop \/ Discard \/ FlushFailing \/ ReadStart \/ PollIdle
  <2>1. Dropping
    BY <1>1 DEF Dropping, ReadTop, Discard, FlushFailing, ReadStart, PollIdle,
                ReaderGoes, ReaderFails, Emptied
  <2>2. QED BY <2>1, DroppingFresh
<1>2. CASE PollFails \/ ReadOutside \/ ReadTooLong
  <2>1. Dropping
    BY <1>2 DEF Dropping, PollFails, ReadOutside, ReadTooLong, ReaderGoes, ReaderFails, Emptied
  <2>2. QED BY <2>1, DroppingFresh
<1>3. CASE Flush
  <2>1. queue' = <<>> /\ edit' = <<>> /\ buf' = <<>> /\ UNCHANGED <<reply, got, asks>>
    BY <1>3 DEF Flush, Emptied
  <2>2. ServesOnly' BY <2>1, EmptyOf DEF ServesOnly
  <2>3. QED BY <2>1, <2>2 DEF FreshInv, ReplyFresh, GotFresh
<1>4. CASE ReadNewline
  <2>1. request' = 0 /\ UNCHANGED <<got, asks>> BY <1>4 DEF ReadNewline
  <2>2. ForRequest(buf, request) BY <1>4 DEF ReadNewline, FreshInv, ServesOnly
  <2>3. (request = asks /\ reply'.keys = buf) \/ reply' = reply BY <1>4 DEF ReadNewline, Reply
  <2>4. ReplyFresh' BY <2>1, <2>2, <2>3 DEF FreshInv, ReplyFresh
  <2>5. QED BY <2>1, <2>4 DEF FreshInv, ServesOnly, GotFresh
<1>5. CASE ReadChar
  <2>1. queue \in Seq(Key) /\ buf \in Seq(Key) /\ queue # <<>>
    BY <1>5 DEF PromptTypeOK, PromptTypes, ReadChar
  <2>2. ForRequest(queue, request) /\ ForRequest(buf, request) /\ ForRequest(edit, request)
    BY <1>5 DEF ReadChar, FreshInv, ServesOnly
  <2>3. Head(queue) \in Key /\ Head(queue).of = request /\ ForRequest(Tail(queue), request)
    BY <2>1, <2>2, TailOf, TailType
  <2>4. ForRequest(Append(buf, Head(queue)), request) BY <2>1, <2>2, <2>3, AppendOf
  <2>5. queue' = Tail(queue) /\ buf' = Append(buf, Head(queue))
        /\ UNCHANGED <<edit, request, reply, got, asks>>
    BY <1>5 DEF ReadChar, ReaderGoes
  <2>6. ServesOnly' BY <2>2, <2>3, <2>4, <2>5 DEF ServesOnly
  <2>7. QED BY <2>5, <2>6 DEF FreshInv, ReplyFresh, GotFresh
<1>6. QED BY <1>1, <1>2, <1>3, <1>4, <1>5 DEF Reader

LEMMA LineFresh ==
  ASSUME PromptTypeOK, FreshInv, LineStep \/ Ask \/ Signal PROVE FreshInv'
<1> USE DEF FreshInv, ServesOnly, ReplyFresh, GotFresh
<1>1. CASE TakeRequest \/ Show \/ Signal
  BY <1>1 DEF TakeRequest, Show, Signal, ForRequest
<1>2. CASE LineReturns BY <1>2 DEF LineReturns, Result, ForRequest
<1>3. CASE LineFails
  <2>1. perr \in Errors BY DEF PromptTypeOK, PromptTypes
  <2>2. got'.kind \in Errors BY <1>3, <2>1 DEF LineFails, Result, Errors
  <2>3. got'.kind # "line" BY <2>2 DEF Errors
  <2>4. QED BY <1>3, <2>3 DEF LineFails, ForRequest
<1>4. CASE Ask BY <1>4 DEF Ask, NoReply, Result, ForRequest
<1>5. QED BY <1>1, <1>2, <1>3, <1>4 DEF LineStep

LEMMA SameFresh ==
  ASSUME FreshInv, UNCHANGED <<queue, edit, buf, request, reply, got, asks>> PROVE FreshInv'
BY DEF FreshInv, ServesOnly, ReplyFresh, GotFresh, ForRequest

LEMMA NextFresh == TypeInv /\ FreshInv /\ [Next]_vars => FreshInv'
<1> SUFFICES ASSUME TypeInv, FreshInv, [Next]_vars PROVE FreshInv'
  OBVIOUS
<1>0. PromptTypeOK BY DEF TypeInv, TypeOK
<1>1. CASE MainStep
  <2>1. CASE AskMenu \/ AskConfirm BY <1>0, <2>1, LineFresh DEF AskMenu, AskConfirm
  <2>2. CASE Close \/ UNCHANGED promptVars BY <2>2, SameFresh DEF Close
  <2>3. QED BY <1>1, <2>1, <2>2, MainKinds
<1>2. CASE InLine BY <1>0, <1>2, LineFresh DEF InLine
<1>3. CASE Reads BY <1>0, <1>3, ReaderFresh DEF Reads
<1>4. CASE Outside BY <1>0, <1>4, UserFresh, LineFresh DEF Outside
<1>5. CASE UNCHANGED vars BY <1>5, SameFresh
<1>6. QED BY <1>1, <1>2, <1>3, <1>4, <1>5 DEF Next, Terminated

LEMMA FreshInvariant == Spec => [](TypeInv /\ FreshInv)
BY InitTypeInv, NextTypeInv, InitFresh, NextFresh, PTL DEF Spec

\* No answer holds a key that was typed before its own question was put to
\* the terminal, whatever is typed and whenever the calls are abandoned.
THEOREM NeverStale == Spec => []NoStaleAnswer
<1>1. FreshInv => NoStaleAnswer BY DEF FreshInv, GotFresh, NoStaleAnswer, ForRequest
<1>2. QED BY <1>1, FreshInvariant, PTL

-----------------------------------------------------------------------------
(* Answers are whole.                                                      *)

\* The last LineCapacity of the first n keys hold no newline.
LongLine(s, n) ==
  n >= LineCapacity /\ \A j \in 1..n : n - LineCapacity < j => s[j].ch # Newline

\* A terminal drops keys only of a line that fills it: before a newline that
\* remembers it, and behind the last newline while it does, is a long line.
LongWhereCut(s, dropped) ==
  /\ \A i \in 1..Len(s) : s[i].cut => LongLine(s, i - 1)
  /\ dropped => LongLine(s, Len(s))

\* What is not yet answered of the request that is served.
Unanswered == (buf \o queue) \o edit

Within == Len(buf) <= MaxPromptBytes /\ \A i \in 1..Len(edit) : edit[i].ch # Newline

CutIsLong == request # 0 /\ reader \in {"top", "ready", "poll"} => LongWhereCut(Unanswered, cut)

Whole(r) == Len(r.keys) <= MaxPromptBytes /\ ~r.cut

Answers == Whole(reply) /\ (got.kind = "line" => Whole(got.answer))

WholeInv == Within /\ CutIsLong /\ Answers

LEMMA CapacityTyped == MaxPromptBytes \in Nat /\ LineCapacity \in Nat /\ MaxPromptBytes < LineCapacity
BY PromptAssumption

\* A key behind the others: only a newline ends the line it is in.
LEMMA LongAppend ==
  ASSUME NEW s \in Seq(Key), NEW k \in Key, NEW c \in BOOLEAN, NEW d \in BOOLEAN,
         LongWhereCut(s, c), k.cut => c, d => c /\ k.ch # Newline
  PROVE  LongWhereCut(Append(s, k), d)
<1> DEFINE t == Append(s, k)
<1>1. /\ Len(s) \in Nat /\ t \in Seq(Key) /\ Len(t) = Len(s) + 1 /\ t[Len(s) + 1] = k
      /\ \A i \in 1..Len(s) : t[i] = s[i]
  OBVIOUS
<1> HIDE DEF t
<1>2. ASSUME NEW n \in 0..Len(s), LongLine(s, n)  PROVE LongLine(t, n)
  BY <1>1, <1>2 DEF LongLine
<1>3. ASSUME NEW i \in 1..Len(t), t[i].cut  PROVE LongLine(t, i - 1)
  <2>1. CASE i \in 1..Len(s)
    <3>1. LongLine(s, i - 1) /\ i - 1 \in 0..Len(s)  BY <1>1, <1>3, <2>1 DEF LongWhereCut
    <3> QED  BY <1>2, <3>1
  <2>2. CASE i = Len(s) + 1
    <3>1. LongLine(s, Len(s)) /\ i - 1 = Len(s)  BY <1>1, <1>3, <2>2 DEF LongWhereCut
    <3> QED  BY <1>1, <1>2, <3>1
  <2> QED  BY <1>1, <2>1, <2>2
<1>4. ASSUME d  PROVE LongLine(t, Len(t))
  <2>1. LongLine(s, Len(s)) /\ k.ch # Newline  BY <1>4 DEF LongWhereCut
  <2>2. Len(t) >= LineCapacity  BY <1>1, <2>1, CapacityTyped DEF LongLine
  <2>3. ASSUME NEW j \in 1..Len(t), Len(t) - LineCapacity < j  PROVE t[j].ch # Newline
    <3>1. CASE j = Len(s) + 1  BY <1>1, <2>1, <3>1
    <3>2. CASE j \in 1..Len(s)
      <4>1. Len(s) - LineCapacity < j  BY <1>1, <2>3, CapacityTyped
      <4> QED  BY <1>1, <2>1, <3>2, <4>1 DEF LongLine
    <3> QED  BY <1>1, <3>1, <3>2
  <2> QED  BY <2>2, <2>3 DEF LongLine
<1> QED  BY <1>3, <1>4 DEF LongWhereCut, t

\* A key that is dropped: the line fills the terminal.
LEMMA LongDrop ==
  ASSUME NEW s \in Seq(Key), NEW e \in Seq(Key), NEW c \in BOOLEAN, LongWhereCut(s \o e, c),
         Len(e) >= LineCapacity, \A i \in 1..Len(e) : e[i].ch # Newline
  PROVE  LongWhereCut(s \o e, TRUE)
<1> DEFINE t == s \o e
<1>1. /\ Len(s) \in Nat /\ Len(e) \in Nat /\ Len(t) = Len(s) + Len(e)
      /\ \A j \in 1..Len(t) : Len(s) < j => j - Len(s) \in 1..Len(e) /\ t[j] = e[j - Len(s)]
  OBVIOUS
<1> HIDE DEF t
<1>2. Len(t) >= LineCapacity  BY <1>1, CapacityTyped
<1>3. ASSUME NEW j \in 1..Len(t), Len(t) - LineCapacity < j  PROVE t[j].ch # Newline
  <2>1. Len(s) < j  BY <1>1, <1>3, CapacityTyped
  <2> QED  BY <1>1, <2>1
<1>4. LongLine(t, Len(t))  BY <1>2, <1>3 DEF LongLine
<1> QED  BY <1>4 DEF LongWhereCut, t

LEMMA InitWhole == Init => WholeInv
<1> SUFFICES ASSUME Init  PROVE WholeInv  OBVIOUS
<1> USE CapacityTyped DEF Init, PromptInit
<1>1. Within  BY DEF Within
<1>2. CutIsLong  BY DEF CutIsLong
<1>3. Answers  BY DEF Answers, Whole, NoReply, Result
<1> QED  BY <1>1, <1>2, <1>3 DEF WholeInv

\* The types that the steps below need.
LEMMA WholeTypes ==
  ASSUME PromptTypeOK
  PROVE  /\ buf \in Seq(Key) /\ queue \in Seq(Key) /\ edit \in Seq(Key) /\ cut \in BOOLEAN
         /\ buf \o queue \in Seq(Key) /\ Unanswered \in Seq(Key)
BY DEF PromptTypeOK, PromptTypes, Booleans, Unanswered

LEMMA ConcatAppend ==
  ASSUME NEW s \in Seq(Key), NEW t \in Seq(Key), NEW k \in Key
  PROVE  s \o Append(t, k) = Append(s \o t, k)
OBVIOUS

LEMMA ConcatAssoc ==
  ASSUME NEW s \in Seq(Key), NEW t \in Seq(Key), NEW u \in Seq(Key)
  PROVE  (s \o t) \o u = s \o (t \o u)
OBVIOUS

LEMMA ConcatEmpty == ASSUME NEW s \in Seq(Key) PROVE s \o <<>> = s
OBVIOUS

LEMMA KeyLast ==
  ASSUME NEW s \in Seq(Key), NEW k \in Key, NEW c, \A i \in 1..Len(s) : s[i].ch # c, k.ch # c
  PROVE  \A i \in 1..Len(Append(s, k)) : Append(s, k)[i].ch # c
OBVIOUS

LEMMA UserWhole ==
  ASSUME PromptTypeOK, WholeInv, User
  PROVE  WholeInv'
<1>1. UNCHANGED <<reader, request, buf, reply, got>>  BY DEF User, TypeChar, TypeNewline, TypeEof, Press
<1>2. Answers'  BY <1>1 DEF WholeInv, Answers, Whole
<1>3. /\ PromptTypes /\ buf \in Seq(Key) /\ queue \in Seq(Key) /\ edit \in Seq(Key) /\ cut \in BOOLEAN
      /\ buf \o queue \in Seq(Key) /\ Unanswered \in Seq(Key)
  BY WholeTypes DEF PromptTypeOK
<1>4. Len(buf) <= MaxPromptBytes /\ \A i \in 1..Len(edit) : edit[i].ch # Newline  BY DEF WholeInv, Within
<1>5. SUFFICES /\ \A i \in 1..Len(edit') : edit'[i].ch # Newline
               /\ LongWhereCut(Unanswered, cut) => LongWhereCut(Unanswered', cut')
  BY <1>1, <1>2, <1>4 DEF WholeInv, Within, CutIsLong
<1>6. ASSUME NEW c \in Chars, TypeChar(c)
      PROVE  /\ \A i \in 1..Len(edit') : edit'[i].ch # Newline
             /\ LongWhereCut(Unanswered, cut) => LongWhereCut(Unanswered', cut')
  <2> DEFINE k == Typed(c, FALSE)
  <2>1. k \in Key /\ k.cut = FALSE /\ k.ch # Newline
    BY <1>3, TypedIsKey, PromptAssumption DEF Typed
  <2> HIDE DEF k
  <2>2. CASE Len(edit) < LineCapacity
    <3>1. edit' = Append(edit, k) /\ cut' = cut /\ queue' = queue  BY <1>6, <2>2 DEF TypeChar, k
    <3>2. Unanswered' = Append(Unanswered, k)  BY <1>1, <1>3, <2>1, <3>1, ConcatAppend DEF Unanswered
    <3>3. \A i \in 1..Len(edit') : edit'[i].ch # Newline  BY <1>3, <1>4, <2>1, <3>1, KeyLast
    <3> QED  BY <1>3, <2>1, <3>1, <3>2, <3>3, LongAppend
  <2>3. CASE ~(Len(edit) < LineCapacity)
    <3>1. edit' = edit /\ cut' = TRUE /\ queue' = queue  BY <1>6, <2>3 DEF TypeChar
    <3>2. Unanswered' = Unanswered  BY <1>1, <3>1 DEF Unanswered
    <3>3. Len(edit) >= LineCapacity  BY <1>3, <2>3, CapacityTyped
    <3>4. LongWhereCut(Unanswered, cut) => LongWhereCut(Unanswered, TRUE)
      BY <1>3, <1>4, <3>3, LongDrop DEF Unanswered
    <3> QED  BY <1>4, <3>1, <3>2, <3>4
  <2> QED  BY <2>2, <2>3
<1>7. CASE TypeNewline
  <2> DEFINE k == Typed(Newline, cut)
  <2>1. k \in Key /\ k.cut = cut  BY <1>3, TypedIsKey DEF Typed
  <2> HIDE DEF k
  <2>2. edit' = <<>> /\ cut' = FALSE /\ queue' = queue \o Append(edit, k)  BY <1>7 DEF TypeNewline, k
  <2>3. Unanswered' = Append(Unanswered, k)
    <3>1. Append(edit, k) \in Seq(Key) /\ queue' \in Seq(Key) /\ buf \o queue' \in Seq(Key)
      BY <1>3, <2>1, <2>2
    <3>2. Unanswered' = buf \o queue'  BY <1>1, <2>2, <3>1, ConcatEmpty DEF Unanswered
    <3>3. buf \o (queue \o Append(edit, k)) = (buf \o queue) \o Append(edit, k)
      <4>1. buf \in Seq(Key) /\ queue \in Seq(Key)  BY <1>3
      <4> QED  BY <3>1, <4>1, ConcatAssoc
    <3>4. (buf \o queue) \o Append(edit, k) = Append((buf \o queue) \o edit, k)
      BY <1>3, <2>1, ConcatAppend
    <3> QED  BY <2>2, <3>2, <3>3, <3>4 DEF Unanswered
  <2>4. LongWhereCut(Unanswered, cut) => LongWhereCut(Append(Unanswered, k), FALSE)
    BY <1>3, <2>1, LongAppend
  <2>5. \A i \in 1..Len(edit') : edit'[i].ch # Newline  BY <2>2
  <2> QED  BY <2>2, <2>3, <2>4, <2>5
<1>8. CASE TypeEof
  <2> DEFINE k == Typed(Eof, FALSE)
  <2>1. k \in Key /\ k.cut = FALSE /\ k.ch # Newline  BY <1>3, TypedIsKey, PromptAssumption DEF Typed
  <2> HIDE DEF k
  <2>2. /\ edit' = <<>> /\ cut' = cut
        /\ queue' = IF edit = <<>> THEN Append(queue, k) ELSE queue \o edit
    BY <1>8 DEF TypeEof, k
  <2>3. CASE edit = <<>>
    <3>1. Unanswered = buf \o queue  BY <1>3, <2>3, ConcatEmpty DEF Unanswered
    <3>2. queue' = Append(queue, k) /\ buf \o queue' = Append(buf \o queue, k)
      BY <1>3, <2>1, <2>2, <2>3, ConcatAppend
    <3>3. buf \o queue' \in Seq(Key)  BY <1>3, <2>1, <3>2
    <3>4. Unanswered' = buf \o queue'  BY <1>1, <2>2, <3>3, ConcatEmpty DEF Unanswered
    <3>5. LongWhereCut(Unanswered, cut) => LongWhereCut(Append(Unanswered, k), cut)
      BY <1>3, <2>1, LongAppend
    <3> QED  BY <2>2, <3>1, <3>2, <3>4, <3>5
  <2>4. CASE edit # <<>>
    <3>1. queue' = queue \o edit /\ buf \o queue' = Unanswered
      BY <1>3, <2>2, <2>4, ConcatAssoc, SMTT(30) DEF Unanswered
    <3>2. Unanswered' = Unanswered  BY <1>1, <1>3, <2>2, <3>1, ConcatEmpty DEF Unanswered
    <3> QED  BY <2>2, <3>2
  <2> QED  BY <2>3, <2>4
<1> QED  BY <1>6, <1>7, <1>8 DEF User

\* A step that reads nothing of a request it goes on serving.
Passing ==
  /\ UNCHANGED <<reply, got>> /\ buf' \in {<<>>, buf} /\ edit' \in {<<>>, edit}
  /\ \/ request' = 0 \/ reader' \notin {"top", "ready", "poll"}
     \/ reader \in {"top", "ready", "poll"} /\ UNCHANGED <<request, buf, queue, edit, cut>>

LEMMA PassingWhole ==
  ASSUME PromptTypeOK, WholeInv, Passing
  PROVE  WholeInv'
<1>1. Answers'  BY DEF WholeInv, Answers, Whole, Passing
<1>2. Within'
  <2>1. CASE buf' = <<>>  BY <2>1, CapacityTyped DEF WholeInv, Within, Passing
  <2>2. CASE buf' = buf  BY <2>2 DEF WholeInv, Within, Passing
  <2> QED  BY <2>1, <2>2 DEF Passing
<1>3. CutIsLong'
  BY DEF WholeInv, CutIsLong, Unanswered, Passing
<1> QED  BY <1>1, <1>2, <1>3 DEF WholeInv

LEMMA ReaderWhole ==
  ASSUME PromptTypeOK, WholeInv, Reader
  PROVE  WholeInv'
<1>1. CASE ReadTop \/ Discard \/ FlushFailing \/ ReadStart \/ PollIdle
  <2>1. Passing
    BY <1>1 DEF Passing, ReadTop, Discard, FlushFailing, ReadStart, PollIdle, ReaderGoes,
      ReaderFails, Emptied
  <2> QED  BY <2>1, PassingWhole
<1>2. CASE PollFails \/ ReadOutside \/ ReadTooLong
  <2>1. Passing
    BY <1>2 DEF Passing, PollFails, ReadOutside, ReadTooLong, ReaderGoes, ReaderFails, Emptied
  <2> QED  BY <2>1, PassingWhole
<1>3. CASE Flush
  <2>1. /\ queue' = <<>> /\ edit' = <<>> /\ buf' = <<>> /\ cut' = FALSE /\ UNCHANGED <<reply, got>>
    BY <1>3 DEF Flush, Emptied
  <2>2. Unanswered' = <<>>  BY <2>1 DEF Unanswered
  <2>3. CutIsLong'  BY <2>1, <2>2 DEF CutIsLong, LongWhereCut
  <2>4. Within'  BY <2>1, CapacityTyped DEF Within
  <2> QED  BY <2>1, <2>3, <2>4 DEF WholeInv, Answers, Whole
<1>4. CASE ReadNewline
  <2> DEFINE k == Head(queue)
  <2>1. /\ queue # <<>> /\ k.ch = Newline /\ request # 0 /\ reader = "poll"
        /\ reply' \in {reply, Reply(buf, k.cut)}
        /\ request' = 0 /\ buf' = <<>> /\ UNCHANGED <<edit, got>>
    BY <1>4 DEF ReadNewline
  <2>2. ~k.cut
    <3> SUFFICES ASSUME k.cut  PROVE FALSE  OBVIOUS
    <3>1. LongWhereCut(Unanswered, cut)  BY <2>1 DEF WholeInv, CutIsLong
    <3>2. Len(buf) + 1 \in 1..Len(Unanswered) /\ Unanswered[Len(buf) + 1] = k
      <4>1. Len(buf) \in Nat /\ Len(queue) \in Nat /\ Len(queue) >= 1 /\ Len(edit) \in Nat
        BY <2>1, WholeTypes
      <4>2. Len(buf \o queue) = Len(buf) + Len(queue) /\ (buf \o queue)[Len(buf) + 1] = k
        BY <2>1, <4>1, WholeTypes
      <4>3. /\ Len(Unanswered) = Len(buf \o queue) + Len(edit)
            /\ \A i \in 1..Len(buf \o queue) : Unanswered[i] = (buf \o queue)[i]
        BY WholeTypes DEF Unanswered
      <4>4. Len(buf) + 1 \in 1..Len(buf \o queue)  BY <4>1, <4>2
      <4> QED  BY <4>1, <4>2, <4>3, <4>4
    <3>3. LongLine(Unanswered, (Len(buf) + 1) - 1)  BY <3>1, <3>2 DEF LongWhereCut
    <3>4. Len(buf) \in Nat /\ Len(buf) <= MaxPromptBytes  BY WholeTypes DEF WholeInv, Within
    <3> QED  BY <3>3, <3>4, CapacityTyped DEF LongLine
  <2> HIDE DEF k
  <2>3. Whole(Reply(buf, k.cut))  BY <2>2 DEF Whole, Reply, WholeInv, Within
  <2>4. Answers'  BY <2>1, <2>3 DEF WholeInv, Answers, Whole
  <2>5. Within' /\ CutIsLong'  BY <2>1, CapacityTyped DEF WholeInv, Within, CutIsLong
  <2> QED  BY <2>4, <2>5 DEF WholeInv
<1>5. CASE ReadChar
  <2>1. /\ queue # <<>> /\ Len(buf) < MaxPromptBytes /\ buf' = Append(buf, Head(queue))
        /\ queue' = Tail(queue) /\ reader = "poll" /\ UNCHANGED <<edit, cut, request, reply, got>>
    BY <1>5 DEF ReadChar, ReaderGoes
  <2>2. Len(buf') <= MaxPromptBytes  BY <2>1, WholeTypes, CapacityTyped
  <2>3. buf' \o queue' = buf \o queue
    <3>1. Head(queue) \in Key /\ Tail(queue) \in Seq(Key)  BY <2>1, WholeTypes, TailType
    <3>2. <<Head(queue)>> \in Seq(Key) /\ Append(buf, Head(queue)) = buf \o <<Head(queue)>>
      BY <3>1, WholeTypes
    <3>3. <<Head(queue)>> \o Tail(queue) = queue  BY <2>1, WholeTypes
    <3>4. (buf \o <<Head(queue)>>) \o Tail(queue) = buf \o (<<Head(queue)>> \o Tail(queue))
      BY <3>1, <3>2, WholeTypes, ConcatAssoc
    <3> QED  BY <2>1, <3>2, <3>3, <3>4
  <2>4. Unanswered' = Unanswered  BY <2>1, <2>3 DEF Unanswered
  <2> QED  BY <2>1, <2>2, <2>4 DEF WholeInv, Within, CutIsLong, Answers, Whole
<1> QED  BY <1>1, <1>2, <1>3, <1>4, <1>5 DEF Reader

LEMMA LineWhole ==
  ASSUME PromptTypeOK, WholeInv, LineStep \/ Ask \/ Signal
  PROVE  WholeInv'
<1>1. CASE TakeRequest \/ Show \/ Signal
  <2>1. UNCHANGED <<buf, queue, edit, cut, request, reply, got>>
    BY <1>1 DEF TakeRequest, Show, Signal
  <2>2. reader' = reader \/ reader' = "discard"  BY <1>1 DEF TakeRequest, Show, Signal
  <2> QED  BY <2>1, <2>2 DEF WholeInv, Within, CutIsLong, Unanswered, Answers, Whole
<1>2. CASE LineReturns \/ LineFails \/ Ask
  <2>1. UNCHANGED <<buf, queue, edit, cut, request, reader>>
    BY <1>2 DEF LineReturns, LineFails, Ask, terminal, reading
  <2>2. Whole(NoReply)  BY CapacityTyped DEF Whole, NoReply
  <2>3. reply' \in {reply, NoReply} /\ got' \in {Result("line", reply)} \cup {Result(e, NoReply) : e \in Errors}
    <3>1. perr \in Errors /\ {"cancelled", "none"} \subseteq Errors
      BY DEF PromptTypeOK, PromptTypes, Errors
    <3> QED  BY <1>2, <3>1 DEF LineReturns, LineFails, Ask
  <2>4. got'.answer \in {reply, NoReply}  BY <2>3 DEF Result
  <2>5. Answers'  BY <2>2, <2>3, <2>4 DEF WholeInv, Answers
  <2> QED  BY <2>1, <2>5 DEF WholeInv, Within, CutIsLong, Unanswered
<1> QED  BY <1>1, <1>2 DEF LineStep

LEMMA SameWhole ==
  ASSUME WholeInv, UNCHANGED <<queue, edit, cut, buf, request, reader, reply, got>>
  PROVE  WholeInv'
BY DEF WholeInv, Within, CutIsLong, Unanswered, Answers, Whole

LEMMA NextWhole == TypeInv /\ WholeInv /\ [Next]_vars => WholeInv'
<1> SUFFICES ASSUME TypeInv, WholeInv, [Next]_vars  PROVE WholeInv'
  OBVIOUS
<1>0. PromptTypeOK  BY DEF TypeInv, TypeOK
<1>1. CASE MainStep
  <2>1. CASE AskMenu \/ AskConfirm  BY <1>0, <2>1, LineWhole DEF AskMenu, AskConfirm
  <2>2. CASE Close \/ UNCHANGED promptVars  BY <2>2, SameWhole DEF Close
  <2>3. QED  BY <1>1, <2>1, <2>2, MainKinds
<1>2. CASE InLine  BY <1>0, <1>2, LineWhole DEF InLine
<1>3. CASE Reads  BY <1>0, <1>3, ReaderWhole DEF Reads
<1>4. CASE Outside  BY <1>0, <1>4, UserWhole, LineWhole DEF Outside
<1>5. CASE UNCHANGED vars  BY <1>5, SameWhole
<1> QED  BY <1>1, <1>2, <1>3, <1>4, <1>5 DEF Next, Terminated

\* No answer exceeds the limit, and none is of a line whose end the terminal
\* had dropped: such a line fills the terminal, and is refused as too long
\* before its newline is read.
THEOREM NeverTruncated == Spec => []WholeAnswer
<1>1. WholeInv => WholeAnswer  BY DEF WholeInv, Answers, Whole, WholeAnswer
<1> QED  BY <1>1, InitTypeInv, NextTypeInv, InitWhole, NextWhole, PTL DEF Spec

-----------------------------------------------------------------------------
(* Confirmation and cleanup.                                               *)

\* The guide waits for line() exactly while it asks.
OutsideLine == main \notin Asking => line = "out"

\* From its cleanup on, the reader has ended.
ReaderJoined == main \in {"clean", "over"} => reader = "done"

\* What cleanup has gone through is removed, or the exit status says so.
Cleaned ==
  /\ main \in {"clean", "over"} /\ code = "ok"
       => \A i \in DOMAIN entries : i > left => entries[i] \in removed
  /\ main = "over" => left = 0

Confirmed == main \in Active => Answered(Yes)

GuideInv == OutsideLine /\ ReaderJoined /\ Cleaned /\ Confirmed

LEMMA InitGuideInv == Init => GuideInv
BY DEF Init, PromptInit, GuideInv, OutsideLine, ReaderJoined, Cleaned, Confirmed, Asking, Active

LEMMA MainGuideInv ==
  ASSUME TypeInv, GuideInv, MainStep PROVE GuideInv'
<1> USE DEF GuideInv, OutsideLine, ReaderJoined, Cleaned, Confirmed, Asking, Active, Goto, Answered, Text
<1>1. CASE MenuCancelled \/ ChooseQuit \/ ChooseFails
  BY <1>1 DEF MenuCancelled, ChooseQuit, ChooseFails, Choice, Exit
<1>2. CASE ChooseOperation \/ ChooseConnect \/ ChooseAgain
  BY <1>2 DEF ChooseOperation, ChooseConnect, ChooseAgain, Choice, Execute
<1>3. CASE OperationEnds \/ NotAsked \/ Aborted \/ ProbeRefuses \/ AddRefused \/ Added \/ NotAdded
  BY <1>3 DEF OperationEnds, NotAsked, Aborted, Decision, ProbeRefuses, AddRefused, Added, NotAdded, Ends
<1>4. CASE ConfirmYes \/ ProbeClear \/ AddStarts
  BY <1>4 DEF ConfirmYes, Decision, ProbeClear, AddStarts
<1>5. CASE AskMenu \/ AskConfirm BY <1>5 DEF AskMenu, AskConfirm
<1>6. CASE Close BY <1>6 DEF Close
<1>7. CASE Join
  <2>1. left' = Len(entries) /\ entries' = entries BY <1>7 DEF Join
  <2>2. entries \in Seq(1..MaxAsks) BY DEF TypeInv, TypeOK
  <2>3. \A i \in DOMAIN entries' : ~(i > left') BY <2>1, <2>2
  <2>4. QED BY <1>7, <2>3 DEF Join
<1>8. CASE CleanOK \/ CleanFails
  <2>1. left \in Nat /\ left > 0 /\ left' = left - 1 /\ entries' = entries /\ main = "clean" /\ main' = main
    BY <1>8 DEF CleanOK, CleanFails, Clean, TypeInv, TypeOK
  <2>2. entries \in Seq(1..MaxAsks) BY DEF TypeInv, TypeOK
  <2>3. ASSUME code' = "ok", NEW i \in DOMAIN entries, i > left - 1 PROVE entries[i] \in removed'
    <3>1. CleanOK /\ code = "ok" BY <1>8, <2>3 DEF CleanOK, CleanFails
    <3>2. CASE i > left BY <2>1, <3>1, <3>2 DEF CleanOK
    <3>3. CASE i = left BY <3>1, <3>3 DEF CleanOK
    <3>4. QED BY <2>1, <2>2, <2>3, <3>2, <3>3
  <2>4. Cleaned' BY <2>1, <2>3
  <2>5. QED BY <1>8, <2>1, <2>4 DEF CleanOK, CleanFails, Clean
<1>9. CASE Over BY <1>9 DEF Over
<1>10. QED
  BY <1>1, <1>2, <1>3, <1>4, <1>5, <1>6, <1>7, <1>8, <1>9 DEF MainStep

LEMMA NextGuideInv == TypeInv /\ GuideInv /\ [Next]_vars => GuideInv'
<1> SUFFICES ASSUME TypeInv, GuideInv, [Next]_vars PROVE GuideInv'
  OBVIOUS
<1> USE DEF GuideInv, OutsideLine, ReaderJoined, Cleaned, Confirmed, Asking, Active, Answered, Text
<1>1. CASE MainStep BY <1>1, MainGuideInv
<1>2. CASE InLine
  <2>1. line # "out" BY <1>2 DEF InLine, LineStep, TakeRequest, Show, LineReturns, LineFails
  <2>2. main \in Asking BY <2>1
  <2>3. UNCHANGED <<main, entries, left, removed, code>> BY <1>2 DEF InLine
  <2>4. QED BY <2>2, <2>3
<1>3. CASE Reads
  <2>1. reader # "done" /\ UNCHANGED <<line, got>>
    BY <1>3 DEF Reads, Reader, ReadTop, Discard, Flush, FlushFailing, ReadStart, PollIdle,
                PollFails, ReadOutside, ReadNewline, ReadChar, ReadTooLong, ReaderGoes, ReaderFails
  <2>2. UNCHANGED <<main, entries, left, removed, code>> BY <1>3 DEF Reads
  <2>3. QED BY <2>1, <2>2
<1>4. CASE Outside
  <2>1. UNCHANGED <<reader, line, got, main, entries, left, removed, code>>
    BY <1>4 DEF Outside, User, TypeChar, TypeNewline, TypeEof, Press, Signal
  <2>2. QED BY <2>1
<1>5. CASE UNCHANGED vars BY <1>5
<1>6. QED BY <1>1, <1>2, <1>3, <1>4, <1>5 DEF Next, Terminated

LEMMA GuideInvariant == Spec => [](TypeInv /\ FreshInv /\ GuideInv)
BY InitTypeInv, NextTypeInv, InitFresh, NextFresh, InitGuideInv, NextGuideInv, PTL DEF Spec

\* No probe is sent and no address is added unless the user answered yes, with
\* keys typed for that question alone.
THEOREM ConfirmationFirst == Spec => ConfirmedBeforeActive
<1> DEFINE I == main \in Active => /\ Answered(Yes)
                                  /\ \A i \in DOMAIN got.answer.keys : got.answer.keys[i].of = asks
           A == main' \in Active => main \in Active \cup {"decide"}
<1>1. FreshInv /\ GuideInv => I
  BY DEF FreshInv, GotFresh, GuideInv, Confirmed, Answered, ForRequest
<1>2. [Next]_vars => A
  <2> SUFFICES ASSUME [Next]_vars, main' \in Active, main \notin Active PROVE main = "decide"
    OBVIOUS
  <2>1. CASE MainStep
    BY <2>1 DEF MainStep, AskMenu, MenuCancelled, ChooseQuit, ChooseFails, Choice, ChooseOperation, Exit,
                ChooseConnect, ChooseAgain, OperationEnds, AskConfirm, NotAsked, ConfirmYes, Aborted,
                Decision, ProbeClear, ProbeRefuses, AddStarts, AddRefused, Added, NotAdded, Close, Join,
                Execute, Ends, Clean, CleanOK, CleanFails, Over, Goto, Active
  <2>2. CASE InLine \/ Reads \/ Outside \/ Terminated \/ UNCHANGED vars
    BY <2>2 DEF InLine, Reads, Outside, Terminated, vars
  <2> QED BY <2>1, <2>2 DEF Next
<1>3. [Next]_vars => [A]_vars BY <1>2
<1> QED BY <1>1, <1>3, GuideInvariant, PTL DEF Spec, ConfirmedBeforeActive

\* A guide that exits with 0 has removed every address it added.
THEOREM ZeroIsClean == Spec => []ZeroMeansClean
<1>1. TypeInv /\ GuideInv => ZeroMeansClean
  <2> SUFFICES ASSUME TypeInv, GuideInv, main = "over", code = "ok", NEW i \in DOMAIN entries
               PROVE  entries[i] \in removed
    BY DEF ZeroMeansClean
  <2>1. entries \in Seq(1..MaxAsks) BY DEF TypeInv, TypeOK
  <2>2. i > 0 BY <2>1
  <2>3. QED BY <2>2 DEF GuideInv, Cleaned
<1>2. QED BY <1>1, GuideInvariant, PTL

\* Cleanup runs alone, after the reader has ended, and ends when it has gone
\* through every entry.
THEOREM CleanupAlone == Spec => CleanupIsLast
<1> DEFINE A == main = "clean" =>
                  /\ reader' = "done" /\ line' = "out" /\ entries' = entries
                  /\ main' = "over" => left = 0
<1>1. TypeInv /\ GuideInv /\ [Next]_vars => A
  <2> SUFFICES ASSUME TypeInv, GuideInv, [Next]_vars, main = "clean"
               PROVE  /\ reader' = "done" /\ line' = "out" /\ entries' = entries
                      /\ main' = "over" => left = 0
    OBVIOUS
  <2>1. reader = "done" /\ line = "out" BY DEF GuideInv, ReaderJoined, OutsideLine, Asking
  <2>2. CASE MainStep
    <3>1. CleanOK \/ CleanFails \/ Over
      BY <2>2 DEF MainStep, AskMenu, MenuCancelled, ChooseQuit, ChooseFails, Choice, ChooseOperation,
                  ChooseConnect, ChooseAgain, OperationEnds, AskConfirm, NotAsked, ConfirmYes, Aborted,
                  Decision, ProbeClear, ProbeRefuses, AddStarts, AddRefused, Added, NotAdded, Close, Join
    <3>2. QED BY <2>1, <3>1 DEF CleanOK, CleanFails, Clean, Over, Goto
  <2>3. CASE InLine
    BY <2>1, <2>3 DEF InLine, LineStep, TakeRequest, Show, LineReturns, LineFails
  <2>4. CASE Reads
    BY <2>1, <2>4 DEF Reads, Reader, ReadTop, Discard, Flush, FlushFailing, ReadStart, PollIdle,
                PollFails, ReadOutside, ReadNewline, ReadChar, ReadTooLong
  <2>5. CASE Outside
    BY <2>1, <2>5 DEF Outside, User, TypeChar, TypeNewline, TypeEof, Press, Signal
  <2>6. CASE UNCHANGED vars BY <2>1, <2>6
  <2>7. QED BY <2>2, <2>3, <2>4, <2>5, <2>6 DEF Next, Terminated
<1>2. TypeInv /\ GuideInv /\ [Next]_vars => [A]_vars BY <1>1
<1>3. QED BY <1>2, GuideInvariant, PTL DEF Spec, CleanupIsLast

=============================================================================
