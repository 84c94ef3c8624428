---------------------------- MODULE CaptureFile ----------------------------
(***************************************************************************)
(* cmd/wirepup/cmd_capture.go: runCapture takes packets from one live      *)
(* source and writes them to a file through a buffered writer (pcapfile).  *)
(* A failing write cancels the capture and leaves the loop; then the       *)
(* command waits for the reader, closes the file and settles its status.   *)
(***************************************************************************)
EXTENDS Source

CONSTANT
  Iface,        \* the interface captured on
  WriteFaults   \* whether the file may refuse data

ASSUME CaptureAssumption == Iface \in Sockets /\ WriteFaults \in BOOLEAN

VARIABLES
  step,      \* where runCapture stands
  packet,    \* the packet received last
  written,   \* packets the writer accepted; Count() is their number
  disk,      \* how many of them are in the file
  writeErr, runErr, \* "none" or "error"
  code       \* the exit status

fileVars == <<step, packet, written, disk, writeErr, runErr, code>>
captureVars == <<sourceVars, fileVars>>

\* Once the file and the source are open, the loop starts with the reader.
CaptureInit ==
  /\ SourceInit
  /\ step = "start" /\ packet = <<>> /\ written = <<>> /\ disk = 0
  /\ writeErr = "none" /\ runErr = "none" /\ code = "none"

Moves(from, to) == step = from /\ step' = to

StartCapture ==
  /\ Moves("start", "range")
  /\ reader' = [reader EXCEPT ![Iface] = "top"]
  /\ UNCHANGED <<ctx, wire, seen, hand, buf, errc, packet, written, disk, writeErr, runErr, code>>

TakePacket ==
  /\ Moves("range", "write")
  /\ buf[Iface] # <<>>
  /\ packet' = <<Head(buf[Iface])>>
  /\ buf' = [buf EXCEPT ![Iface] = Tail(@)]
  /\ UNCHANGED <<ctx, wire, reader, seen, hand, errc, written, disk, writeErr, runErr, code>>

\* The buffered writer passes on as much as it likes.
Write ==
  /\ Moves("write", "range")
  /\ written' = written \o packet
  /\ packet' = <<>>
  /\ disk' \in disk .. Len(written')
  /\ UNCHANGED <<sourceVars, writeErr, runErr, code>>

\* Mutant: the capture goes on behind the failed write.
WriteFailsOnly ==
  /\ WriteFaults
  /\ Moves("write", "errc")
  /\ writeErr' = "error"
  /\ packet' = <<>>
  /\ UNCHANGED <<sourceVars, written, disk, runErr, code>>

\* cancel() and break.
WriteFails ==
  /\ WriteFaults
  /\ Moves("write", "errc")
  /\ writeErr' = "error"
  /\ packet' = <<>>
  /\ ctx' = "done"
  /\ UNCHANGED <<wire, readVars, written, disk, runErr, code>>

NoMorePackets ==
  /\ Moves("range", "errc")
  /\ buf[Iface] = <<>> /\ OutClosed(Iface)
  /\ UNCHANGED <<sourceVars, packet, written, disk, writeErr, runErr, code>>

\* Waits for the reader when it has not failed.
TakeRunError ==
  /\ Moves("errc", "close")
  /\ errc[Iface] = "error" \/ ErrcClosed(Iface)
  /\ runErr' = errc[Iface]
  /\ errc' = [errc EXCEPT ![Iface] = "none"]
  /\ UNCHANGED <<ctx, wire, reader, seen, hand, buf, packet, written, disk, writeErr, code>>

\* The writer's error is sticky: a file that refused a packet refuses the flush.
Close ==
  /\ Moves("close", "exit")
  /\ writeErr = "none"
  /\ disk' = Len(written)
  /\ UNCHANGED <<sourceVars, packet, written, writeErr, runErr, code>>

\* Mutant: what Close says is not looked at.
CloseFailsQuietly ==
  /\ Moves("close", "exit")
  /\ WriteFaults
  /\ disk' \in disk .. Len(written)
  /\ UNCHANGED <<sourceVars, packet, written, writeErr, runErr, code>>

CloseFails ==
  /\ Moves("close", "exit")
  /\ WriteFaults
  /\ disk' \in disk .. Len(written)
  /\ writeErr' = "error"
  /\ UNCHANGED <<sourceVars, packet, written, runErr, code>>

Exit ==
  /\ Moves("exit", "over")
  /\ code' = IF writeErr # "none" \/ runErr # "none" THEN "error" ELSE "ok"
  /\ UNCHANGED <<sourceVars, packet, written, disk, writeErr, runErr>>

CaptureOver == step = "over" /\ UNCHANGED captureVars

Capture ==
  \/ StartCapture \/ TakePacket \/ Write \/ WriteFails
  \/ NoMorePackets \/ TakeRunError \/ Close \/ CloseFails \/ Exit

CaptureReader  == ReadLoop(Iface) /\ UNCHANGED fileVars
CaptureOutside == (Cancel \/ Arrive(Iface)) /\ UNCHANGED fileVars

CaptureNext == Capture \/ CaptureOver \/ CaptureReader \/ CaptureOutside

CaptureSpec == CaptureInit /\ [][CaptureNext]_captureVars /\ WF_captureVars(Capture) /\ WF_captureVars(CaptureReader)

-----------------------------------------------------------------------------
(* Properties.                                                             *)

\* Types of the writing side of capture.
CaptureTypeOK ==
  /\ SourceTypeOK
  /\ step \in {"start", "range", "write", "errc", "close", "exit", "over"}
  /\ packet \in Seq(Times) /\ Len(packet) = (IF step = "write" THEN 1 ELSE 0)
  /\ written \in Seq(Times) /\ disk \in 0 .. Len(written)
  /\ {writeErr, runErr} \subseteq {"none", "error"}
  /\ code \in {"none", "ok", "error"}

\* Status zero: every packet the source read is in the file, but for the one
\* the reader held when the capture was ended.
ZeroMeansStored ==
  code = "ok" => /\ disk = Len(written)
                 /\ Len(seen[Iface]) - disk <= (IF Cancelled THEN 1 ELSE 0)

\* The file holds the packets in the order in which they were received.
FileInOrder == \A i \in DOMAIN written : written[i] = seen[Iface][i]

\* What a capture leaves behind is sound.
FileSound == CaptureTypeOK /\ FileInOrder /\ ZeroMeansStored

\* A capture that is interrupted ends, and so does one whose file refuses
\* data, also with a reader that waits before the full channel on a busy
\* network.
CaptureEnds == Cancelled \/ writeErr = "error" ~> step = "over"

=============================================================================
