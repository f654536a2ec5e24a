------------------------------- MODULE MuxCli -------------------------------
(***************************************************************************)
(* ch32v208-mux-cli: one process after another opens the device, carries   *)
(* out one command and closes it.  A command is a program of library       *)
(* calls: a step makes its call, the call runs as in MuxTransact, and what *)
(* it returned decides the next step or the exit code.  What a run leaves  *)
(* in the pipes and in the device is what the next run finds.              *)
(*                                                                         *)
(* Texts and addresses that are only printed are left out.  The device     *)
(* (external) now also scans and hands back what is sent to an open port.  *)
(***************************************************************************)
EXTENDS MuxTransact, FiniteSets

CONSTANTS
  Commands,  \* the commands of the runs
  port,      \* the port they name
  Texts,     \* lengths of the text uart-loopback sends
  Noise      \* lengths of other data a port receives

VARIABLES
  \* the process
  cmd,         \* the command of this run
  step,        \* the step it has reached
  phase,       \* "do" the step's call, look at what is "done", or "ended"
  exit,        \* the exit code, by its meaning
  payload_len, \* uart-loopback: bytes to send,
  rx_total,    \* bytes received,
  match,       \* and whether they are the bytes sent so far
  timeup,      \* ble-scan: end_time has passed
  \* the device
  scanning,    \* it reports advertisers
  looped,      \* the pieces of text on their way back through the port
  \* history, read by the properties only
  owed,        \* when this run started an answer or a packet was on its way
  faulty,      \* in this run a command was refused, lost or not written
  loops,       \* texts that came back through the port
  successes    \* runs that found so

progVars == <<cmd, step, phase, exit, payload_len, rx_total, match, timeup>>
portVars == <<scanning, looped>>
histVars == <<owed, faulty, loops, successes>>
cliVars  == <<vars, progVars, portVars, histVars>>

-----------------------------------------------------------------------------
(* The programs.                                                           *)

\* Where a command starts.
FirstStep ==
  [probe |-> "dev_info", heartbeat |-> "heartbeat", uart_cap |-> "port_cap",
   uart_open |-> "open", uart_loopback |-> "lb_open", uart_close |-> "close",
   ble_scan |-> "scan_cap", debug_xfer |-> "dbg_in"]

\* The call of each step.  debug-xfer builds the GET_DEV_INFO request itself.
CallOf(s) ==
  CASE s \in {"dev_info", "dbg_in"} -> sys_get_dev_info
    [] s = "caps"       -> sys_get_caps
    [] s = "heartbeat"  -> sys_heartbeat(4, 128, TRUE)
    [] s = "port_cap"   -> uart_get_port_cap(port)
    [] s \in {"open", "lb_open"} -> uart_open(port)
    [] s \in {"close", "lb_close", "lb_abort"} -> uart_close(port)
    [] s = "lb_write"   -> uart_write(port, payload_len)
    [] s = "lb_read"    -> uart_read(port, MAX_FRAME_LEN)
    [] s = "scan_cap"   -> ble_get_cap
    [] s = "scan_param" -> ble_set_scan_param
    [] s = "scan_start" -> ble_scan_start
    [] s = "scan_read"  -> ble_read_event(MAX_FRAME_LEN, TRUE)
    [] s = "scan_stop"  -> ble_scan_stop

\* All of them, for the constant Calls.
ToolCalls ==
  {sys_get_dev_info, sys_get_caps, sys_heartbeat(4, 128, TRUE), uart_get_port_cap(port),
   uart_open(port), uart_close(port), uart_read(port, MAX_FRAME_LEN), ble_get_cap,
   ble_set_scan_param, ble_scan_start, ble_scan_stop, ble_read_event(MAX_FRAME_LEN, TRUE)}
  \cup {uart_write(port, n) : n \in Texts}

\* Steps that only need their call to succeed, and what follows them.
NextStep ==
  [dev_info |-> "caps", lb_open |-> "lb_write", scan_cap |-> "scan_param",
   scan_param |-> "scan_start", scan_start |-> "scan_read"]

\* Steps that end the command when their call succeeds.
LastSteps == {"caps", "heartbeat", "port_cap", "open", "close", "scan_stop", "dbg_in"}

Steps == DOMAIN NextStep \cup LastSteps \cup
         {"lb_write", "lb_read", "lb_close", "lb_abort", "scan_read", "dbg_rest"}

\* Where in a text of n bytes a piece of this length comes from.  A port hands
\* a text back in one piece, or in two of which the second is one byte long.
Ways(n) == {<<n>>} \cup (IF n > 1 THEN {<<n - 1, 1>>} ELSE {})
PlaceOf(len, n) == IF len = 1 /\ n > 1 THEN n - 1 ELSE 0

\* The calls and the frames of a port are among those of MuxTransact, and the
\* numbers do not go round within one run, which draws four.
ASSUME CliAssumption ==
  /\ Commands \subseteq DOMAIN FirstStep
  /\ port \in Nat /\ Texts \subseteq Nat
  /\ ToolCalls \subseteq Calls
  /\ \A n \in Texts : n \in 1 .. MAX_PAYLOAD =>
       \A pieces \in Ways(n) : \A i \in DOMAIN pieces :
         <<"DATA", port, pieces[i]>> \in Unsolicited
  /\ SeqMax >= 4

-----------------------------------------------------------------------------
(* The process.                                                            *)

\* main(): the device is opened before the arguments are looked at.  An
\* unknown command, a missing or malformed port, or a text that does not fit
\* a frame ends the run at once.
Start(c, n) ==
  /\ phase = "ended"
  /\ Reopen
  /\ cmd' = c
  /\ step' = FirstStep[c]
  /\ IF n > MAX_PAYLOAD THEN phase' = "ended" /\ exit' = "usage"
                        ELSE phase' = "do" /\ exit' = "none"
  /\ payload_len' = n
  /\ rx_total' = 0 /\ match' = TRUE /\ timeup' = FALSE
  /\ owed' = (inPipe' # <<>> \/ \E i \in DOMAIN outPipe' :
                                  outPipe'[i].frame.msg_type = "CMD")
  /\ faulty' = FALSE
  /\ UNCHANGED <<portVars, loops, successes>>

Run == \E c \in Commands :
         \E n \in (IF c = "uart_loopback" THEN Texts ELSE {0}) : Start(c, n)

BadArguments ==
  /\ phase = "ended"
  /\ Reopen
  /\ exit' = "usage"
  /\ UNCHANGED <<cmd, step, phase, payload_len, rx_total, match, timeup, portVars, histVars>>

\* The call of the step is made.
DoCall ==
  /\ phase = "do"
  /\ step = "scan_read" => ~ timeup
  /\ \/ Transact(CallOf(step))
     \/ UartWrite(CallOf(step))
     \/ UartRead(CallOf(step))
     \/ BleReadEvent(CallOf(step))
  /\ phase' = "done"
  /\ UNCHANGED <<cmd, step, exit, payload_len, rx_total, match, timeup, portVars, histVars>>

\* It has returned.
Back(steps) == phase = "done" /\ pc = "idle" /\ step \in steps
Ok == ret.result = "OK"

Goto(s) == step' = s /\ phase' = "do" /\ UNCHANGED <<exit, successes>>
Exit(code) == exit' = code /\ phase' = "ended" /\ UNCHANGED <<step, successes>>

Stays == UNCHANGED <<vars, cmd, payload_len, timeup, portVars, owed, faulty, loops>>

Proceed ==
  /\ Back(DOMAIN NextStep) /\ Ok
  /\ Goto(NextStep[step])
  /\ Stays /\ UNCHANGED <<rx_total, match>>

SucceedAnyway ==                                                   \* mutant
  /\ Back(LastSteps)
  /\ Ok \/ step = "scan_stop"
  /\ Exit("ok")
  /\ Stays /\ UNCHANGED <<rx_total, match>>
Succeed ==
  /\ Back(LastSteps) /\ Ok
  /\ Exit("ok")
  /\ Stays /\ UNCHANGED <<rx_total, match>>

\* The command ends where its call failed; nothing is undone.
GiveUp ==
  /\ Back(DOMAIN NextStep \cup LastSteps \cup {"lb_close"}) /\ ~ Ok
  /\ Exit("failed")
  /\ Stays /\ UNCHANGED <<rx_total, match>>

\* uart-loopback: read until as many bytes are there as were sent.
ReadOrClose(total) == Goto(IF total < payload_len THEN "lb_read" ELSE "lb_close")

LoopbackWritten ==
  /\ Back({"lb_write"}) /\ Ok
  /\ ReadOrClose(rx_total)
  /\ Stays /\ UNCHANGED <<rx_total, match>>

AnyChunk(len) == TRUE                                              \* mutant
\* memcmp(): the chunk is what was sent at this place.
SameBytes(len) ==
  /\ len \in {payload_len, payload_len - 1, 1}
  /\ PlaceOf(len, payload_len) = rx_total

ChunkFitsEmpty(len) == rx_total + len <= MAX_FRAME_LEN             \* mutant
\* An empty chunk, or one that rx has no room for, ends the loop.
ChunkFits(len) == len # 0 /\ rx_total + len <= MAX_FRAME_LEN

LoopbackTakes ==
  /\ Back({"lb_read"}) /\ Ok /\ ChunkFits(ret.frame.payload_len)
  /\ rx_total' = rx_total + ret.frame.payload_len
  /\ match' = (match /\ SameBytes(ret.frame.payload_len))
  /\ ReadOrClose(rx_total')
  /\ Stays

LoopbackLeavesOpen ==                                              \* mutant
  /\ Back({"lb_write", "lb_read"}) /\ ~ Ok
  /\ Exit("failed")
  /\ Stays /\ UNCHANGED <<rx_total, match>>

LoopbackReadsOn ==                                                 \* mutant
  /\ Back({"lb_write", "lb_read"}) /\ ~ Ok
  /\ Goto(IF step = "lb_read" THEN "lb_read" ELSE "lb_abort")
  /\ Stays /\ UNCHANGED <<rx_total, match>>
\* A failed write or read, or a bad chunk: close the port, then give up.
LoopbackAborts ==
  /\ Back({"lb_write", "lb_read"})
  /\ \/ ~ Ok
     \/ step = "lb_read" /\ ~ ChunkFits(ret.frame.payload_len)
  /\ Goto("lb_abort")
  /\ Stays /\ UNCHANGED <<rx_total, match>>

LoopbackAborted ==
  /\ Back({"lb_abort"})
  /\ Exit("failed")
  /\ Stays /\ UNCHANGED <<rx_total, match>>

LoopbackEndsUnchecked ==                                           \* mutant
  /\ Back({"lb_close"})
  /\ exit' = IF match /\ rx_total = payload_len THEN "ok" ELSE "failed"
  /\ phase' = "ended" /\ UNCHANGED <<step, successes>>
  /\ Stays /\ UNCHANGED <<rx_total, match>>
\* The port is closed before the two texts are compared.
LoopbackEnds ==
  /\ Back({"lb_close"}) /\ Ok
  /\ LET same == match /\ rx_total = payload_len
     IN /\ exit' = IF same THEN "ok" ELSE "failed"
        /\ successes' = IF same /\ payload_len # 0 THEN successes + 1 ELSE successes
  /\ phase' = "ended" /\ UNCHANGED step
  /\ Stays /\ UNCHANGED <<rx_total, match>>

ScanGivesUp ==                                                     \* mutant
  /\ Back({"scan_read"})
  /\ IF ret.result \in {"OK", "ERR_TIMEOUT"} THEN Goto("scan_read") ELSE Exit("failed")
  /\ Stays /\ UNCHANGED <<rx_total, match>>
\* ble-scan: an event, whatever it says, or a timeout, and the loop goes on;
\* any other failure, or the end of the time, and the scan is stopped.
ScanContinues ==
  /\ Back({"scan_read"})
  /\ Goto(IF ret.result \in {"OK", "ERR_TIMEOUT"} THEN "scan_read" ELSE "scan_stop")
  /\ Stays /\ UNCHANGED <<rx_total, match>>

ScanTimeIsUp ==
  /\ phase = "do" /\ step = "scan_read" /\ timeup
  /\ Goto("scan_stop")
  /\ Stays /\ UNCHANGED <<rx_total, match>>

Clock ==
  /\ step = "scan_read" /\ phase # "ended" /\ ~ timeup
  /\ timeup' = TRUE
  /\ UNCHANGED <<vars, cmd, step, phase, exit, payload_len, rx_total, match, portVars, histVars>>

\* debug-xfer: one transfer, and the header of whatever came.  The rest of a
\* longer frame is one more transfer.
DebugRead ==
  /\ step = "dbg_in"
  /\ pc = "read" /\ plugged /\ inPipe # <<>>
  /\ inPipe' = Tail(inPipe)
  /\ LET p == Head(inPipe)
     IN IF p.len < HEADER_LEN \/ ~ Decodes(p)
          THEN Return("ERR_PROTO", NoFrame, TRUE) /\ UNCHANGED step
        ELSE IF TotalLen(p.frame) > p.len
          THEN /\ rx' = [offset |-> p.len, lead |-> p, intact |-> TRUE]
               /\ step' = "dbg_rest"
               /\ UNCHANGED <<pc, ret>>
        ELSE Return("OK", p.frame, TRUE) /\ UNCHANGED step
  /\ UNCHANGED <<next_seq, call, seq, outPipe, plugged, openPorts, issued, epoch, line>>
  /\ UNCHANGED <<cmd, phase, exit, payload_len, rx_total, match, timeup, portVars, histVars>>

\* Whether the rest came or not, the command has succeeded.
DebugEnds ==
  /\ Back({"dbg_rest"})
  /\ Exit("ok")
  /\ Stays /\ UNCHANGED <<rx_total, match>>

\* The transfers of the call.
Transfer ==
  /\ \/ WriteFrame \/ ReadFails \/ NoDevice
     \/ step # "dbg_in" /\ ReadPacket
  /\ UNCHANGED <<progVars, portVars, histVars>>

TransferNotWritten ==
  /\ WriteFails
  /\ faulty' = TRUE
  /\ UNCHANGED <<progVars, portVars, owed, loops, successes>>

\* The user or the system ends the process between two calls.  Ended within one,
\* it leaves what a call whose transfer fails leaves when it is ended next.
Kill ==
  /\ phase # "ended" /\ pc = "idle"
  /\ phase' = "ended" /\ exit' = "killed"
  /\ UNCHANGED <<vars, cmd, step, payload_len, rx_total, match, timeup, portVars, histVars>>

Decide ==
  \/ Proceed \/ Succeed \/ GiveUp
  \/ LoopbackWritten \/ LoopbackTakes \/ LoopbackAborts \/ LoopbackAborted \/ LoopbackEnds
  \/ ScanContinues \/ ScanTimeIsUp \/ DebugEnds

Tool == DoCall \/ Decide \/ Transfer \/ TransferNotWritten \/ DebugRead

-----------------------------------------------------------------------------
(* The device (external).                                                  *)

\* It carries out the command at the head, starting or stopping a scan.
CliExecutes ==
  /\ DeviceExecutes
  /\ LET req == Head(outPipe).frame
     IN scanning' = IF req.ch_type = "BLE_MGMT" /\ req.opcode = 3 THEN TRUE
                    ELSE IF req.ch_type = "BLE_MGMT" /\ req.opcode = 4 THEN FALSE
                    ELSE scanning
  /\ UNCHANGED <<progVars, looped, histVars>>

CliRefuses ==
  /\ DeviceRefuses
  /\ faulty' = TRUE
  /\ UNCHANGED <<progVars, portVars, owed, loops, successes>>

CliDiscards ==
  /\ DeviceDiscards
  /\ faulty' = (faulty \/ Head(outPipe).frame.msg_type = "CMD")
  /\ UNCHANGED <<progVars, portVars, owed, loops, successes>>

\* The text goes out of an open port and comes back in.
PortLoops ==
  /\ DeviceDiscards
  /\ Head(outPipe).whole
  /\ LET f == Head(outPipe).frame
     IN /\ f.msg_type = "DATA" /\ f.ch_id \in openPorts /\ f.payload_len # 0
        /\ \E pieces \in Ways(f.payload_len) : looped' = looped \o pieces
  /\ loops' = loops + 1
  /\ UNCHANGED <<progVars, scanning, owed, faulty, successes>>

PortSends ==
  /\ looped # <<>>
  /\ Speaks(<<"DATA", port, Head(looped)>>)
  /\ looped' = Tail(looped)
  /\ UNCHANGED <<progVars, scanning, histVars>>

\* A piece is overwritten before it is sent.
PortDrops ==
  /\ looped # <<>>
  /\ looped' = Tail(looped)
  /\ UNCHANGED <<vars, progVars, scanning, histVars>>

\* Noise on an open port; a report of a running scan.
CliSpeaks ==
  /\ \E u \in Unsolicited :
       /\ u[1] = "EVT" => scanning
       /\ u[1] = "DATA" => u[3] \in Noise
       /\ Speaks(u)
  /\ UNCHANGED <<progVars, portVars, histVars>>

CliUnplug ==
  /\ Unplug
  /\ scanning' = FALSE /\ looped' = <<>>
  /\ UNCHANGED <<progVars, histVars>>

CliDevice ==
  \/ CliExecutes \/ CliRefuses \/ CliDiscards
  \/ PortLoops \/ PortSends \/ PortDrops \/ CliSpeaks \/ CliUnplug

-----------------------------------------------------------------------------

\* Nobody has run the tool yet.
CliInit ==
  /\ Init
  /\ cmd = "probe" /\ step = FirstStep["probe"] /\ phase = "ended" /\ exit = "none"
  /\ payload_len = 0 /\ rx_total = 0 /\ match = TRUE /\ timeup = FALSE
  /\ scanning = FALSE /\ looped = <<>>
  /\ owed = FALSE /\ faulty = FALSE /\ loops = 0 /\ successes = 0

CliNext == Run \/ BadArguments \/ Tool \/ Clock \/ Kill \/ CliDevice

CliSpec == CliInit /\ [][CliNext]_cliVars

\* The process runs, its transfers end, and its clock goes on.  Nothing is
\* assumed of the device.
CliFairSpec == CliSpec /\ WF_cliVars(Tool) /\ WF_cliVars(Clock)

-----------------------------------------------------------------------------
(* Properties.                                                             *)

CliTypeOK ==
  /\ TypeOK
  /\ cmd \in DOMAIN FirstStep
  /\ step \in Steps
  /\ phase \in {"do", "done", "ended"}
  /\ exit \in {"none", "ok", "failed", "usage", "killed"}
  /\ payload_len \in Texts \cup {0}
  /\ rx_total \in 0 .. MAX_FRAME_LEN
  /\ {match, timeup, scanning, owed, faulty} \subseteq BOOLEAN
  /\ looped \in Seq(0 .. MAX_PAYLOAD)
  /\ loops \in 0 .. MaxEpoch /\ successes \in 0 .. MaxEpoch

\* The run has ended well, on an answer to a request of its own.
EndedWell == phase = "ended" /\ exit = "ok" /\ ret.frame.epoch = epoch

\* All the device still had to do is done.
AtRest == phase = "ended" /\ plugged /\ outPipe = <<>>

\* "loopback ok" (line 274) is said no more often than a text really came back
\* through the port, whatever other data, stale answers and data of earlier
\* runs were read on the way.
LoopbackIsPaid == successes <= loops

\* Exit code 0 on an own answer: the port is open or closed and the scan is
\* off as the command promises, and nothing is left that could undo it.
ExitZeroIsDone ==
  EndedWell /\ plugged /\ cmd \notin {"debug_xfer"} =>
    /\ outPipe = <<>>
    /\ cmd = "uart_open" => port \in openPorts
    /\ cmd \in {"uart_close", "uart_loopback"} => port \notin openPorts
    /\ cmd = "ble_scan" => ~ scanning

\* uart-loopback leaves the port open only when its open failed (line 213), the
\* process was killed, or the close itself was refused or lost.
LoopbackCloses ==
  AtRest /\ cmd = "uart_loopback" /\ exit \in {"ok", "failed"}
    /\ port \in openPorts => faulty \/ step = "lb_open"

\* ble-scan leaves the device scanning only when a command before its loop
\* failed (line 334), the process was killed, or the stop was refused or lost.
ScanStops ==
  AtRest /\ cmd = "ble_scan" /\ exit \in {"ok", "failed"}
    /\ scanning => faulty \/ step \in {"scan_cap", "scan_param", "scan_start"}

\* ble-scan reports success only if no report was waiting when it wrote the
\* stop (line 397): the one answer it reads then is a report.
BusyScanFails ==
  EndedWell /\ cmd = "ble_scan" => line # "backlog"

\* A run that starts with an answer or a packet still on its way never ends
\* well, that is on an own answer, unless the device loses a request: it stays one
\* answer behind, and leaves one behind for the next run.  It fails, or exits with
\* 0 on an answer that bears its number and command but was an earlier run's.
BehindStaysBehind ==
  owed /\ ~ faulty /\ cmd # "debug_xfer" => ~ EndedWell

\* Every run ends, whatever the device does or does not.
CommandEnds == (phase # "ended") ~> (phase = "ended")
=============================================================================
