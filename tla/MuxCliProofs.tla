---------------------------- MODULE MuxCliProofs ----------------------------
(***************************************************************************)
(* What the command line tool promises, for every set of commands, texts   *)
(* and noise, every depth of the pipes and any number of runs.             *)
(*                                                                         *)
(* Every step of the tool is a step of MuxTransact, or one transfer of     *)
(* debug-xfer, which hands over a frame without the checks of transact().  *)
(* So what is proved of the pipes holds here as well, and what is proved   *)
(* of the results holds in the runs of the other commands.                 *)
(***************************************************************************)
EXTENDS MuxCli, MuxTransactProofs, FiniteSetTheorems

-----------------------------------------------------------------------------
(* The invariants.                                                         *)

LoopbackSteps == {"lb_open", "lb_write", "lb_read", "lb_close", "lb_abort"}
ScanSteps     == {"scan_cap", "scan_param", "scan_start", "scan_read", "scan_stop"}

\* Numbers drawn by a run before the call of this step, and with it.
DrawnBefore(s) ==
  IF s \in {"caps", "lb_write", "scan_param", "dbg_rest"} THEN 1
  ELSE IF s \in {"lb_read", "lb_close", "lb_abort", "scan_start"} THEN 2
  ELSE IF s \in {"scan_read", "scan_stop"} THEN 3
  ELSE 0
DrawnAfter(s) ==
  IF s \in {"lb_read", "scan_read", "dbg_rest"} THEN DrawnBefore(s) ELSE DrawnBefore(s) + 1

\* The call in hand once the step has made its call.
MadeBy(s) == CallOf(IF s = "dbg_rest" THEN "dbg_in" ELSE s)

\* The process is where its command and its calls have brought it.
ProgramOK ==
  /\ cmd \in DOMAIN FirstStep /\ step \in Steps
  /\ phase \in {"do", "done", "ended"} /\ exit \in {"none", "ok", "failed", "usage", "killed"}
  /\ step \in LoopbackSteps <=> cmd = "uart_loopback"
  /\ step \in ScanSteps <=> cmd = "ble_scan"
  /\ step \in {"dbg_in", "dbg_rest"} <=> cmd = "debug_xfer"
  /\ step = "open" <=> cmd = "uart_open"
  /\ step = "close" <=> cmd = "uart_close"
  /\ payload_len \in Nat /\ (cmd = "uart_loopback" => payload_len \in Texts)
  /\ cmd # "uart_loopback" => payload_len = 0

CallMade == call = MadeBy(step) /\ issued = DrawnAfter(step)

PhaseOK ==
  /\ phase # "done" => pc = "idle"
  /\ phase # "ended" => exit = "none" /\ payload_len <= MAX_PAYLOAD
  /\ phase = "do" => step # "dbg_rest" /\ issued = DrawnBefore(step)
  /\ phase = "done" => CallMade
  /\ step = "dbg_in" => rx.offset = 0

EndOK ==
  phase = "ended" /\ exit \in {"ok", "failed"} =>
    /\ CallMade
    /\ exit = "ok" => /\ step \in LastSteps \cup {"lb_close", "dbg_rest"}
                      /\ step # "dbg_rest" => ret.result = "OK"
    /\ exit = "failed" => step \notin {"lb_write", "lb_read", "scan_read"}

ProgramInv == ProgramOK /\ PhaseOK /\ EndOK

\* Outside of debug-xfer a result is what transact() makes of a frame.
CheckedInv == cmd # "debug_xfer" => ResultInv /\ Fits /\ BlockInv

BaseInv == IInv /\ PipesInv /\ PacketInv

\* Frames to the device are commands and the texts.
OutFrames ==
  \A i \in 1 .. Len(outPipe) :
    LET f == outPipe[i].frame
    IN /\ f.msg_type \in {"CMD", "DATA"}
       /\ f.msg_type = "DATA" => f.ch_id = port /\ f.payload_len \in Texts

Pieces == {n \in 1 .. MAX_PAYLOAD : <<"DATA", port, n>> \in Unsolicited}

PortInv == OutFrames /\ looped \in Seq(Pieces)

\* With the answer to a scan stop on its way, the scan is off.
ScanSettled ==
  \A f \in Incoming :
    OwnReply(f) /\ plugged /\ f.status = "OK" /\ f.ch_type = "BLE_MGMT" /\ f.opcode = 4 =>
      ~ scanning

\* The order that ends a run is on its way or carried out.
LastOrders == {"lb_close", "lb_abort", "scan_stop"}
CarriedOut == IF step = "scan_stop" THEN ~ scanning ELSE port \notin openPorts
Ordered(w) ==
  /\ w.whole /\ Current(w.frame) /\ w.frame.msg_type = "CMD"
  /\ w.frame.ch_type = call.ch_type /\ w.frame.ch_id = call.ch_id
  /\ w.frame.opcode = call.opcode
Asked ==
  /\ step \in LastOrders /\ ~ faulty /\ plugged
  /\ \/ phase = "done" /\ pc # "write"
     \/ phase = "ended" /\ exit \in {"ok", "failed"}
LastOrder ==
  Asked => \/ \E i \in 1 .. Len(outPipe) : Ordered(outPipe[i])
           \/ outPipe = <<>> /\ CarriedOut

-----------------------------------------------------------------------------
(* The programs.                                                           *)

LEMMA FirstSteps ==
  /\ DOMAIN FirstStep = {"probe", "heartbeat", "uart_cap", "uart_open", "uart_loopback",
                         "uart_close", "ble_scan", "debug_xfer"}
  /\ FirstStep["probe"] = "dev_info" /\ FirstStep["heartbeat"] = "heartbeat"
  /\ FirstStep["uart_cap"] = "port_cap" /\ FirstStep["uart_open"] = "open"
  /\ FirstStep["uart_loopback"] = "lb_open" /\ FirstStep["uart_close"] = "close"
  /\ FirstStep["ble_scan"] = "scan_cap" /\ FirstStep["debug_xfer"] = "dbg_in"
  BY DEF FirstStep

LEMMA NextSteps ==
  /\ DOMAIN NextStep = {"dev_info", "lb_open", "scan_cap", "scan_param", "scan_start"}
  /\ NextStep["dev_info"] = "caps" /\ NextStep["lb_open"] = "lb_write"
  /\ NextStep["scan_cap"] = "scan_param" /\ NextStep["scan_param"] = "scan_start"
  /\ NextStep["scan_start"] = "scan_read"
  BY DEF NextStep

LEMMA AllSteps ==
  Steps = {"dev_info", "lb_open", "scan_cap", "scan_param", "scan_start",
           "caps", "heartbeat", "port_cap", "open", "close", "scan_stop", "dbg_in",
           "lb_write", "lb_read", "lb_close", "lb_abort", "scan_read", "dbg_rest"}
  BY NextSteps DEF Steps, LastSteps

ReadSteps == {"lb_read", "scan_read"}

IsCommand(c) == c.fn = "transact" /\ c.msg_type = "CMD"

LEMMA Commanding ==
  /\ IsCommand(sys_get_dev_info) /\ IsCommand(sys_get_caps)
  /\ IsCommand(sys_heartbeat(4, 128, TRUE)) /\ IsCommand(uart_get_port_cap(port))
  /\ IsCommand(uart_open(port)) /\ IsCommand(uart_close(port)) /\ IsCommand(ble_get_cap)
  /\ IsCommand(ble_set_scan_param) /\ IsCommand(ble_scan_start) /\ IsCommand(ble_scan_stop)
  <1>1. /\ \A ty, ch, op, size : IsCommand(Query(ty, ch, op, size))
        /\ \A ty, ch, op, len : IsCommand(Order(ty, ch, op, len))
    BY DEF IsCommand, Query, Order
  <1>2. IsCommand(sys_heartbeat(4, 128, TRUE))
    BY DEF IsCommand, sys_heartbeat, Order
  <1> QED
    BY <1>1, <1>2
    DEF sys_get_dev_info, sys_get_caps, uart_get_port_cap, uart_open, uart_close,
        ble_get_cap, ble_set_scan_param, ble_scan_start, ble_scan_stop

\* The call of each step.
LEMMA StepCalls ==
  /\ MadeBy("dev_info") = sys_get_dev_info /\ MadeBy("dbg_in") = sys_get_dev_info
  /\ MadeBy("dbg_rest") = sys_get_dev_info /\ MadeBy("caps") = sys_get_caps
  /\ MadeBy("heartbeat") = sys_heartbeat(4, 128, TRUE)
  /\ MadeBy("port_cap") = uart_get_port_cap(port)
  /\ MadeBy("open") = uart_open(port) /\ MadeBy("lb_open") = uart_open(port)
  /\ MadeBy("close") = uart_close(port) /\ MadeBy("lb_close") = uart_close(port)
  /\ MadeBy("lb_abort") = uart_close(port)
  /\ MadeBy("lb_write") = uart_write(port, payload_len)
  /\ MadeBy("lb_read") = uart_read(port, MAX_FRAME_LEN)
  /\ MadeBy("scan_cap") = ble_get_cap /\ MadeBy("scan_param") = ble_set_scan_param
  /\ MadeBy("scan_start") = ble_scan_start
  /\ MadeBy("scan_read") = ble_read_event(MAX_FRAME_LEN, TRUE)
  /\ MadeBy("scan_stop") = ble_scan_stop
  BY DEF MadeBy, CallOf

LEMMA CommandSteps ==
  \A s \in Steps \ {"lb_write", "lb_read", "scan_read"} : IsCommand(MadeBy(s))
  BY AllSteps, StepCalls, Commanding

LEMMA OtherCalls ==
  /\ \A n : uart_write(port, n).fn = "uart_write" /\ uart_write(port, n).msg_type = "DATA"
  /\ uart_read(port, MAX_FRAME_LEN).fn = "uart_read"
  /\ ble_read_event(MAX_FRAME_LEN, TRUE).fn = "ble_read_event"
  BY DEF uart_write, uart_read, ble_read_event

LEMMA MadeByStays ==
  ASSUME payload_len' = payload_len, NEW s
  PROVE  MadeBy(s)' = MadeBy(s)
  BY DEF MadeBy, CallOf

LEMMA CallStays ==
  ASSUME UNCHANGED <<call, issued, step, payload_len>>
  PROVE  CallMade' = CallMade
  BY DEF CallMade, MadeBy, CallOf

\* The call of a step is one MuxTransact knows.
LEMMA CallIsKnown ==
  ASSUME ProgramInv, phase = "do"
  PROVE  CallOf(step) \in Calls /\ CallOf(step) = MadeBy(step)
  <1>1. step \in Steps /\ step # "dbg_rest" /\ (step = "lb_write" => payload_len \in Texts)
    BY DEF ProgramInv, ProgramOK, PhaseOK, LoopbackSteps
  <1>2. CallOf(step) = MadeBy(step)
    <2>1. (IF step = "dbg_rest" THEN "dbg_in" ELSE step) = step
      BY <1>1
    <2> QED
      BY <2>1 DEF MadeBy
  <1>3. MadeBy(step) \in ToolCalls
    <2>1. /\ sys_get_dev_info \in ToolCalls /\ sys_get_caps \in ToolCalls
          /\ sys_heartbeat(4, 128, TRUE) \in ToolCalls
          /\ uart_get_port_cap(port) \in ToolCalls
          /\ uart_open(port) \in ToolCalls /\ uart_close(port) \in ToolCalls
          /\ uart_read(port, MAX_FRAME_LEN) \in ToolCalls
          /\ ble_get_cap \in ToolCalls /\ ble_set_scan_param \in ToolCalls
          /\ ble_scan_start \in ToolCalls /\ ble_scan_stop \in ToolCalls
          /\ ble_read_event(MAX_FRAME_LEN, TRUE) \in ToolCalls
      BY DEF ToolCalls
    <2>2. step = "lb_write" => MadeBy(step) \in ToolCalls
      BY <1>1, StepCalls DEF ToolCalls
    <2> QED
      BY <1>1, <2>1, <2>2, AllSteps, StepCalls
  <1> QED
    BY <1>2, <1>3, CliAssumption

LEMMA DoCallStep ==
  ASSUME IInv, ProgramInv, DoCall
  PROVE  /\ Host
         /\ call' = MadeBy(step) /\ issued' = DrawnAfter(step)
         /\ rx' = EmptyRx /\ ret'.frame = NoFrame /\ ret'.result # "OK"
         /\ UNCHANGED <<outPipe, inPipe, plugged, openPorts, epoch>>
         /\ step \in LastOrders => pc' = "write"
  <1> DEFINE c == MadeBy(step)
  <1>1. c \in Calls /\ c = CallOf(step) /\ phase = "do"
    BY CallIsKnown DEF DoCall
  <1>2. /\ issued = DrawnBefore(step) /\ step \in Steps
        /\ IsCommand(c) \/ step \in {"lb_write", "lb_read", "scan_read"}
    BY <1>1, CommandSteps DEF ProgramInv, ProgramOK, PhaseOK
  <1> HIDE DEF c
  <1>3. CASE Transact(c) \/ UartWrite(c)
    <2>1. /\ StartRequest(c) /\ c.fn \in {"transact", "uart_write"}
      BY <1>3 DEF Transact, UartWrite
    <2>2. step \notin ReadSteps
      BY <2>1, StepCalls, OtherCalls DEF ReadSteps, c
    <2>3. /\ call' = c /\ issued' = issued + 1 /\ rx' = EmptyRx
          /\ UNCHANGED <<outPipe, inPipe, plugged, openPorts, epoch>>
          /\ ret'.frame = NoFrame /\ ret'.result # "OK"
      BY <2>1, EmptyFramesOwn DEF StartRequest, Return, BuildErrors, devVars
    <2>4. step \in LastOrders => pc' = "write"
      <3>1. step \in LastOrders => c \in {uart_close(port), ble_scan_stop}
        BY StepCalls DEF LastOrders, c
      <3>2. step \in LastOrders => c.len = 0
        BY <3>1 DEF uart_close, ble_scan_stop, Order
      <3>3. c.len = 0 => BuildErrors(c) = {}
        BY DEF BuildErrors, MAX_PAYLOAD, MAX_FRAME_LEN, HEADER_LEN
      <3> QED
        BY <2>1, <3>2, <3>3 DEF StartRequest
    <2>5. step # "dbg_rest" => issued' = DrawnAfter(step)
      BY <1>2, <2>2, <2>3 DEF DrawnAfter, ReadSteps
    <2> QED
      BY <1>1, <1>3, <2>3, <2>4, <2>5 DEF Host, c, ProgramInv, PhaseOK
  <1>4. CASE UartRead(c) \/ BleReadEvent(c)
    <2>1. /\ StartRead(c) /\ c.fn \in {"uart_read", "ble_read_event"}
      BY <1>4 DEF UartRead, BleReadEvent
    <2>2. step \in ReadSteps
      BY <1>2, <2>1, StepCalls, OtherCalls DEF ReadSteps, IsCommand, c
    <2>3. /\ call' = c /\ issued' = issued /\ rx' = EmptyRx /\ pc' = "read"
          /\ UNCHANGED <<outPipe, inPipe, plugged, openPorts, epoch>>
          /\ ret'.frame = NoFrame /\ ret'.result # "OK"
      BY <2>1, EmptyFramesOwn DEF StartRead, devVars
    <2> QED
      BY <1>1, <1>2, <1>4, <2>2, <2>3 DEF Host, DrawnAfter, ReadSteps, LastOrders, c
  <1> QED
    BY <1>1, <1>3, <1>4 DEF DoCall

-----------------------------------------------------------------------------
(* The process does what its command says.                                 *)

\* Where a command goes on to.
GoesOn ==
  /\ phase # "ended" /\ phase' = "do" /\ UNCHANGED <<exit, successes>>
  /\ \/ phase = "done" /\ Ok /\ step \in DOMAIN NextStep /\ step' = NextStep[step]
     \/ phase = "done" /\ Ok /\ step \in {"lb_write", "lb_read"} /\ step' \in {"lb_read", "lb_close"}
     \/ phase = "done" /\ step \in {"lb_write", "lb_read"} /\ step' = "lb_abort"
     \/ /\ phase = "done" /\ ret.result \in {"OK", "ERR_TIMEOUT"}
        /\ step = "scan_read" /\ step' = "scan_read"
     \/ step = "scan_read" /\ step' = "scan_stop"

\* Where it ends.
Finishes ==
  /\ phase = "done" /\ phase' = "ended" /\ step' = step
  /\ \/ exit' = "ok" /\ Ok /\ step \in LastSteps \cup {"lb_close"}
     \/ exit' = "ok" /\ step = "dbg_rest"
     \/ exit' = "failed" /\ step \notin {"lb_write", "lb_read", "scan_read"}

LEMMA DecideMoves ==
  ASSUME ProgramInv, Decide
  PROVE  /\ pc = "idle" /\ (GoesOn \/ Finishes)
         /\ UNCHANGED <<vars, cmd, payload_len, timeup, portVars, owed, faulty, loops>>
  <1>1. CASE Proceed \/ LoopbackWritten \/ LoopbackTakes \/ LoopbackAborts
    BY <1>1 DEF Proceed, LoopbackWritten, LoopbackTakes, LoopbackAborts, ReadOrClose, Back,
                Goto, Stays, GoesOn
  <1>2. CASE ScanContinues \/ ScanTimeIsUp
    BY <1>2 DEF ScanContinues, ScanTimeIsUp, Back, Goto, Stays, GoesOn, ProgramInv, PhaseOK
  <1>3. CASE Succeed \/ GiveUp \/ LoopbackAborted \/ LoopbackEnds \/ DebugEnds
    BY <1>3, NextSteps
    DEF Succeed, GiveUp, LoopbackAborted, LoopbackEnds, DebugEnds, Back, Exit, Stays, Finishes,
        LastSteps
  <1> QED
    BY <1>1, <1>2, <1>3 DEF Decide

\* A transfer leaves the program where it is.
LEMMA TransferStays ==
  ASSUME ProgramInv, Transfer \/ TransferNotWritten \/ DebugRead
  PROVE  /\ phase = "done" /\ pc # "idle" /\ pc' \in {pc, "read", "idle"}
         /\ UNCHANGED <<cmd, phase, exit, payload_len, rx_total, match, timeup, portVars>>
         /\ UNCHANGED <<owed, loops, successes, call, issued, epoch, plugged, openPorts>>
         /\ step' = step \/ (DebugRead /\ step = "dbg_in" /\ step' = "dbg_rest")
  <1>1. CASE Transfer
    BY <1>1
    DEF Transfer, WriteFrame, ReadFails, NoDevice, ReadPacket, Return, devVars, progVars,
        portVars, histVars, ProgramInv, ProgramOK, PhaseOK
  <1>2. CASE TransferNotWritten
    BY <1>2
    DEF TransferNotWritten, WriteFails, Return, progVars, ProgramInv, ProgramOK, PhaseOK
  <1>3. CASE DebugRead
    BY <1>3 DEF DebugRead, Return, portVars, histVars, ProgramInv, ProgramOK, PhaseOK
  <1> QED
    BY <1>1, <1>2, <1>3

\* The device touches nothing of the host.
LEMMA CliDeviceStays ==
  ASSUME CliDevice
  PROVE  /\ UNCHANGED <<progVars, hostVars, issued, epoch, owed, successes>>
         /\ faulty => faulty'
         /\ plugged' => plugged
  <1>1. CASE CliExecutes \/ CliRefuses \/ CliDiscards \/ PortLoops
    <2>1. /\ UNCHANGED <<progVars, hostVars, issued, epoch, owed, successes, plugged>>
          /\ faulty' \in {faulty, TRUE, faulty \/ Head(outPipe).frame.msg_type = "CMD"}
      BY <1>1 DEF CliExecutes, CliRefuses, CliDiscards, PortLoops, DeviceExecutes,
                  DeviceRefuses, DeviceDiscards, histVars
    <2>2. faulty => faulty'
      BY <2>1, Zenon
    <2> QED
      BY <2>1, <2>2
  <1>2. CASE PortSends \/ CliSpeaks \/ CliUnplug
    BY <1>2 DEF PortSends, CliSpeaks, CliUnplug, Speaks, Unplug, histVars
  <1>3. CASE PortDrops
    <2>1. UNCHANGED vars /\ UNCHANGED progVars /\ UNCHANGED histVars
      BY <1>3 DEF PortDrops
    <2>2. UNCHANGED <<hostVars, devVars, issued, epoch>>
      BY <2>1 DEF vars
    <2>3. UNCHANGED plugged
      BY <2>2 DEF devVars
    <2> QED
      BY <2>1, <2>2, <2>3 DEF histVars
  <1> QED
    BY <1>1, <1>2, <1>3 DEF CliDevice

LEMMA StartProgram ==
  ASSUME ProgramInv, Run \/ BadArguments
  PROVE  ProgramInv'
  <1>1. /\ Reopen /\ pc' = "idle" /\ rx'.offset = 0 /\ issued' = 0
    BY DEF Run, Start, BadArguments, Reopen, EmptyRx
  <1>2. CASE BadArguments
    <2>1. UNCHANGED <<cmd, step, phase, payload_len>> /\ phase = "ended" /\ exit' = "usage"
      BY <1>2 DEF BadArguments
    <2> QED
      BY <1>1, <2>1 DEF ProgramInv, ProgramOK, PhaseOK, EndOK
  <1>3. CASE Run
    <2>1. PICK c \in DOMAIN FirstStep, n \in Nat :
            /\ c = "uart_loopback" => n \in Texts
            /\ c # "uart_loopback" => n = 0
            /\ cmd' = c /\ step' = FirstStep[c] /\ payload_len' = n
            /\ \/ n > MAX_PAYLOAD /\ phase' = "ended" /\ exit' = "usage"
               \/ n <= MAX_PAYLOAD /\ phase' = "do" /\ exit' = "none"
      <3>1. PICK c \in Commands :
              \E n \in (IF c = "uart_loopback" THEN Texts ELSE {0}) : Start(c, n)
        BY <1>3 DEF Run
      <3>2. PICK n \in Nat : /\ Start(c, n)
                             /\ c = "uart_loopback" => n \in Texts
                             /\ c # "uart_loopback" => n = 0
        BY <3>1, CliAssumption
      <3>3. /\ cmd' = c /\ step' = FirstStep[c] /\ payload_len' = n
            /\ n > MAX_PAYLOAD => phase' = "ended" /\ exit' = "usage"
            /\ ~ (n > MAX_PAYLOAD) => phase' = "do" /\ exit' = "none"
        BY <3>2 DEF Start
      <3>4. \/ n > MAX_PAYLOAD /\ phase' = "ended" /\ exit' = "usage"
            \/ n <= MAX_PAYLOAD /\ phase' = "do" /\ exit' = "none"
        BY <3>3 DEF MAX_PAYLOAD, MAX_FRAME_LEN, HEADER_LEN
      <3>5. c \in DOMAIN FirstStep
        BY <3>1, CliAssumption
      <3> QED
        BY <3>2, <3>3, <3>4, <3>5, Zenon
    <2>2. /\ step' \in Steps /\ DrawnBefore(step') = 0 /\ step' # "dbg_rest"
          /\ step' \in LoopbackSteps <=> c = "uart_loopback"
          /\ step' \in ScanSteps <=> c = "ble_scan"
          /\ step' \in {"dbg_in", "dbg_rest"} <=> c = "debug_xfer"
          /\ step' = "open" <=> c = "uart_open"
          /\ step' = "close" <=> c = "uart_close"
      BY <2>1, FirstSteps, AllSteps DEF DrawnBefore, LoopbackSteps, ScanSteps
    <2> QED
      BY <1>1, <2>1, <2>2 DEF ProgramInv, ProgramOK, PhaseOK, EndOK
  <1> QED
    BY <1>2, <1>3

LEMMA DecideProgram ==
  ASSUME ProgramInv, Decide
  PROVE  ProgramInv'
  <1>1. /\ pc = "idle" /\ (GoesOn \/ Finishes)
        /\ UNCHANGED <<pc, rx, ret, call, issued, cmd, payload_len>>
    BY DecideMoves DEF vars, hostVars
  <1>2. CASE GoesOn
    <2>1. /\ step' \in Steps /\ step' # "dbg_rest" /\ step' # "dbg_in"
          /\ step' \in LoopbackSteps <=> step \in LoopbackSteps
          /\ step' \in ScanSteps <=> step \in ScanSteps
          /\ step \notin {"dbg_in", "dbg_rest", "open", "close"}
          /\ step' \notin {"dbg_in", "dbg_rest", "open", "close"}
      BY <1>2, NextSteps, AllSteps DEF GoesOn, LoopbackSteps, ScanSteps
    <2>2. issued = DrawnBefore(step')
      <3>1. CASE phase = "done"
        <4>1. issued = DrawnAfter(step)
          BY <3>1 DEF ProgramInv, PhaseOK, CallMade
        <4> QED
          BY <1>2, <4>1, NextSteps DEF GoesOn, DrawnAfter, DrawnBefore
      <3>2. CASE phase # "done"
        <4>1. issued = DrawnBefore(step) /\ step = "scan_read" /\ step' = "scan_stop"
          BY <1>2, <3>2 DEF GoesOn, ProgramInv, ProgramOK, PhaseOK
        <4> QED
          BY <4>1 DEF DrawnBefore
      <3> QED
        BY <3>1, <3>2
    <2>3. phase' = "do" /\ exit' = exit /\ phase # "ended"
      BY <1>2 DEF GoesOn
    <2> QED
      BY <1>1, <2>1, <2>2, <2>3 DEF ProgramInv, ProgramOK, PhaseOK, EndOK
  <1>3. CASE Finishes
    <2>1. CallMade' = CallMade
      BY <1>1, <1>3, CallStays DEF Finishes
    <2> QED
      BY <1>1, <1>3, <2>1 DEF Finishes, ProgramInv, ProgramOK, PhaseOK, EndOK, Ok
  <1> QED
    BY <1>1, <1>2, <1>3

LEMMA ToolProgram ==
  ASSUME IInv, ProgramInv, DoCall \/ Transfer \/ TransferNotWritten \/ DebugRead
  PROVE  ProgramInv'
  <1>1. CASE DoCall
    <2>1. /\ UNCHANGED <<cmd, step, exit, payload_len>> /\ phase = "do" /\ phase' = "done"
      BY <1>1 DEF DoCall
    <2>2. /\ call' = MadeBy(step) /\ issued' = DrawnAfter(step) /\ rx' = EmptyRx
      BY <1>1, DoCallStep
    <2>3. CallMade'
      BY <2>1, <2>2, MadeByStays DEF CallMade, MadeBy, CallOf
    <2> QED
      BY <2>1, <2>2, <2>3 DEF EmptyRx, ProgramInv, ProgramOK, PhaseOK, EndOK
  <1>2. CASE Transfer \/ TransferNotWritten \/ DebugRead
    <2>1. /\ phase = "done" /\ phase' = "done"
          /\ UNCHANGED <<cmd, exit, payload_len, call, issued>>
          /\ step' = step \/ (step = "dbg_in" /\ step' = "dbg_rest")
      BY <1>2, TransferStays
    <2>2. step' \in Steps /\ (step' = "dbg_in" => rx'.offset = 0)
      <3>1. step' = "dbg_in" => step = "dbg_in"
        BY <2>1
      <3>2. step = "dbg_in" /\ step' = "dbg_in" => rx' = rx \/ rx' = EmptyRx
        BY <1>2 DEF Transfer, TransferNotWritten, DebugRead, WriteFrame, WriteFails, ReadFails,
                    NoDevice, Return
      <3> QED
        <4>1. EmptyRx.offset = 0 /\ (step = "dbg_in" => rx.offset = 0)
          BY DEF EmptyRx, ProgramInv, PhaseOK
        <4>2. step \in Steps /\ "dbg_rest" \in Steps
          BY AllSteps DEF ProgramInv, ProgramOK
        <4> QED
          BY <2>1, <3>1, <3>2, <4>1, <4>2
    <2>3. CallMade'
      <3>1. CallMade
        BY <2>1 DEF ProgramInv, PhaseOK
      <3>2. CASE step' = step
        BY <2>1, <3>1, <3>2, CallStays
      <3>3. CASE step = "dbg_in" /\ step' = "dbg_rest"
        <4>1. call = CallOf("dbg_in") /\ issued = 1
          BY <3>1, <3>3 DEF CallMade, MadeBy, DrawnAfter, DrawnBefore
        <4>2. CallOf("dbg_in") = sys_get_dev_info
          BY DEF CallOf
        <4>3. CallMade' <=> (call' = CallOf("dbg_in")' /\ issued' = 1)
          BY <3>3 DEF CallMade, MadeBy, DrawnAfter, DrawnBefore
        <4>4. CallOf("dbg_in")' = sys_get_dev_info
          BY <4>2 DEF CallOf
        <4> QED
          BY <2>1, <4>1, <4>2, <4>3, <4>4
      <3> QED
        BY <2>1, <3>2, <3>3
    <2> QED
      BY <2>1, <2>2, <2>3 DEF ProgramInv, ProgramOK, PhaseOK, EndOK, LoopbackSteps, ScanSteps
  <1> QED
    BY <1>1, <1>2

LEMMA NextProgram ==
  ASSUME IInv, ProgramInv, [CliNext]_cliVars
  PROVE  ProgramInv'
  <1>1. CASE Clock \/ Kill \/ CliDevice \/ UNCHANGED cliVars
    <2>1. /\ UNCHANGED <<cmd, step, payload_len, pc, rx, ret, call, issued>>
          /\ \/ phase' = phase /\ exit' = exit
             \/ phase' = "ended" /\ exit' = "killed" /\ pc = "idle"
      BY <1>1, CliDeviceStays DEF Clock, Kill, cliVars, vars, hostVars, progVars
    <2>2. CallMade' = CallMade
      BY <2>1, CallStays
    <2> QED
      BY <2>1, <2>2 DEF ProgramInv, ProgramOK, PhaseOK, EndOK
  <1> QED
    BY <1>1, StartProgram, DecideProgram, ToolProgram DEF CliNext, Tool

LEMMA InitProgram == CliInit => ProgramInv
  BY FirstSteps, AllSteps
  DEF CliInit, Init, ProgramInv, ProgramOK, PhaseOK, EndOK, LoopbackSteps, ScanSteps, EmptyRx

-----------------------------------------------------------------------------
(* The pipes.                                                              *)

LEMMA MuxStep ==
  ASSUME IInv, ProgramInv, PortInv, CliNext
  PROVE  Host \/ Device \/ DebugRead \/ UNCHANGED vars
  <1>1. CASE Run \/ BadArguments
    BY <1>1 DEF Run, Start, BadArguments, Host
  <1>2. CASE DoCall
    BY <1>2, DoCallStep
  <1>3. CASE Decide
    BY <1>3, DecideMoves
  <1>4. CASE Transfer \/ TransferNotWritten
    BY <1>4 DEF Transfer, TransferNotWritten, Host
  <1>5. CASE Clock \/ Kill \/ PortDrops
    BY <1>5 DEF Clock, Kill, PortDrops
  <1>6. CASE PortSends
    <2>1. Head(looped) \in Pieces
      BY <1>6, SeqParts DEF PortSends, PortInv
    <2> QED
      BY <1>6, <2>1 DEF PortSends, Pieces, Device, DeviceSpeaks
  <1>7. CASE CliExecutes \/ CliRefuses \/ CliDiscards \/ PortLoops \/ CliSpeaks \/ CliUnplug
    BY <1>7
    DEF CliExecutes, CliRefuses, CliDiscards, PortLoops, CliSpeaks, CliUnplug, Device,
        DeviceSpeaks
  <1> QED
    BY <1>1, <1>2, <1>3, <1>4, <1>5, <1>6, <1>7 DEF CliNext, Tool, CliDevice

\* The one transfer that MuxTransact does not have.
LEMMA DebugOutcomes ==
  ASSUME IInv, ProgramInv, DebugRead
  PROVE  LET p == Head(inPipe)
         IN /\ inPipe # <<>> /\ p \in Packet /\ inPipe' = Tail(inPipe) /\ p.frame \in Incoming
            /\ pc = "read" /\ plugged /\ rx.offset = 0 /\ cmd = "debug_xfer"
            /\ UNCHANGED <<next_seq, call, seq, outPipe, plugged, openPorts, issued, epoch, line>>
            /\ \/ Return("ERR_PROTO", NoFrame, TRUE)
               \/ Return("OK", p.frame, TRUE)
               \/ /\ p.index = 1 /\ p.len < TotalLen(p.frame)
                  /\ rx' = [offset |-> p.len, lead |-> p, intact |-> TRUE]
                  /\ UNCHANGED <<pc, ret>>
  <1> DEFINE p == Head(inPipe)
  <1>1. inPipe # <<>> /\ inPipe' = Tail(inPipe)
    BY DEF DebugRead
  <1>2. inPipe \in Seq(Packet)
    BY DEF IInv, TypeInv, TypeOK
  <1>3. p \in Packet /\ p.frame \in Frame /\ p.len \in 0 .. 64
    <2>1. p \in Packet
      BY <1>1, <1>2, SeqParts
    <2> QED
      BY <2>1 DEF Packet, EP_PACKET_SIZE
  <1>4. p.frame \in Incoming
    BY <1>1, <1>2 DEF Incoming
  <1>5. TotalLen(p.frame) \in Int
    BY <1>3 DEF TotalLen, Frame, HEADER_LEN, MAX_PAYLOAD, MAX_FRAME_LEN
  <1>6. rx.offset = 0 /\ cmd = "debug_xfer"
    BY DEF DebugRead, ProgramInv, ProgramOK, PhaseOK
  <1>7. \/ Return("ERR_PROTO", NoFrame, TRUE)
        \/ Return("OK", p.frame, TRUE)
        \/ /\ p.index = 1 /\ TotalLen(p.frame) > p.len
           /\ rx' = [offset |-> p.len, lead |-> p, intact |-> TRUE]
           /\ UNCHANGED <<pc, ret>>
    BY DEF DebugRead, Decodes
  <1> QED
    BY <1>1, <1>3, <1>4, <1>5, <1>6, <1>7 DEF DebugRead

LEMMA DebugIncoming ==
  ASSUME IInv, ProgramInv, DebugRead
  PROVE  \A f \in Incoming' : f \in Incoming \/ f.msg_type # "RSP"
  <1>1. /\ inPipe # <<>> /\ inPipe' = Tail(inPipe) /\ Head(inPipe).frame \in Incoming
        /\ \/ Return("ERR_PROTO", NoFrame, TRUE)
           \/ Return("OK", Head(inPipe).frame, TRUE)
           \/ /\ rx' = [offset |-> Head(inPipe).len, lead |-> Head(inPipe), intact |-> TRUE]
              /\ ret' = ret
    BY DebugOutcomes
  <1>2. inPipe \in Seq(Packet) /\ ret.frame \in Incoming /\ EmptyRx.lead.frame = NoFrame
    BY NoFrameIsNoReply DEF IInv, TypeInv, TypeOK, Incoming
  <1>3. /\ rx'.lead.frame \in Incoming \cup {NoFrame}
        /\ ret'.frame \in Incoming \cup {NoFrame}
    BY <1>1, <1>2 DEF Return
  <1> QED
    BY <1>1, <1>2, <1>3, NothingComes

LEMMA DebugBase ==
  ASSUME BaseInv, ProgramInv, DebugRead
  PROVE  BaseInv'
  <1> DEFINE p == Head(inPipe)
  <1> USE DEF BaseInv
  <1>1. /\ inPipe # <<>> /\ p \in Packet /\ inPipe' = Tail(inPipe) /\ p.frame \in Incoming
        /\ pc = "read" /\ plugged /\ rx.offset = 0
        /\ UNCHANGED <<next_seq, call, seq, outPipe, plugged, openPorts, issued, epoch, line>>
        /\ \/ Return("ERR_PROTO", NoFrame, TRUE)
           \/ Return("OK", p.frame, TRUE)
           \/ /\ p.index = 1 /\ p.len < TotalLen(p.frame)
              /\ rx' = [offset |-> p.len, lead |-> p, intact |-> TRUE]
              /\ UNCHANGED <<pc, ret>>
    BY DebugOutcomes
  <1>2. inPipe \in Seq(Packet) /\ p.frame \in Frame /\ p.index \in Nat /\ p.len \in Nat
    <2>1. inPipe \in Seq(Packet)
      BY <1>1 DEF IInv, TypeInv, TypeOK
    <2> HIDE DEF p
    <2>2. p \in Packet
      BY <1>1
    <2>3. p.frame \in Frame /\ p.index \in Nat /\ p.len \in Nat
      BY <2>2 DEF Packet, EP_PACKET_SIZE
    <2> QED
      BY <2>1, <2>3
  <1>3. /\ EmptyRx.offset = 0 /\ EmptyRx.intact /\ EmptyRx.lead.frame = NoFrame
        /\ NoFrame.msg_type # "RSP"
    BY NoFrameIsNoReply DEF EmptyRx
  <1>4. /\ \/ rx' = EmptyRx \/ rx' = [offset |-> p.len, lead |-> p, intact |-> TRUE]
        /\ \/ ret' = ret /\ pc' = pc
           \/ /\ pc' = "idle" /\ rx' = EmptyRx /\ ret'.intact
              /\ ret'.frame \in {NoFrame, p.frame} /\ ret' \in Outcome
    <2>1. NoFrame \in Frame /\ "ERR_PROTO" \in Results /\ "OK" \in Results
      BY ConstantFrames DEF Results
    <2>2. CASE \E e \in {"ERR_PROTO", "OK"}, f \in {NoFrame, p.frame} : Return(e, f, TRUE)
      <3>1. ret' \in Outcome
        BY <1>2, <2>1, <2>2, ReturnType
      <3> HIDE DEF p
      <3> QED
        BY <2>2, <3>1 DEF Return
    <2> HIDE DEF p
    <2> QED
      BY <1>1, <2>2
  <1>5. TypeInv'
    <2>1. rx' \in Received
      <3>1. [offset |-> p.len, lead |-> p, intact |-> TRUE] \in Received
        <4>1. p \in [frame : Frame, index : Nat, len : Nat]
          BY <1>1, <1>2 DEF Packet
        <4> HIDE DEF p
        <4> QED
          BY <1>2, <4>1 DEF Received
      <3> QED
        BY <1>4, <3>1, ConstantFrames
    <2>2. ret' \in Outcome /\ pc' \in {pc, "idle"}
      BY <1>4 DEF IInv, TypeInv, TypeOK
    <2>3. inPipe' \in Seq(Packet)
      BY <1>1, <1>2
    <2> QED
      BY <1>1, <2>1, <2>2, <2>3 DEF IInv, TypeInv, TypeOK, CallOK
  <1>6. AnswerInv'
    <2>1. /\ rx'.lead.frame \in {NoFrame, rx.lead.frame, p.frame}
          /\ ret'.frame \in {NoFrame, ret.frame, rx.lead.frame, p.frame}
      BY <1>3, <1>4
    <2> QED
      BY <1>1, <2>1, TakenAnswer
  <1>7. PipesInv'
    <2>1. \A f \in Incoming' : f \in Incoming \/ f.msg_type # "RSP"
      BY DebugIncoming
    <2> QED
      BY <1>1, <1>4, <2>1, QuietStep
  <1>8. PacketInv'
    <2>1. /\ Stream(inPipe') /\ IsPart(p)
          /\ p.index < PacketCount(p.frame) =>
               /\ inPipe' # <<>> /\ Head(inPipe').frame = p.frame
               /\ Head(inPipe').index = p.index + 1
      BY <1>1, <1>2, TailStream DEF PacketInv
    <2>2. Locals'
      BY <1>1, <1>3, <1>4 DEF PacketInv, Locals
    <2>3. ASSUME rx'.offset > 0
          PROVE  Reading'
      <3>1. /\ rx' = [offset |-> p.len, lead |-> p, intact |-> TRUE]
            /\ p.index = 1 /\ p.len < TotalLen(p.frame)
        BY <1>1, <1>3, <2>3 DEF Return
      <3>2. p.len = PartLen(p.frame, 1) /\ 1 \in 1 .. PacketCount(p.frame)
        BY <2>1, <3>1 DEF IsPart
      <3>3. p.len = 64 /\ 1 < PacketCount(p.frame)
        BY <1>2, <3>1, <3>2, MoreToCome
      <3> QED
        BY <1>2, <2>1, <3>1, <3>3 DEF Reading
    <2> QED
      BY <2>1, <2>2, <2>3 DEF PacketInv, Reading
  <1> QED
    BY <1>5, <1>6, <1>7, <1>8 DEF IInv

LEMMA NextBase ==
  ASSUME BaseInv, ProgramInv, PortInv, [CliNext]_cliVars
  PROVE  BaseInv'
  <1>1. Host \/ Device \/ DebugRead \/ UNCHANGED vars
    BY MuxStep DEF BaseInv, cliVars
  <1>2. CASE DebugRead
    BY <1>2, DebugBase
  <1>3. CASE Host \/ Device \/ UNCHANGED vars
    <2>1. [Next]_vars
      BY <1>3 DEF Next
    <2>2. IInv' /\ PipesInv'
      BY <2>1, NextType, NextAnswer, NextOrder DEF BaseInv, IInv
    <2>3. CASE UNCHANGED vars
      <3>1. PacketInv'
        BY <2>3 DEF BaseInv, PacketInv, Reading, Locals, vars, hostVars, devVars
      <3> QED
        BY <2>2, <3>1 DEF BaseInv
    <2> QED
      BY <1>3, <2>2, <2>3, HostPackets, DevicePackets DEF BaseInv
  <1> QED
    BY <1>1, <1>2, <1>3

\* What a result says of its frame, and of the pipes.
LEMMA NextChecked ==
  ASSUME BaseInv, ProgramInv, PortInv, CheckedInv, [CliNext]_cliVars
  PROVE  CheckedInv'
  <1>1. CASE Run \/ BadArguments
    <2>1. Reopen
      BY <1>1 DEF Run, Start, BadArguments
    <2>2. /\ call' = NoCall /\ ret' = NoRet /\ line' = "busy" /\ pc' = "idle"
          /\ NoCall.fn # "transact"
      BY <2>1 DEF Reopen, NoCall, uart_write
    <2> QED
      BY <2>2 DEF CheckedInv, ResultInv, Fits, BlockInv
  <1>2. CASE ~ (Run \/ BadArguments)
    <2>1. cmd' = cmd
      <3>1. CASE Tool
        BY <3>1, DecideMoves, TransferStays DEF Tool, DoCall
      <3> QED
        BY <1>2, <3>1, CliDeviceStays DEF CliNext, Clock, Kill, cliVars, progVars
    <2>2. SUFFICES ASSUME cmd # "debug_xfer"
                   PROVE  (ResultInv /\ Fits /\ BlockInv)'
      BY <2>1 DEF CheckedInv
    <2>3. ResultInv /\ Fits /\ BlockInv
      BY <2>2 DEF CheckedInv
    <2>4. ~ DebugRead
      BY <2>2 DEF DebugRead, ProgramInv, ProgramOK
    <2>5. Host \/ Device \/ UNCHANGED vars
      BY <2>4, MuxStep DEF BaseInv, cliVars
    <2>6. [Next]_vars
      BY <2>5 DEF Next
    <2>7. ResultInv' /\ Fits'
      BY <2>3, <2>6, NextResult, NextFits DEF BaseInv
    <2>8. CASE UNCHANGED vars
      BY <2>3, <2>7, <2>8
      DEF BlockInv, OwnReply, Current, vars, hostVars, devVars
    <2> QED
      BY <2>3, <2>5, <2>7, <2>8, HostBlock, DeviceBlock DEF BaseInv
  <1> QED
    BY <1>1, <1>2

\* What goes out.
LEMMA RequestOfStep ==
  ASSUME IInv, ProgramInv, pc = "write"
  PROVE  /\ Request.msg_type \in {"CMD", "DATA"}
         /\ Request.msg_type = "CMD" <=> call.fn = "transact"
         /\ Request.msg_type = "DATA" =>
              step = "lb_write" /\ Request.ch_id = port /\ Request.payload_len = payload_len
                /\ payload_len \in Texts
         /\ step \in Steps \ {"lb_write", "lb_read", "scan_read"} => Request.msg_type = "CMD"
  <1>1. /\ call = MadeBy(step) /\ step \in Steps /\ (step = "lb_write" => payload_len \in Texts)
        /\ call.fn \in {"transact", "uart_write"}
    BY DEF ProgramInv, ProgramOK, PhaseOK, CallMade, LoopbackSteps, IInv, TypeInv, CallOK
  <1>2. step \notin {"lb_read", "scan_read"}
    BY <1>1, StepCalls, OtherCalls
  <1>3. /\ Request.msg_type = call.msg_type /\ Request.ch_id = call.ch_id
        /\ Request.payload_len = call.len
    BY DEF Request
  <1>4. CASE step = "lb_write"
    <2>1. call = uart_write(port, payload_len)
      BY <1>1, <1>4, StepCalls
    <2>2. /\ call.msg_type = "DATA" /\ call.ch_id = port /\ call.len = payload_len
          /\ call.fn = "uart_write"
      BY <2>1 DEF uart_write
    <2> QED
      BY <1>1, <1>3, <1>4, <2>2
  <1>5. CASE step # "lb_write"
    <2>1. call.msg_type = "CMD" /\ call.fn = "transact"
      BY <1>1, <1>2, <1>5, CommandSteps DEF IsCommand
    <2> QED
      BY <1>2, <1>3, <1>5, <2>1
  <1> QED
    BY <1>4, <1>5

\* What happens to the requests.
LEMMA OutMoves ==
  ASSUME BaseInv, ProgramInv, [CliNext]_cliVars
  PROVE  \/ outPipe' = outPipe
         \/ /\ outPipe # <<>> /\ outPipe' = Tail(outPipe)
            /\ CliExecutes \/ CliRefuses \/ CliDiscards \/ PortLoops
         \/ /\ outPipe' = <<>>
            /\ Run \/ BadArguments \/ CliUnplug
         \/ /\ pc = "write"
            /\ WriteFrame \/ TransferNotWritten
            /\ \E whole \in BOOLEAN :
                 outPipe' = Append(outPipe, [frame |-> Request, whole |-> whole])
  <1>1. CASE Run \/ BadArguments
    BY <1>1 DEF Run, Start, BadArguments, Reopen
  <1>2. CASE DoCall
    BY <1>2, DoCallStep DEF BaseInv
  <1>3. CASE Transfer \/ TransferNotWritten
    BY <1>3 DEF Transfer, TransferNotWritten, WriteFrame, WriteFails, ReadFails, NoDevice,
                ReadPacket, Sent, devVars
  <1>4. CASE DebugRead
    BY <1>4 DEF DebugRead
  <1>5. CASE Decide \/ Clock \/ Kill \/ PortDrops \/ UNCHANGED cliVars
    <2>1. UNCHANGED vars
      BY <1>5, DecideMoves DEF Clock, Kill, PortDrops, cliVars
    <2> QED
      BY <2>1 DEF vars, devVars
  <1>6. CASE CliExecutes \/ CliRefuses \/ CliDiscards \/ PortLoops
    BY <1>6 DEF CliExecutes, CliRefuses, CliDiscards, PortLoops, DeviceExecutes, DeviceRefuses,
                DeviceDiscards
  <1>7. CASE PortSends \/ CliSpeaks \/ CliUnplug
    BY <1>7 DEF PortSends, CliSpeaks, CliUnplug, Speaks, Unplug
  <1> QED
    BY <1>1, <1>2, <1>3, <1>4, <1>5, <1>6, <1>7 DEF CliNext, Tool, CliDevice

LEMMA WaysPieces ==
  ASSUME NEW n \in 1 .. MAX_PAYLOAD, NEW w \in Ways(n)
  PROVE  w \in Seq(1 .. MAX_PAYLOAD) /\ \A i \in 1 .. Len(w) : w[i] \in 1 .. MAX_PAYLOAD
  <1>1. w = <<n>> \/ (n > 1 /\ w = <<n - 1, 1>>)
    <2>1. w \in {<<n>>} \/ (n > 1 /\ w \in {<<n - 1, 1>>})
      <3>1. CASE n > 1
        BY <3>1 DEF Ways
      <3>2. CASE ~ (n > 1)
        BY <3>2 DEF Ways
      <3> QED
        BY <3>1, <3>2
    <2> QED
      BY <2>1
  <1>2. MAX_PAYLOAD = 488
    BY DEF MAX_PAYLOAD, MAX_FRAME_LEN, HEADER_LEN
  <1>3. CASE w = <<n>>
    BY <1>2, <1>3
  <1>4. CASE n > 1 /\ w = <<n - 1, 1>>
    BY <1>2, <1>4
  <1> QED
    BY <1>1, <1>3, <1>4

LEMMA NextPort ==
  ASSUME BaseInv, ProgramInv, PortInv, [CliNext]_cliVars
  PROVE  PortInv'
  <1>1. outPipe \in Seq(Written)
    BY DEF BaseInv, IInv, TypeInv, TypeOK
  <1>2. OutFrames'
    <2>1. CASE outPipe' = outPipe \/ outPipe' = <<>>
      BY <2>1 DEF PortInv, OutFrames
    <2>2. CASE outPipe # <<>> /\ outPipe' = Tail(outPipe)
      BY <1>1, <2>2 DEF PortInv, OutFrames
    <2>3. CASE /\ pc = "write"
               /\ \E whole \in BOOLEAN :
                    outPipe' = Append(outPipe, [frame |-> Request, whole |-> whole])
      <3>1. PICK w : outPipe' = Append(outPipe, w) /\ w.frame = Request
        BY <2>3
      <3>2. /\ Request.msg_type \in {"CMD", "DATA"}
            /\ Request.msg_type = "DATA" => Request.ch_id = port /\ Request.payload_len \in Texts
        BY <2>3, RequestOfStep DEF BaseInv
      <3>3. \A i \in 1 .. Len(outPipe') : \/ i \in 1 .. Len(outPipe) /\ outPipe'[i] = outPipe[i]
                                          \/ outPipe'[i] = w
        BY <1>1, <3>1
      <3> QED
        BY <3>1, <3>2, <3>3 DEF PortInv, OutFrames
    <2> QED
      BY <2>1, <2>2, <2>3, OutMoves
  <1>3. looped' \in Seq(Pieces)
    <2>1. CASE PortLoops
      <3> DEFINE f == Head(outPipe).frame
      <3>1. /\ outPipe # <<>> /\ f.msg_type = "DATA" /\ f.payload_len # 0
            /\ \E pieces \in Ways(f.payload_len) : looped' = looped \o pieces
        BY <2>1 DEF PortLoops, DeviceDiscards
      <3>2. f.payload_len \in Texts /\ f.payload_len \in 0 .. MAX_PAYLOAD
        <4>1. Head(outPipe) \in Written /\ Head(outPipe) = outPipe[1] /\ 1 \in 1 .. Len(outPipe)
          BY <1>1, <3>1
        <4>2. f \in Frame
          BY <4>1 DEF Written
        <4> QED
          BY <3>1, <4>1, <4>2 DEF PortInv, OutFrames, Frame
      <3>3. PICK pieces \in Ways(f.payload_len) : looped' = looped \o pieces
        BY <3>1
      <3> HIDE DEF f
      <3>4. f.payload_len \in 1 .. MAX_PAYLOAD
        BY <3>1, <3>2 DEF MAX_PAYLOAD, MAX_FRAME_LEN, HEADER_LEN
      <3>5. pieces \in Seq(1 .. MAX_PAYLOAD)
        BY <3>3, <3>4, WaysPieces
      <3>6. \A i \in 1 .. Len(pieces) : pieces[i] \in Pieces
        <4>1. DOMAIN pieces = 1 .. Len(pieces)
          BY <3>5
        <4>2. \A i \in DOMAIN pieces : <<"DATA", port, pieces[i]>> \in Unsolicited
          BY <3>2, <3>3, <3>4, CliAssumption
        <4>3. \A i \in 1 .. Len(pieces) : pieces[i] \in 1 .. MAX_PAYLOAD
          BY <3>3, <3>4, WaysPieces
        <4> QED
          BY <4>1, <4>2, <4>3 DEF Pieces
      <3>7. pieces \in Seq(Pieces)
        BY <3>5, <3>6, SeqElements
      <3> QED
        BY <3>3, <3>7 DEF PortInv
    <2>2. CASE PortSends \/ PortDrops
      BY <2>2, SeqParts DEF PortSends, PortDrops, PortInv
    <2>3. CASE CliUnplug
      BY <2>3 DEF CliUnplug
    <2>4. CASE Tool
      BY <2>4, DecideMoves, TransferStays DEF Tool, DoCall, portVars, PortInv
    <2>5. CASE Run \/ BadArguments
      BY <2>5 DEF Run, Start, BadArguments, portVars, PortInv
    <2>6. CASE Clock \/ Kill \/ CliExecutes \/ CliRefuses \/ CliDiscards \/ CliSpeaks
               \/ UNCHANGED cliVars
      BY <2>6 DEF Clock, Kill, CliExecutes, CliRefuses, CliDiscards, CliSpeaks, cliVars,
                  portVars, PortInv
    <2> QED
      BY <2>1, <2>2, <2>3, <2>4, <2>5, <2>6 DEF CliNext, CliDevice
  <1> QED
    BY <1>2, <1>3 DEF PortInv

-----------------------------------------------------------------------------
(* What exit code 0 says.                                                  *)

\* Only a command that is carried out or refused is answered, and only one
\* that is carried out or an unplugging changes what the device does.
LEMMA OtherMoves ==
  ASSUME BaseInv, ProgramInv, PortInv, [CliNext]_cliVars, ~ CliExecutes, ~ CliRefuses
  PROVE  /\ \A f \in Incoming' : f \in Incoming \/ f.msg_type # "RSP"
         /\ \/ issued' = issued /\ epoch' = epoch /\ (plugged' => plugged)
            \/ DoCall /\ issued' = issued + 1 /\ epoch' = epoch /\ plugged' = plugged
            \/ (Run \/ BadArguments) /\ epoch' = epoch + 1 /\ issued' = 0
         /\ plugged' => scanning' = scanning /\ openPorts' = openPorts
  <1> USE DEF BaseInv
  <1>1. CASE Run \/ BadArguments
    <2>1. Reopen /\ scanning' = scanning
      BY <1>1 DEF Run, Start, BadArguments, portVars
    <2>2. Host
      BY <2>1 DEF Host
    <2> QED
      BY <1>1, <2>1, <2>2, NoReplyComes DEF Reopen
  <1>2. CASE DoCall
    <2>1. /\ Host /\ issued' = DrawnAfter(step) /\ UNCHANGED <<plugged, openPorts, epoch>>
          /\ scanning' = scanning /\ issued = DrawnBefore(step)
      BY <1>2, DoCallStep DEF DoCall, portVars, ProgramInv, PhaseOK
    <2>2. DrawnAfter(step) \in {DrawnBefore(step), DrawnBefore(step) + 1}
      BY DEF DrawnAfter
    <2> QED
      BY <1>2, <2>1, <2>2, NoReplyComes
  <1>3. CASE Decide \/ Clock \/ Kill \/ PortDrops \/ UNCHANGED cliVars
    <2>1. UNCHANGED vars /\ scanning' = scanning
      BY <1>3, DecideMoves DEF Clock, Kill, PortDrops, cliVars, portVars
    <2>2. UNCHANGED <<issued, epoch, plugged, openPorts>>
      BY <2>1 DEF vars, devVars
    <2> QED
      BY <2>1, <2>2, NoReplyComes
  <1>4. CASE Transfer \/ TransferNotWritten
    <2>1. Host
      BY <1>4 DEF Transfer, TransferNotWritten, Host
    <2>2. UNCHANGED <<issued, epoch, plugged, openPorts, scanning>>
      BY <1>4, TransferStays DEF portVars
    <2> QED
      BY <2>1, <2>2, NoReplyComes
  <1>5. CASE DebugRead
    <2>1. UNCHANGED <<issued, epoch, plugged, openPorts, scanning>>
      BY <1>5, TransferStays DEF portVars
    <2> QED
      BY <1>5, <2>1, DebugIncoming
  <1>6. CASE CliDiscards \/ PortLoops
    <2>1. DeviceDiscards /\ scanning' = scanning
      BY <1>6 DEF CliDiscards, PortLoops, portVars
    <2> QED
      BY <2>1, NoReplyComes DEF DeviceDiscards
  <1>7. CASE PortSends \/ CliSpeaks
    <2>1. DeviceSpeaks /\ scanning' = scanning
      <3>1. CASE CliSpeaks
        BY <3>1 DEF CliSpeaks, DeviceSpeaks, portVars
      <3>2. CASE PortSends
        <4>1. Head(looped) \in Pieces
          BY <3>2, SeqParts DEF PortSends, PortInv
        <4> QED
          BY <3>2, <4>1 DEF PortSends, Pieces, DeviceSpeaks
      <3> QED
        BY <1>7, <3>1, <3>2
    <2> QED
      BY <2>1, NoReplyComes DEF DeviceSpeaks, Speaks
  <1>8. CASE CliUnplug
    <2>1. Unplug
      BY <1>8 DEF CliUnplug
    <2> QED
      BY <2>1, NoReplyComes DEF Unplug
  <1> QED
    BY <1>1, <1>2, <1>3, <1>4, <1>5, <1>6, <1>7, <1>8 DEF CliNext, Tool, CliDevice

\* The answer to the command that the device carries out or refuses.
LEMMA CliAnswer ==
  ASSUME BaseInv, CliExecutes \/ CliRefuses
  PROVE  LET req == Head(outPipe).frame
         IN /\ outPipe # <<>> /\ outPipe' = Tail(outPipe) /\ req \in OwnRequest
            /\ Head(outPipe) = outPipe[1] /\ 1 \in 1 .. Len(outPipe)
            /\ Head(outPipe).whole /\ req.msg_type = "CMD"
            /\ UNCHANGED <<hostVars, plugged, issued, epoch, line>>
            /\ \E status \in {"OK", "ERR"}, len \in RspLens \cup {0} :
                 LET a == Answer(req, status, len)
                 IN /\ a \in Frame /\ inPipe' = inPipe \o Packets(a)
                    /\ \A f \in Incoming' : f \in Incoming \/ f = a
                    /\ status = "OK" <=> CliExecutes
  <1> DEFINE req == Head(outPipe).frame
  <1> USE DEF BaseInv
  <1>1. /\ outPipe # <<>> /\ outPipe' = Tail(outPipe) /\ Head(outPipe).whole
        /\ req.msg_type = "CMD"
        /\ UNCHANGED <<hostVars, plugged, issued, epoch, line>>
        /\ CliExecutes => \E len \in RspLens : inPipe' = inPipe \o Packets(Answer(req, "OK", len))
        /\ ~ CliExecutes => inPipe' = inPipe \o Packets(Answer(req, "ERR", 0))
    BY DEF CliExecutes, CliRefuses, DeviceExecutes, DeviceRefuses
  <1>2. /\ Head(outPipe) = outPipe[1] /\ 1 \in 1 .. Len(outPipe)
    BY <1>1 DEF IInv, TypeInv, TypeOK
  <1>3. req \in OwnRequest
    BY <1>2, WrittenFrames
  <1>4. RspLens \cup {0} \subseteq 0 .. MAX_PAYLOAD
    BY MuxAssumption DEF MAX_PAYLOAD, MAX_FRAME_LEN, HEADER_LEN
  <1>5. req \in Frame
    BY <1>3 DEF OwnRequest
  <1>6. \E status \in {"OK", "ERR"}, len \in RspLens \cup {0} :
          inPipe' = inPipe \o Packets(Answer(req, status, len)) /\ (status = "OK" <=> CliExecutes)
    BY <1>1
  <1> HIDE DEF req
  <1>7. PICK status \in {"OK", "ERR"}, len \in RspLens \cup {0} :
          inPipe' = inPipe \o Packets(Answer(req, status, len)) /\ (status = "OK" <=> CliExecutes)
    BY <1>6
  <1>8. Answer(req, status, len) \in Frame
    BY <1>4, <1>5, AnswerType
  <1>9. \A f \in Incoming' : f \in Incoming \/ f = Answer(req, status, len)
    <2>1. UNCHANGED <<rx, ret>>
      BY <1>1 DEF hostVars
    <2> QED
      BY <1>7, <1>8, <2>1, FrameComes
  <1> QED
    BY <1>1, <1>2, <1>3, <1>7, <1>8, <1>9 DEF req

LEMMA AnswerOf ==
  ASSUME NEW req \in Frame, NEW status, NEW len
  PROVE  LET a == Answer(req, status, len)
         IN /\ a.msg_type = "RSP" /\ a.status = status /\ a.payload_len = len
            /\ a.ch_type = req.ch_type /\ a.ch_id = req.ch_id /\ a.opcode = req.opcode
            /\ a.id = req.id /\ a.epoch = req.epoch
  BY DEF Answer, Frame

LEMMA NextScan ==
  ASSUME BaseInv, ProgramInv, PortInv, ScanSettled, [CliNext]_cliVars
  PROVE  ScanSettled'
  <1>1. CASE ~ CliExecutes /\ ~ CliRefuses
    <2> SUFFICES ASSUME NEW f \in Incoming', OwnReply(f)', plugged', f.status = "OK",
                        f.ch_type = "BLE_MGMT", f.opcode = 4
                 PROVE  ~ scanning'
      BY DEF ScanSettled
    <2>1. f \in Incoming /\ f.msg_type = "RSP" /\ f.epoch = epoch' /\ f.id = issued'
      BY <1>1, OtherMoves DEF OwnReply, Current
    <2>2. f.epoch <= epoch /\ (f.epoch = epoch => f.id <= issued)
      BY <2>1, IncomingFrames DEF BaseInv
    <2>3. issued' = issued /\ epoch' = epoch /\ plugged
      <3>1. issued \in Int /\ epoch \in Int
        BY MuxAssumption DEF BaseInv, IInv, TypeInv, TypeOK
      <3>2. epoch' # epoch + 1
        BY <2>1, <2>2, <3>1
      <3>3. ~ (issued' = issued + 1 /\ epoch' = epoch)
        BY <2>1, <2>2, <3>1
      <3> QED
        BY <1>1, <3>2, <3>3, OtherMoves, Zenon
    <2>4. OwnReply(f)
      BY <2>1, <2>3 DEF OwnReply, Current
    <2> QED
      BY <1>1, <2>1, <2>3, <2>4, OtherMoves DEF ScanSettled
  <1>2. CASE CliExecutes \/ CliRefuses
    <2> SUFFICES ASSUME NEW f \in Incoming', OwnReply(f)', plugged', f.status = "OK",
                        f.ch_type = "BLE_MGMT", f.opcode = 4
                 PROVE  ~ scanning'
      BY DEF ScanSettled
    <2> DEFINE req == Head(outPipe).frame
    <2>1. /\ outPipe # <<>> /\ UNCHANGED <<issued, epoch>>
          /\ \E status \in {"OK", "ERR"}, len \in RspLens \cup {0} :
               /\ f \in Incoming \/ f = Answer(req, status, len)
               /\ status = "OK" <=> CliExecutes
      BY <1>2, CliAnswer
    <2>2. OwnReply(f)
      BY <2>1 DEF OwnReply, Current
    <2>3. f \notin Incoming
      BY <2>1, <2>2 DEF BaseInv, PipesInv, Settled
    <2>4. req \in Frame
      BY <1>2, CliAnswer DEF OwnRequest
    <2> HIDE DEF req
    <2>5. CliExecutes /\ req.ch_type = "BLE_MGMT" /\ req.opcode = 4
      BY <2>1, <2>3, <2>4, AnswerOf
    <2> QED
      BY <2>5 DEF CliExecutes, req
  <1> QED
    BY <1>1, <1>2

ToolInv == BaseInv /\ ProgramInv /\ PortInv /\ CheckedInv /\ ScanSettled

LEMMA InitTool == CliInit => ToolInv
  <1> SUFFICES ASSUME CliInit PROVE ToolInv
    OBVIOUS
  <1>1. Init
    BY DEF CliInit
  <1>2. IInv /\ OrderInv /\ ResultInv /\ PacketInv
    BY <1>1, InitType, InitAnswer, InitOrder, InitResult
    DEF IInv, Init, PacketInv, Stream, Reading, Locals, EmptyRx, NoRet
  <1>3. BlockInv
    BY <1>1 DEF Init, BlockInv
  <1>4. PortInv
    BY <1>1 DEF CliInit, Init, PortInv, OutFrames
  <1>5. ScanSettled
    BY DEF CliInit, ScanSettled
  <1> QED
    BY <1>2, <1>3, <1>4, <1>5, InitProgram DEF ToolInv, BaseInv, CheckedInv, OrderInv

LEMMA NextTool == ToolInv /\ [CliNext]_cliVars => ToolInv'
  BY NextBase, NextProgram, NextPort, NextChecked, NextScan DEF ToolInv, BaseInv

\* The process is where its calls have brought it, and the pipes and results of
\* its calls are those of MuxTransact, whatever earlier runs left behind.
THEOREM ToolInvariant == CliSpec => []ToolInv
  <1> QED
    BY InitTool, NextTool, PTL DEF CliSpec

\* No run draws more numbers than there are.
LEMMA Drawn == \A s : DrawnAfter(s) \in 0 .. 4 /\ DrawnBefore(s) \in 0 .. 3
  BY DEF DrawnAfter, DrawnBefore

\* So a command that succeeds on an answer of this run has its own.
LEMMA OwnHere ==
  ASSUME ToolInv, cmd # "debug_xfer", CallMade, call.fn = "transact", ret.result = "OK",
         ret.frame.epoch = epoch
  PROVE  /\ OwnReply(ret.frame) /\ ret.frame \in Incoming
         /\ ret.frame.status = "OK" /\ ret.frame.ch_type = call.ch_type
         /\ ret.frame.ch_id = call.ch_id /\ ret.frame.opcode = call.opcode
  <1>1. IInv /\ ResultInv /\ Fits
    BY DEF ToolInv, BaseInv, CheckedInv
  <1>2. issued \in 0 .. 4 /\ SeqMax \in Nat /\ SeqMax >= 4
    BY Drawn, CliAssumption, MuxAssumption DEF CallMade
  <1>3. ret.frame.id \in Nat /\ ret.frame.id >= 1
    BY <1>1, Accepted
  <1>4. SucceededInWindow
    BY <1>2, <1>3 DEF SucceededInWindow
  <1>5. ret.frame.id = issued
    BY <1>1, <1>4, OwnInWindow
  <1> QED
    BY <1>1, <1>5 DEF ResultInv, Fits, OwnReply, Current, Incoming

LEMMA EndedOwn ==
  ASSUME ToolInv, EndedWell, cmd # "debug_xfer"
  PROVE  /\ OwnReply(ret.frame) /\ ret.frame \in Incoming
         /\ ret.frame.status = "OK" /\ ret.frame.ch_type = call.ch_type
         /\ ret.frame.ch_id = call.ch_id /\ ret.frame.opcode = call.opcode
         /\ call = MadeBy(step) /\ call.fn = "transact"
         /\ step \in LastSteps \cup {"lb_close"}
  <1>1. /\ CallMade /\ ret.result = "OK" /\ step \in LastSteps \cup {"lb_close"}
        /\ step \in Steps
    BY DEF EndedWell, ToolInv, ProgramInv, ProgramOK, EndOK
  <1>2. IsCommand(MadeBy(step)) /\ call = MadeBy(step)
    <2>1. step \notin {"lb_write", "lb_read", "scan_read"}
      BY <1>1 DEF LastSteps
    <2> QED
      BY <1>1, <2>1, CommandSteps DEF CallMade
  <1> QED
    BY <1>1, <1>2, OwnHere DEF EndedWell, IsCommand

\* Exit code 0 on an answer to a request of this run, for a device that is
\* still there: the port is open or closed and the scan is off as the command
\* promises, and nothing written is left that could undo it.
THEOREM ExitZero == CliSpec => []ExitZeroIsDone
  <1>1. ToolInv => ExitZeroIsDone
    <2> SUFFICES ASSUME ToolInv, EndedWell, plugged, cmd # "debug_xfer"
                 PROVE  /\ outPipe = <<>>
                        /\ cmd = "uart_open" => port \in openPorts
                        /\ cmd \in {"uart_close", "uart_loopback"} => port \notin openPorts
                        /\ cmd = "ble_scan" => ~ scanning
      BY DEF ExitZeroIsDone
    <2>1. /\ outPipe = <<>> /\ Effect(ret.frame) /\ call = MadeBy(step)
          /\ call.ch_type = "BLE_MGMT" /\ call.opcode = 4 => ~ scanning
          /\ ret.frame.ch_type = call.ch_type
          /\ ret.frame.ch_id = call.ch_id /\ ret.frame.opcode = call.opcode
      BY EndedOwn DEF ToolInv, BaseInv, PipesInv, Settled, ScanSettled
    <2>2. /\ cmd = "uart_open" => step = "open"
          /\ cmd = "uart_close" => step = "close"
          /\ cmd = "uart_loopback" => step = "lb_close"
          /\ cmd = "ble_scan" => step = "scan_stop"
      BY EndedOwn DEF ToolInv, ProgramInv, ProgramOK, LoopbackSteps, ScanSteps, LastSteps
    <2>3. /\ uart_open(port).ch_type = "UART_CTRL" /\ uart_open(port).ch_id = port
          /\ uart_open(port).opcode = 3
          /\ uart_close(port).ch_type = "UART_CTRL" /\ uart_close(port).ch_id = port
          /\ uart_close(port).opcode = 4
          /\ ble_scan_stop.ch_type = "BLE_MGMT" /\ ble_scan_stop.opcode = 4
      BY DEF uart_open, uart_close, ble_scan_stop, Order
    <2> QED
      BY <2>1, <2>2, <2>3, StepCalls DEF Effect
  <1> QED
    BY <1>1, ToolInvariant, PTL

\* ble-scan never reports success when something was waiting for it as it
\* wrote the stop.
THEOREM BusyScans == CliSpec => []BusyScanFails
  <1>1. ToolInv => BusyScanFails
    BY EndedOwn DEF BusyScanFails, ToolInv, CheckedInv, BlockInv
  <1> QED
    BY <1>1, ToolInvariant, PTL

-----------------------------------------------------------------------------
(* What is undone at the end of a run.                                     *)

\* The order that ends a run is written once, and looked for from then on.
LEMMA AskedBefore ==
  ASSUME ToolInv, Asked', [CliNext]_cliVars
  PROVE  \/ WriteFrame /\ UNCHANGED <<progVars, portVars>>
         \/ Asked /\ UNCHANGED <<call, issued, epoch, step, plugged>>
  <1> USE DEF ToolInv, BaseInv
  <1>1. /\ step' \in LastOrders /\ ~ faulty' /\ plugged'
        /\ \/ phase' = "done" /\ pc' # "write"
           \/ phase' = "ended" /\ exit' \in {"ok", "failed"}
    BY DEF Asked
  <1>2. CASE Run \/ BadArguments
    <2>1. phase' = "ended" => exit' = "usage"
      BY <1>2 DEF Run, Start, BadArguments, ProgramInv, ProgramOK
    <2>2. phase' # "done"
      BY <1>2 DEF Run, Start, BadArguments
    <2> QED
      BY <1>1, <2>1, <2>2
  <1>3. CASE DoCall
    <2>1. phase' = "done" /\ step' = step
      BY <1>3 DEF DoCall
    <2> QED
      BY <1>1, <1>3, <2>1, DoCallStep
  <1>4. CASE Decide
    <2>1. pc = "idle" /\ (GoesOn \/ Finishes)
      BY <1>4, DecideMoves
    <2>2. UNCHANGED vars /\ UNCHANGED faulty
      BY <1>4, DecideMoves
    <2>3. UNCHANGED <<call, issued, epoch, plugged>>
      BY <2>2 DEF vars, hostVars, devVars
    <2>4. phase = "done" /\ step' = step
      BY <1>1, <2>1 DEF GoesOn, Finishes
    <2>5. pc = "idle"
      BY <1>4, DecideMoves
    <2> QED
      BY <1>1, <2>2, <2>3, <2>4, <2>5 DEF Asked
  <1>5. CASE Transfer
    <2>1. CASE WriteFrame
      BY <1>5, <2>1 DEF Transfer
    <2>2. CASE ReadFails \/ NoDevice \/ ReadPacket
      <3>1. /\ UNCHANGED <<call, issued, epoch, plugged, step, phase, exit, faulty>>
            /\ pc = "read" \/ ~ plugged
        BY <1>5, <2>2 DEF Transfer, ReadFails, NoDevice, ReadPacket, devVars, progVars, histVars
      <3> QED
        BY <1>1, <3>1 DEF Asked
    <2> QED
      BY <1>5, <2>1, <2>2 DEF Transfer
  <1>6. CASE TransferNotWritten \/ CliRefuses
    BY <1>1, <1>6 DEF TransferNotWritten, CliRefuses
  <1>7. CASE DebugRead
    BY <1>1, <1>7, TransferStays DEF DebugRead, LastOrders
  <1>8. CASE Kill
    BY <1>1, <1>8 DEF Kill
  <1>9. CASE Clock \/ UNCHANGED cliVars
    <2>1. UNCHANGED vars /\ UNCHANGED <<step, phase, exit, faulty>>
      BY <1>9 DEF Clock, cliVars, progVars, histVars
    <2>2. UNCHANGED <<pc, call, issued, epoch, plugged>>
      BY <2>1 DEF vars, hostVars, devVars
    <2> QED
      BY <1>1, <2>1, <2>2 DEF Asked
  <1>10. CASE CliDevice
    <2>1. UNCHANGED <<progVars, hostVars, issued, epoch>>
      BY <1>10, CliDeviceStays
    <2>2. UNCHANGED <<call, pc, step, phase, exit>>
      BY <2>1 DEF progVars, hostVars
    <2>3. plugged' = plugged
      <3>1. CASE CliUnplug
        BY <1>1, <3>1 DEF CliUnplug, Unplug
      <3>2. CASE PortDrops
        <4>1. UNCHANGED vars
          BY <3>2 DEF PortDrops
        <4> QED
          BY <4>1 DEF vars, devVars
      <3> QED
        BY <1>10, <3>1, <3>2
        DEF CliDevice, CliExecutes, CliRefuses, CliDiscards, PortLoops, PortSends, CliSpeaks,
            DeviceExecutes, DeviceRefuses, DeviceDiscards, Speaks
    <2>4. faulty => faulty'
      BY <1>10, CliDeviceStays
    <2> QED
      BY <1>1, <2>1, <2>2, <2>3, <2>4 DEF Asked
  <1> QED
    BY <1>2, <1>3, <1>4, <1>5, <1>6, <1>7, <1>8, <1>9, <1>10 DEF CliNext, Tool

\* While it is looked for, the call in hand is that order.
LEMMA AskedCall ==
  ASSUME ToolInv, Asked
  PROVE  /\ call = MadeBy(step) /\ call.opcode = 4
         /\ step = "scan_stop" => call.ch_type = "BLE_MGMT"
         /\ step # "scan_stop" => call.ch_type = "UART_CTRL" /\ call.ch_id = port
  <1>1. call = MadeBy(step) /\ step \in {"lb_close", "lb_abort", "scan_stop"}
    BY DEF Asked, ToolInv, ProgramInv, PhaseOK, EndOK, CallMade, LastOrders
  <1>2. /\ uart_close(port).ch_type = "UART_CTRL" /\ uart_close(port).ch_id = port
        /\ uart_close(port).opcode = 4
        /\ ble_scan_stop.ch_type = "BLE_MGMT" /\ ble_scan_stop.opcode = 4
    BY DEF uart_close, ble_scan_stop, Order
  <1> QED
    BY <1>1, <1>2, StepCalls

LEMMA NextLast ==
  ASSUME ToolInv, LastOrder, [CliNext]_cliVars
  PROVE  LastOrder'
  <1> USE DEF ToolInv, BaseInv
  <1> SUFFICES ASSUME Asked'
               PROVE  \/ \E i \in 1 .. Len(outPipe') : Ordered(outPipe[i])'
                      \/ outPipe' = <<>> /\ CarriedOut'
    BY DEF LastOrder
  <1>1. outPipe \in Seq(Written)
    BY DEF IInv, TypeInv, TypeOK
  <1>2. CASE WriteFrame /\ UNCHANGED <<progVars, portVars>>
    <2> DEFINE w == [frame |-> Request, whole |-> TRUE]
    <2>1. /\ pc = "write" /\ outPipe' = Append(outPipe, w) /\ UNCHANGED <<call, issued, epoch>>
      BY <1>2 DEF WriteFrame, Sent
    <2>2. step \in LastOrders
      BY <1>2 DEF Asked, progVars
    <2>3. Request.msg_type = "CMD"
      BY <2>1, <2>2, RequestOfStep DEF LastOrders, ProgramInv, ProgramOK
    <2>4. /\ Request.id = issued /\ Request.epoch = epoch /\ Request.ch_type = call.ch_type
          /\ Request.ch_id = call.ch_id /\ Request.opcode = call.opcode
      BY DEF Request
    <2>5. /\ w.whole /\ w.frame = Request
      OBVIOUS
    <2> HIDE DEF w
    <2>6. /\ Len(outPipe) + 1 \in 1 .. Len(outPipe') /\ outPipe'[Len(outPipe) + 1] = w
      BY <1>1, <2>1
    <2> QED
      BY <2>1, <2>3, <2>4, <2>5, <2>6 DEF Ordered, Current
  <1>3. CASE Asked /\ UNCHANGED <<call, issued, epoch, step, plugged>>
    <2>1. \A w : Ordered(w)' <=> Ordered(w)
      BY <1>3 DEF Ordered, Current
    <2>2. \/ \E i \in 1 .. Len(outPipe) : Ordered(outPipe[i])
          \/ outPipe = <<>> /\ CarriedOut
      BY <1>3 DEF LastOrder
    <2>3. CASE /\ outPipe # <<>> /\ outPipe' = Tail(outPipe)
               /\ CliExecutes \/ CliRefuses \/ CliDiscards \/ PortLoops
      <3>1. PICK i \in 1 .. Len(outPipe) : Ordered(outPipe[i])
        BY <2>2, <2>3
      <3>2. CASE i = 1
        <4> DEFINE req == Head(outPipe).frame
        <4>1. Head(outPipe) = outPipe[1]
          BY <1>1, <2>3
        <4>2. /\ Current(req) /\ req.msg_type = "CMD" /\ req.opcode = 4
              /\ req.ch_type = call.ch_type /\ req.ch_id = call.ch_id
          BY <1>3, <3>1, <3>2, <4>1, AskedCall DEF Ordered
        <4>3. outPipe' = <<>>
          BY <2>3, <4>2, CurrentIsLast
        <4>4. CliExecutes
          <5>1. ~ faulty'
            BY DEF Asked
          <5>2. ~ CliRefuses /\ ~ CliDiscards /\ ~ PortLoops
            BY <4>2, <5>1 DEF CliRefuses, CliDiscards, PortLoops
          <5> QED
            BY <2>3, <5>2
        <4>5. CarriedOut'
          BY <1>3, <4>2, <4>4, AskedCall
          DEF CarriedOut, CliExecutes, DeviceExecutes
        <4> QED
          BY <4>3, <4>5
      <3>3. CASE i # 1
        <4>1. i - 1 \in 1 .. Len(outPipe') /\ outPipe'[i - 1] = outPipe[i]
          BY <1>1, <2>3, <3>3
        <4> QED
          BY <2>1, <3>1, <4>1
      <3> QED
        BY <3>2, <3>3
    <2>4. CASE outPipe' = outPipe
      <3>0. outPipe # <<>> => Tail(outPipe) # outPipe
        <4>1. outPipe # <<>> => Len(Tail(outPipe)) = Len(outPipe) - 1 /\ Len(outPipe) \in Nat
          BY <1>1
        <4> QED
          BY <4>1
      <3>1. ~ CliExecutes
        BY <2>4, <3>0 DEF CliExecutes, DeviceExecutes
      <3>2. CarriedOut => CarriedOut'
        <4>1. plugged'
          BY DEF Asked
        <4>2. ~ CliRefuses
          BY <2>4, <3>0 DEF CliRefuses, DeviceRefuses
        <4> QED
          BY <1>3, <3>1, <4>1, <4>2, OtherMoves DEF CarriedOut
      <3> QED
        BY <2>1, <2>2, <2>4, <3>2
    <2>5. ~ Run /\ ~ BadArguments /\ ~ CliUnplug
      <3>1. plugged' /\ epoch' = epoch /\ epoch \in Nat
        BY <1>3 DEF Asked, IInv, TypeInv, TypeOK
      <3>2. Run \/ BadArguments => epoch' = epoch + 1
        BY DEF Run, Start, BadArguments, Reopen
      <3> QED
        BY <3>1, <3>2 DEF CliUnplug, Unplug
    <2>6. ~ WriteFrame /\ ~ TransferNotWritten
      <3>1. pc # "write"
        BY <1>3 DEF Asked, ProgramInv, PhaseOK
      <3> QED
        BY <3>1 DEF WriteFrame, TransferNotWritten, WriteFails
    <2> QED
      BY <2>3, <2>4, <2>5, <2>6, OutMoves
  <1> QED
    BY <1>2, <1>3, AskedBefore

LEMMA LastOrderInvariant == CliSpec => [](ToolInv /\ LastOrder)
  <1>1. CliInit => ToolInv /\ LastOrder
    BY InitTool DEF CliInit, LastOrder, Asked
  <1> QED
    BY <1>1, NextTool, NextLast, PTL DEF CliSpec

\* uart-loopback leaves the port open only when its open failed, the process
\* was killed, or the close itself was refused or lost.
THEOREM LoopbackClosesPort == CliSpec => []LoopbackCloses
  <1>1. ToolInv /\ LastOrder => LoopbackCloses
    <2> SUFFICES ASSUME ToolInv, LastOrder, AtRest, cmd = "uart_loopback",
                        exit \in {"ok", "failed"}, port \in openPorts, ~ faulty
                 PROVE  step = "lb_open"
      BY DEF LoopbackCloses
    <2>1. step \in LoopbackSteps \ {"lb_write", "lb_read"}
      BY DEF AtRest, ToolInv, ProgramInv, ProgramOK, EndOK, LastSteps, LoopbackSteps
    <2>2. outPipe = <<>> /\ (step \in LastOrders => Asked)
      BY DEF AtRest, Asked
    <2>3. step \in LastOrders => CarriedOut
      BY <2>2 DEF LastOrder
    <2> QED
      BY <2>1, <2>3 DEF LastOrders, LoopbackSteps, CarriedOut
  <1> QED
    BY <1>1, LastOrderInvariant, PTL

\* ble-scan leaves the device scanning only when a command before its loop
\* failed, the process was killed, or the stop was refused or lost.
THEOREM ScanIsStopped == CliSpec => []ScanStops
  <1>1. ToolInv /\ LastOrder => ScanStops
    <2> SUFFICES ASSUME ToolInv, LastOrder, AtRest, cmd = "ble_scan",
                        exit \in {"ok", "failed"}, scanning, ~ faulty
                 PROVE  step \in {"scan_cap", "scan_param", "scan_start"}
      BY DEF ScanStops
    <2>1. step \in ScanSteps \ {"scan_read"}
      BY DEF AtRest, ToolInv, ProgramInv, ProgramOK, EndOK, LastSteps, ScanSteps
    <2>2. outPipe = <<>> /\ (step \in LastOrders => Asked)
      BY DEF AtRest, Asked
    <2>3. step \in LastOrders => CarriedOut
      BY <2>2 DEF LastOrder
    <2> QED
      BY <2>1, <2>3 DEF LastOrders, ScanSteps, CarriedOut
  <1> QED
    BY <1>1, LastOrderInvariant, PTL
=============================================================================
