---------------------------- MODULE MuxTransact ----------------------------
(***************************************************************************)
(* The host library talking to one device.  A client makes one blocking    *)
(* library call at a time; a call writes at most one frame to EP3 OUT and  *)
(* reads at most one frame from EP2 IN, packet by packet.  Between any two *)
(* transfers the device takes requests, queues answers and sends frames    *)
(* nobody asked for.  Nothing in the library is retried and nothing is     *)
(* kept of a frame that was read but not wanted.                           *)
(*                                                                         *)
(* The device (firmware and USB pipes) is not part of the repository: it   *)
(* is modelled from what uart.c, ble.c and the command line tool expect.   *)
(***************************************************************************)
EXTENDS MuxApi, Integers, Sequences

CONSTANTS
  SeqMax,      \* the largest sequence number: 65535 for the uint16_t of the code
  Calls,       \* the library calls the client makes
  timeout_ms,  \* open option: 0 lets a transfer block for ever
  Unsolicited, \* <<kind, channel, length>> of the EVT and DATA frames the device starts
  RspLens,     \* payload lengths the device puts in a successful answer
  zero_packets, \* the device ends a frame of whole packets with an empty one
  MaxIssued,   \* bound: sequence numbers drawn in one session
  MaxEpoch,    \* bound: times the device is reopened
  OutCap,      \* bound: frames the device holds that it has not looked at
  InCap        \* bound: packets the device holds that the host has not read

ASSUME MuxAssumption ==
  /\ SeqMax \in Nat \ {0}
  /\ Calls \subseteq Call
  /\ timeout_ms \in Nat
  /\ Unsolicited \subseteq {"EVT", "DATA"} \X Nat \X (0 .. MAX_PAYLOAD)
  /\ RspLens \subseteq 0 .. MAX_PAYLOAD
  /\ zero_packets \in BOOLEAN
  /\ {MaxIssued, MaxEpoch, OutCap, InCap} \subseteq Nat

VARIABLES
  \* the host: struct ch32mux_device and the locals of the call in progress
  next_seq,   \* device->next_seq
  pc,         \* "idle", or the transfer the call is about to make
  call,       \* the call in progress, or the last one that got past its arguments
  seq,        \* req.seq of the last request built
  rx,         \* read_frame's buffer: bytes received and the packet they start with
  ret,        \* what the last call returned
  \* the device and the pipes
  outPipe,    \* requests written and not yet looked at by the device
  inPipe,     \* packets the device has to send, in order
  plugged,    \* the device is on the bus
  openPorts,  \* UART ports open in the device
  \* history, read by the properties only
  issued,     \* sequence numbers drawn since the device was opened
  epoch,      \* times the device was reopened
  line        \* what was in the pipes when the last request was written

hostVars == <<next_seq, pc, call, seq, rx, ret>>
devVars  == <<outPipe, inPipe, plugged, openPorts>>
vars     == <<hostVars, devVars, issued, epoch, line>>

-----------------------------------------------------------------------------
(* Frames and packets.                                                     *)

\* ch32mux_header_t, less the fields that only the codec looks at.  id and
\* epoch are history: which request of which session a frame belongs to.
Frame ==
  [msg_type : MsgTypes, seq : 0 .. SeqMax, ref_seq : 0 .. SeqMax, ch_type : ChTypes,
   ch_id : Nat, opcode : Nat, status : {"OK", "ERR"}, payload_len : 0 .. MAX_PAYLOAD,
   id : Nat, epoch : Nat]

TotalLen(f) == HEADER_LEN + f.payload_len

Packet == [frame : Frame, index : Nat, len : 0 .. EP_PACKET_SIZE]

\* A frame travels in packets of 64 bytes and a shorter last one; a device
\* that ends its transfers by the book sends an empty one after 64 full bytes.
PacketCount(f) ==
  IF zero_packets THEN TotalLen(f) \div EP_PACKET_SIZE + 1
  ELSE (TotalLen(f) + EP_PACKET_SIZE - 1) \div EP_PACKET_SIZE

Packets(f) ==
  [i \in 1 .. PacketCount(f) |->
     [frame |-> f, index |-> i,
      len |-> IF TotalLen(f) >= i * EP_PACKET_SIZE THEN EP_PACKET_SIZE
              ELSE TotalLen(f) - (i - 1) * EP_PACKET_SIZE]]

\* The frame transact() and uart_write() build: everything not set is zero.
Request ==
  [msg_type |-> call.msg_type, seq |-> seq, ref_seq |-> 0, ch_type |-> call.ch_type,
   ch_id |-> call.ch_id, opcode |-> call.opcode, status |-> "OK",
   payload_len |-> call.len, id |-> issued, epoch |-> epoch]

Answer(req, status, len) ==
  [req EXCEPT !.msg_type = "RSP", !.seq = 0, !.ref_seq = req.seq,
              !.status = status, !.payload_len = len]

Spontaneous(kind, channel, len) ==
  [msg_type |-> kind, seq |-> 0, ref_seq |-> 0,
   ch_type |-> IF kind = "DATA" THEN "UART_DATA" ELSE "BLE_MGMT",
   ch_id |-> channel, opcode |-> 0, status |-> "OK", payload_len |-> len,
   id |-> 0, epoch |-> epoch]

\* What the OUT pipe holds of a request, what read_frame() has received, and
\* what a call hands back.
Written  == [frame : Frame, whole : BOOLEAN]
Received == [offset : Nat, lead : [frame : Frame, index : Nat, len : Nat],
             intact : BOOLEAN]
Outcome  == [result : Results \cup {"NONE"}, frame : Frame, intact : BOOLEAN]

NoFrame ==
  [msg_type |-> "EVT", seq |-> 0, ref_seq |-> 0, ch_type |-> "SYS", ch_id |-> 0,
   opcode |-> 0, status |-> "OK", payload_len |-> 0, id |-> 0, epoch |-> 0]
EmptyRx == [offset |-> 0, lead |-> [frame |-> NoFrame, index |-> 0, len |-> 0],
            intact |-> TRUE]
NoRet   == [result |-> "NONE", frame |-> NoFrame, intact |-> TRUE]
NoCall  == [uart_write(0, 0) EXCEPT !.fn = "none"]

-----------------------------------------------------------------------------
(* Host: sequence numbers.                                                 *)

NextSeqStuck(s) == s                                               \* mutant
NextSeqZero(s) == (s + 1) % (SeqMax + 1)                           \* mutant
\* next_seq++ in 16 bits, never left at 0.
NextSeq(s) == IF s = SeqMax THEN 1 ELSE s + 1

-----------------------------------------------------------------------------
(* Host: what a call makes of the frame it has read.                       *)

MatchesAnyNumber(c, f) ==                                          \* mutant
  /\ f.msg_type = "RSP"
  /\ f.ch_type = c.ch_type /\ f.ch_id = c.ch_id /\ f.opcode = c.opcode

MatchesNextNumber(c, f) ==                                         \* mutant
  f.msg_type = "RSP" /\ f.ref_seq = next_seq

\* transact(): the frame is a response, and to this very request.
Matches(c, f) ==
  /\ f.msg_type = "RSP"
  /\ f.ref_seq = seq
  /\ f.ch_type = c.ch_type
  /\ f.ch_id = c.ch_id
  /\ f.opcode = c.opcode

\* transact(): copying the payload of a matching response out, and the
\* wrapper's check of its length.
TakeResponse(c, f) ==
  IF f.status # "OK" THEN "ERR_DEVICE_STATUS"
  ELSE IF f.payload_len > c.capacity THEN "ERR_OVERFLOW"
  ELSE IF f.payload_len # 0 /\ ~c.buf THEN "ERR_ARG"
  ELSE IF c.exact /\ f.payload_len # c.capacity THEN "ERR_PROTO"
  ELSE "OK"

\* ch32mux_uart_read(): only data of its own port, if it fits.
TakeData(c, f) ==
  IF ~ (f.ch_type = "UART_DATA" /\ f.ch_id = c.ch_id /\ f.msg_type = "DATA")
    THEN "ERR_PROTO"
  ELSE IF f.payload_len > c.capacity THEN "ERR_OVERFLOW"
  ELSE "OK"

\* ch32mux_ble_read_event(): any event, whatever its channel.
TakeEvent(c, f) ==
  IF f.msg_type # "EVT" THEN "ERR_PROTO"
  ELSE IF f.payload_len > c.capacity THEN "ERR_OVERFLOW"
  ELSE IF f.payload_len # 0 /\ ~c.buf THEN "ERR_ARG"
  ELSE "OK"

Verdict(c, f) ==
  CASE c.fn = "transact" -> IF Matches(c, f) THEN TakeResponse(c, f) ELSE "ERR_PROTO"
    [] c.fn = "uart_read" -> TakeData(c, f)
    [] c.fn = "ble_read_event" -> TakeEvent(c, f)

-----------------------------------------------------------------------------
(* Host: starting a call.                                                  *)

\* The call ends with this result and frame.
Return(result, frame, intact) ==
  /\ pc' = "idle"
  /\ rx' = EmptyRx
  /\ ret' = [result |-> result, frame |-> frame, intact |-> intact]

\* A NULL device, response record or data pointer: refused before anything
\* is sent and before a sequence number is drawn.
RejectArguments ==
  /\ pc = "idle"
  /\ call' = NoCall
  /\ Return("ERR_ARG", NoFrame, TRUE)
  /\ UNCHANGED <<next_seq, seq, devVars, issued, epoch, line>>

\* ch32mux_build_frame() refuses a NULL payload (uart_write() has refused it
\* already, the other wrappers pass an array of theirs) and one that is too long.
BuildErrors(c) ==
  {e \in {"ERR_ARG", "ERR_OVERFLOW"} :
     /\ e = "ERR_ARG" => CallersPayload(c) /\ c.len # 0
     /\ e = "ERR_OVERFLOW" => c.len > MAX_PAYLOAD}

\* Draw a number and build the frame.  The number is used up even when the
\* frame cannot be built.
StartRequest(c) ==
  /\ pc = "idle"
  /\ issued < MaxIssued
  /\ call' = c
  /\ seq' = next_seq
  /\ next_seq' = NextSeq(next_seq)
  /\ issued' = issued + 1
  /\ line' = "busy"
  /\ \/ /\ c.len <= MAX_PAYLOAD
        /\ pc' = "write"
        /\ ret' = NoRet
        /\ rx' = EmptyRx
     \/ \E e \in BuildErrors(c) : Return(e, NoFrame, TRUE)
  /\ UNCHANGED <<devVars, epoch>>

\* A command: transact() of uart.c or ble.c.
Transact(c) == c.fn = "transact" /\ StartRequest(c)

UartWrite(c) == c.fn = "uart_write" /\ StartRequest(c)

\* ch32mux_uart_read() and ch32mux_ble_read_event() go straight to read_frame().
StartRead(c) ==
  /\ pc = "idle"
  /\ call' = c
  /\ pc' = "read"
  /\ rx' = EmptyRx
  /\ ret' = NoRet
  /\ line' = "busy"
  /\ UNCHANGED <<next_seq, seq, devVars, issued, epoch>>

UartRead(c) == c.fn = "uart_read" /\ StartRead(c)

BleReadEvent(c) == c.fn = "ble_read_event" /\ StartRead(c)

-----------------------------------------------------------------------------
(* Host: ch32mux_write_frame().                                            *)

\* libusb_bulk_transfer() errors; LIBUSB_ERROR_NO_DEVICE is kept apart.
TransferErrors == {"ERR_IO"} \cup (IF timeout_ms # 0 THEN {"ERR_TIMEOUT"} ELSE {})

Sent(whole) == outPipe' = Append(outPipe, [frame |-> Request, whole |-> whole])

\* What is in flight when a request goes out.
LineNow ==
  IF inPipe # <<>> THEN "backlog" ELSE IF outPipe # <<>> THEN "busy" ELSE "quiet"

\* The transfer loop gets to the end of the frame.
WriteFrame ==
  /\ pc = "write" /\ plugged
  /\ Len(outPipe) < OutCap
  /\ Sent(TRUE)
  /\ line' = LineNow
  /\ IF call.fn = "transact"
       THEN pc' = "read" /\ UNCHANGED <<rx, ret>>
       ELSE Return("OK", NoFrame, TRUE)
  /\ UNCHANGED <<next_seq, call, seq, inPipe, plugged, openPorts, issued, epoch>>

\* A transfer fails: the device has nothing, the beginning of the frame, or
\* all of it.  Whatever it has stays with it.
WriteFails ==
  /\ pc = "write" /\ plugged
  /\ \E e \in TransferErrors : Return(e, NoFrame, TRUE)
  /\ \/ UNCHANGED outPipe
     \/ \E whole \in BOOLEAN : Len(outPipe) < OutCap /\ Sent(whole)
  /\ UNCHANGED <<next_seq, call, seq, inPipe, plugged, openPorts, issued, epoch, line>>

-----------------------------------------------------------------------------
(* Host: ch32mux_read_frame() and what follows it, one packet a step.      *)

DecodesAnything(p) == TRUE                                         \* mutant
\* ch32mux_decode_header() on the first bytes received: they are a header
\* only if they are the beginning of a frame.
Decodes(p) == p.index = 1

\* One bulk transfer of at most 64 bytes.  None at all is an error; fewer than
\* a header: go on.
\* A header: learn the length, go on until it is reached, then decide.
ReadPacket ==
  /\ pc = "read" /\ plugged /\ inPipe # <<>>
  /\ inPipe' = Tail(inPipe)
  /\ LET p      == Head(inPipe)
         lead   == IF rx.offset = 0 THEN p ELSE rx.lead
         got    == rx.offset + p.len
         intact == /\ (p.index - 1) * EP_PACKET_SIZE = rx.offset
                   /\ rx.intact /\ p.frame = lead.frame
         more   == /\ rx' = [offset |-> got, lead |-> lead, intact |-> intact]
                   /\ UNCHANGED <<pc, ret>>
     IN IF p.len = 0 THEN Return("ERR_IO", NoFrame, TRUE)
        ELSE IF got < HEADER_LEN THEN more
        ELSE IF ~ Decodes(lead) THEN Return("ERR_PROTO", NoFrame, TRUE)
        ELSE IF got < TotalLen(lead.frame) THEN more
        ELSE Return(Verdict(call, lead.frame), lead.frame, intact)
  /\ UNCHANGED <<next_seq, call, seq, outPipe, plugged, openPorts, issued, epoch, line>>

ReadFailsRetries ==                                                \* mutant
  pc = "read" /\ plugged /\ UNCHANGED vars
\* A transfer fails.  The bytes received so far are thrown away; the device
\* still has the rest.
ReadFails ==
  /\ pc = "read" /\ plugged
  /\ \E e \in TransferErrors : Return(e, NoFrame, TRUE)
  /\ UNCHANGED <<next_seq, call, seq, devVars, issued, epoch, line>>

NoDeviceRetried ==                                                 \* mutant
  pc \in {"write", "read"} /\ ~ plugged /\ UNCHANGED vars
\* LIBUSB_ERROR_NO_DEVICE from either transfer.
NoDevice ==
  /\ pc \in {"write", "read"} /\ ~ plugged
  /\ Return("ERR_NOT_FOUND", NoFrame, TRUE)
  /\ UNCHANGED <<next_seq, call, seq, devVars, issued, epoch, line>>

\* ch32mux_close() and ch32mux_open() by the same or by the next process: a
\* fresh struct that counts from 1.  The device may keep what it had to send.
Reopen ==
  /\ pc = "idle"
  /\ epoch < MaxEpoch
  /\ next_seq' = 1
  /\ call' = NoCall
  /\ seq' = 0
  /\ rx' = EmptyRx
  /\ ret' = NoRet
  /\ plugged' = TRUE
  /\ issued' = 0
  /\ epoch' = epoch + 1
  /\ line' = "busy"
  /\ \/ UNCHANGED <<outPipe, inPipe>>
     \/ outPipe' = <<>> /\ inPipe' = <<>>
  /\ UNCHANGED <<pc, openPorts>>

Host ==
  \/ \E c \in Calls : \/ Transact(c) \/ UartWrite(c)
                      \/ UartRead(c) \/ BleReadEvent(c)
  \/ RejectArguments
  \/ WriteFrame \/ WriteFails \/ ReadPacket \/ ReadFails \/ NoDevice
  \/ Reopen

-----------------------------------------------------------------------------
(* The device and the bus (external).                                      *)

HasRoom(f) == Len(inPipe) + Len(Packets(f)) <= InCap

\* The device carries out the command at the head and queues its answer; one
\* that opens or closes a port does so.
DeviceExecutes ==
  /\ outPipe # <<>> /\ Head(outPipe).whole
  /\ LET req == Head(outPipe).frame
     IN /\ req.msg_type = "CMD"
        /\ \E len \in RspLens :
             /\ HasRoom(Answer(req, "OK", len))
             /\ inPipe' = inPipe \o Packets(Answer(req, "OK", len))
        /\ openPorts' =
             IF req.ch_type = "UART_CTRL" /\ req.opcode = 3 THEN openPorts \cup {req.ch_id}
             ELSE IF req.ch_type = "UART_CTRL" /\ req.opcode = 4 THEN openPorts \ {req.ch_id}
             ELSE openPorts
  /\ outPipe' = Tail(outPipe)
  /\ UNCHANGED <<hostVars, plugged, issued, epoch, line>>

\* The device refuses the command at the head.
DeviceRefuses ==
  /\ outPipe # <<>> /\ Head(outPipe).whole
  /\ LET req == Head(outPipe).frame
     IN /\ req.msg_type = "CMD"
        /\ HasRoom(Answer(req, "ERR", 0))
        /\ inPipe' = inPipe \o Packets(Answer(req, "ERR", 0))
  /\ outPipe' = Tail(outPipe)
  /\ UNCHANGED <<hostVars, plugged, openPorts, issued, epoch, line>>

\* Data to a port needs no answer; the beginning of a frame gets none, and
\* may take the frame behind it along.
DeviceDiscards ==
  /\ outPipe # <<>>
  /\ outPipe' = Tail(outPipe)
  /\ UNCHANGED <<hostVars, inPipe, plugged, openPorts, issued, epoch, line>>

\* The device sends a frame of this kind: data received on an open port, a
\* scan report, a change of connection.
Speaks(u) ==
  /\ plugged
  /\ LET f == Spontaneous(u[1], u[2], u[3])
     IN /\ u[1] = "DATA" => u[2] \in openPorts
        /\ HasRoom(f)
        /\ inPipe' = inPipe \o Packets(f)
  /\ line' = IF line = "quiet" THEN "busy" ELSE line
  /\ UNCHANGED <<hostVars, outPipe, plugged, openPorts, issued, epoch>>

DeviceSpeaks == \E u \in Unsolicited : Speaks(u)

Unplug ==
  /\ plugged
  /\ plugged' = FALSE
  /\ outPipe' = <<>>
  /\ inPipe' = <<>>
  /\ openPorts' = {}
  /\ UNCHANGED <<hostVars, issued, epoch, line>>

Device ==
  \/ DeviceExecutes \/ DeviceRefuses \/ DeviceDiscards \/ DeviceSpeaks \/ Unplug

-----------------------------------------------------------------------------

\* ch32mux_open() has just succeeded on a device nobody has used.
Init ==
  /\ next_seq = 1
  /\ pc = "idle"
  /\ call = NoCall
  /\ seq = 0
  /\ rx = EmptyRx
  /\ ret = NoRet
  /\ outPipe = <<>> /\ inPipe = <<>>
  /\ plugged = TRUE
  /\ openPorts = {}
  /\ issued = 0 /\ epoch = 0
  /\ line = "busy"

Next == Host \/ Device

Spec == Init /\ [][Next]_vars

\* A call in progress keeps going: libusb returns from a transfer with the
\* data, without the device, or when timeout_ms is over, if it is not 0.
\* Nothing is assumed of the device.
InCall ==
  \/ WriteFrame \/ ReadPacket \/ NoDevice
  \/ (timeout_ms # 0) /\ (WriteFails \/ ReadFails)

FairSpec == Spec /\ WF_vars(InCall)

-----------------------------------------------------------------------------
(* Properties.                                                             *)

TypeOK ==
  /\ next_seq \in 1 .. SeqMax
  /\ pc \in {"idle", "write", "read"}
  /\ call \in Calls \cup {NoCall}
  /\ seq \in 0 .. SeqMax
  /\ rx \in Received
  /\ ret \in Outcome
  /\ outPipe \in Seq(Written)
  /\ inPipe \in Seq(Packet)
  /\ plugged \in BOOLEAN
  /\ openPorts \subseteq Nat
  /\ issued \in 0 .. MaxIssued
  /\ epoch \in 0 .. MaxEpoch
  /\ line \in {"quiet", "busy", "backlog"}

\* The last call was a command and it succeeded with an answer to a request
\* of this session, less than a whole round of numbers old.
SucceededInWindow ==
  /\ call.fn = "transact" /\ ret.result = "OK"
  /\ ret.frame.epoch = epoch
  /\ issued - ret.frame.id < SeqMax

\* A command never takes the answer to another one for its own (the checks of
\* uart.c:81 and ble.c:67), however many answers came late, until the 16-bit
\* numbers have gone round once.
AnswerIsOwn == SucceededInWindow => ret.frame.id = issued

\* With answers of an earlier session or of an earlier round about, an answer
\* is taken for the wrong request only if the two requests were drawn a whole
\* number of rounds apart, counting each session from 1 (device.c:83).
AnswersCoincide ==
  call.fn = "transact" /\ ret.result = "OK" =>
    \E rounds \in -MaxIssued .. MaxIssued : issued - ret.frame.id = rounds * SeqMax

\* When an open or a close returns CH32MUX_OK, the device has done it, and
\* nothing written earlier is left that could undo it: no request is pending.
OkMeansDone ==
  SucceededInWindow /\ plugged =>
    /\ outPipe = <<>>
    /\ OpensPort(call)  => call.ch_id \in openPorts
    /\ ClosesPort(call) => call.ch_id \notin openPorts

\* With nothing in flight when the request goes out, and nothing unsolicited
\* after it, a command never fails the match of uart.c:81: the only
\* CH32MUX_ERR_PROTO left is its own answer with an unexpected length.
QuietLineMatches ==
  call.fn = "transact" /\ line = "quiet" /\ ret.result = "ERR_PROTO" =>
    /\ ret.frame.id = issued /\ ret.frame.epoch = epoch
    /\ call.exact /\ ret.frame.payload_len # call.capacity

\* One packet left over from an earlier call is enough to make a command
\* fail, although the device carries it out: read_frame() is called once.
BacklogFails ==
  line = "backlog" => ~ SucceededInWindow

\* A frame handed to the caller was received whole, every packet of it in
\* order: a read that failed half way never leaks its rest into the next one.
NeverSpliced == ret.result = "OK" => ret.intact

\* With a timeout every call returns, whatever the device does or does not.
CallReturns == (pc # "idle") ~> (pc = "idle")

\* Without one a call that never returns is waiting for a device that is
\* there and from some time on neither takes a packet nor has one to give.
Silent ==
  /\ plugged
  /\ \/ pc = "read" /\ inPipe = <<>>
     \/ pc = "write" /\ Len(outPipe) >= OutCap

ReturnsOrSilence == []<>(pc = "idle") \/ <>[]Silent
=============================================================================
