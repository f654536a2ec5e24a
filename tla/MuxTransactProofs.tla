------------------------- MODULE MuxTransactProofs -------------------------
(***************************************************************************)
(* What MuxTransact promises, for every set of calls, every payload        *)
(* length, every depth of the pipes and every range of sequence numbers.   *)
(*                                                                         *)
(* Numbers.  Type correctness, and that an accepted answer is the answer   *)
(* to the request in hand.                                                 *)
(*                                                                         *)
(* Frames.  A command that returns CH32MUX_OK has been carried out, and    *)
(* nothing written before it is left that could undo it.  Requests lie in  *)
(* the pipe in the order they were written, so the last one is answered    *)
(* when all others are gone: with an answer to the request in hand on its  *)
(* way, the pipe to the device is empty and stays so until the next        *)
(* request, and no port changes meanwhile.                                 *)
(*                                                                         *)
(* Packets.  Frames are never joined, and a command on a quiet line always *)
(* gets its own answer.  The packets of a frame lie in the pipe one after  *)
(* the other, and only its first ones can be missing, taken by a read that *)
(* failed.  A read that started with the first packet therefore finds the  *)
(* rest in order; one that started with another does not decode.           *)
(***************************************************************************)
EXTENDS MuxTransact, TLAPS

-----------------------------------------------------------------------------
(* Type correctness.                                                       *)

\* TypeOK is not inductive: a frame can be built only because a call that
\* is too long never gets to the transfer, and read_frame() is entered only
\* by a call that expects a frame.
CallOK ==
  /\ pc # "idle" => call \in Calls
  /\ pc = "write" => call.fn \in {"transact", "uart_write"} /\ call.len <= MAX_PAYLOAD
  /\ pc = "read" => call.fn \in {"transact", "uart_read", "ble_read_event"}

TypeInv == TypeOK /\ CallOK

USE DEF HEADER_LEN, MAX_FRAME_LEN, EP_PACKET_SIZE, MAX_PAYLOAD

LEMMA PacketsType ==
  ASSUME NEW f \in Frame
  PROVE  /\ Packets(f) \in Seq(Packet)
         /\ Len(Packets(f)) \in Nat
         /\ \A i \in 1 .. Len(Packets(f)) : Packets(f)[i].frame = f
  <1> DEFINE n == PacketCount(f)
             pkt(i) == [frame |-> f, index |-> i,
                        len |-> IF TotalLen(f) >= i * 64 THEN 64
                                ELSE TotalLen(f) - (i - 1) * 64]
  <1>1. TotalLen(f) \in Nat
    BY DEF TotalLen, Frame
  <1>2. n \in Nat /\ (n - 1) * 64 <= TotalLen(f)
    BY <1>1 DEF PacketCount
  <1>3. ASSUME NEW i \in 1 .. n PROVE pkt(i) \in Packet
    BY <1>1, <1>2 DEF Packet
  <1>4. Packets(f) = [i \in 1 .. n |-> pkt(i)]
    BY DEF Packets
  <1> QED
    BY <1>2, <1>3, <1>4

LEMMA ConstantFrames ==
  /\ NoFrame \in Frame
  /\ EmptyRx \in Received
  /\ NoRet \in Outcome
  <1>1. NoFrame \in Frame
    BY MuxAssumption DEF NoFrame, Frame, MsgTypes, ChTypes
  <1> QED
    BY <1>1 DEF EmptyRx, NoRet, Received, Outcome

LEMMA VerdictType ==
  ASSUME NEW c \in Call, c.fn \in {"transact", "uart_read", "ble_read_event"}, NEW f
  PROVE  Verdict(c, f) \in Results
  BY DEF Verdict, TakeResponse, TakeData, TakeEvent, Results

LEMMA RequestType ==
  ASSUME TypeInv, pc = "write"
  PROVE  Request \in Frame
  <1>1. call \in Call /\ call.len \in 0 .. MAX_PAYLOAD
    BY MuxAssumption DEF TypeInv, CallOK, Call
  <1>2. seq \in 0 .. SeqMax /\ 0 \in 0 .. SeqMax /\ issued \in Nat /\ epoch \in Nat
    BY MuxAssumption DEF TypeInv, TypeOK
  <1> QED
    BY <1>1, <1>2 DEF Request, Frame, Call

\* Return() leaves the locals of read_frame() and the result well typed.
LEMMA ReturnType ==
  ASSUME NEW e \in Results, NEW f \in Frame, NEW b \in BOOLEAN, Return(e, f, b)
  PROVE  /\ pc' = "idle"
         /\ rx' \in Received
         /\ ret' \in Outcome
  BY ConstantFrames DEF Return, Outcome

LEMMA TransferErrorsAreResults == TransferErrors \subseteq Results
  BY DEF TransferErrors, Results

LEMMA NextSeqType == \A s \in 1 .. SeqMax : NextSeq(s) \in 1 .. SeqMax
  BY MuxAssumption DEF NextSeq

LEMMA InitType == Init => TypeInv
  BY MuxAssumption, ConstantFrames DEF Init, TypeInv, TypeOK, CallOK

LEMMA StartRequestType ==
  ASSUME TypeInv, NEW c \in Calls, c.fn \in {"transact", "uart_write"}, StartRequest(c)
  PROVE  TypeInv'
  <1> USE DEF StartRequest
  <1>1. pc' \in {"idle", "write"} /\ call' \in Calls /\ call' = c
    BY DEF Return
  <1>2. pc' = "write" => c.len <= MAX_PAYLOAD
    BY DEF Return
  <1>3. CallOK'
    BY <1>1, <1>2 DEF CallOK
  <1>4. /\ rx' \in Received
        /\ ret' \in Outcome
    <2>1. CASE c.len <= MAX_PAYLOAD /\ ret' = NoRet /\ rx' = EmptyRx
      BY <2>1, ConstantFrames
    <2>2. CASE \E e \in BuildErrors(c) : Return(e, NoFrame, TRUE)
      BY <2>2, ConstantFrames, ReturnType DEF BuildErrors, Results
    <2> QED
      BY <2>1, <2>2
  <1>5. next_seq' \in 1 .. SeqMax /\ seq' \in 0 .. SeqMax
    BY NextSeqType, MuxAssumption DEF TypeInv, TypeOK
  <1>6. issued' \in 0 .. MaxIssued
    BY MuxAssumption DEF TypeInv, TypeOK
  <1> QED
    BY <1>1, <1>3, <1>4, <1>5, <1>6 DEF TypeInv, TypeOK, devVars

LEMMA StartReadType ==
  ASSUME TypeInv, NEW c \in Calls, c.fn \in {"uart_read", "ble_read_event"}, StartRead(c)
  PROVE  TypeInv'
  BY ConstantFrames DEF StartRead, TypeInv, TypeOK, CallOK, devVars

LEMMA SentType ==
  ASSUME TypeInv, pc = "write", NEW whole \in BOOLEAN, Sent(whole)
  PROVE  outPipe' \in Seq(Written)
  BY RequestType DEF Sent, Written, TypeInv, TypeOK

LEMMA WriteFrameType ==
  ASSUME TypeInv, WriteFrame
  PROVE  TypeInv'
  <1> USE DEF WriteFrame
  <1>1. outPipe' \in Seq(Written)
    BY SentType
  <1>2. CASE call.fn = "transact"
    BY <1>1, <1>2 DEF TypeInv, TypeOK, CallOK, LineNow
  <1>3. CASE call.fn # "transact"
    <2>1. Return("OK", NoFrame, TRUE) /\ "OK" \in Results
      BY <1>3 DEF Results
    <2> QED
      BY <1>1, <2>1, ConstantFrames, ReturnType DEF TypeInv, TypeOK, CallOK, LineNow
  <1> QED
    BY <1>2, <1>3

LEMMA WriteFailsType ==
  ASSUME TypeInv, WriteFails
  PROVE  TypeInv'
  <1> USE DEF WriteFails
  <1>1. outPipe' \in Seq(Written)
    BY SentType DEF TypeInv, TypeOK
  <1>2. PICK e \in TransferErrors : Return(e, NoFrame, TRUE)
    OBVIOUS
  <1> QED
    BY <1>1, <1>2, TransferErrorsAreResults, ConstantFrames, ReturnType
    DEF TypeInv, TypeOK, CallOK

LEMMA ReadPacketType ==
  ASSUME TypeInv, ReadPacket
  PROVE  TypeInv'
  <1> DEFINE p      == Head(inPipe)
             lead   == IF rx.offset = 0 THEN p ELSE rx.lead
             got    == rx.offset + p.len
             intact == /\ (p.index - 1) * EP_PACKET_SIZE = rx.offset
                       /\ rx.intact /\ p.frame = lead.frame
  <1>1. /\ p \in Packet
        /\ inPipe' \in Seq(Packet)
    BY DEF ReadPacket, TypeInv, TypeOK
  <1>2. /\ lead \in [frame : Frame, index : Nat, len : Nat]
        /\ got \in Nat
        /\ intact \in BOOLEAN
    <2>1. p \in [frame : Frame, index : Nat, len : Nat]
      <3>1. \A q \in Packet : q \in [frame : Frame, index : Nat, len : Nat]
        BY DEF Packet
      <3> QED
        BY <1>1, <3>1
    <2>2. rx \in Received
      BY DEF TypeInv, TypeOK
    <2>3. lead \in [frame : Frame, index : Nat, len : Nat]
      BY <2>1, <2>2 DEF Received
    <2>4. got \in Nat /\ intact \in BOOLEAN
      BY <2>1, <2>2 DEF Received
    <2> QED
      BY <2>3, <2>4
  <1>3. Verdict(call, lead.frame) \in Results
    BY VerdictType, MuxAssumption DEF ReadPacket, TypeInv, CallOK
  <1>4. \/ /\ rx' = [offset |-> got, lead |-> lead, intact |-> intact]
           /\ UNCHANGED <<pc, ret>>
        \/ Return("ERR_IO", NoFrame, TRUE)
        \/ Return("ERR_PROTO", NoFrame, TRUE)
        \/ Return(Verdict(call, lead.frame), lead.frame, intact)
    BY DEF ReadPacket
  <1>5. /\ pc' \in {pc, "idle"}
        /\ rx' \in Received
        /\ ret' \in Outcome
    <2> HIDE DEF lead, got, intact
    <2>1. CASE /\ rx' = [offset |-> got, lead |-> lead, intact |-> intact]
               /\ UNCHANGED <<pc, ret>>
      BY <1>2, <2>1 DEF Received, TypeInv, TypeOK
    <2>2. CASE Return("ERR_IO", NoFrame, TRUE) \/ Return("ERR_PROTO", NoFrame, TRUE)
      BY <2>2, ConstantFrames, ReturnType DEF Results
    <2>3. CASE Return(Verdict(call, lead.frame), lead.frame, intact)
      BY <1>2, <1>3, <2>3, ReturnType
    <2> QED
      BY <1>4, <2>1, <2>2, <2>3
  <1> QED
    BY <1>1, <1>5 DEF ReadPacket, TypeInv, TypeOK, CallOK

\* A call that ends without a frame and leaves pipes and numbers as they are.
LEMMA EndType ==
  ASSUME TypeInv, NEW e \in Results, Return(e, NoFrame, TRUE), call' \in {call, NoCall},
         UNCHANGED <<next_seq, seq, devVars, issued, epoch, line>>
  PROVE  TypeInv'
  <1>1. pc' = "idle" /\ rx' \in Received /\ ret' \in Outcome
    BY ConstantFrames, ReturnType
  <1>2. call' \in Calls \cup {NoCall}
    BY DEF TypeInv, TypeOK
  <1>3. UNCHANGED <<next_seq, seq, outPipe, inPipe, plugged, openPorts, issued, epoch, line>>
    BY DEF devVars
  <1>4. CallOK'
    BY <1>1 DEF CallOK
  <1> QED
    BY <1>1, <1>2, <1>3, <1>4 DEF TypeInv, TypeOK

LEMMA ReadFailsType ==
  ASSUME TypeInv, ReadFails
  PROVE  TypeInv'
  <1>1. PICK e \in TransferErrors : Return(e, NoFrame, TRUE)
    BY DEF ReadFails
  <1> QED
    BY <1>1, TransferErrorsAreResults, EndType DEF ReadFails

LEMMA NoDeviceType ==
  ASSUME TypeInv, NoDevice
  PROVE  TypeInv'
  <1>1. Return("ERR_NOT_FOUND", NoFrame, TRUE) /\ "ERR_NOT_FOUND" \in Results
    BY DEF NoDevice, Results
  <1> QED
    BY <1>1, EndType DEF NoDevice

LEMMA RejectArgumentsType ==
  ASSUME TypeInv, RejectArguments
  PROVE  TypeInv'
  <1>1. Return("ERR_ARG", NoFrame, TRUE) /\ "ERR_ARG" \in Results
    BY DEF RejectArguments, Results
  <1> QED
    BY <1>1, EndType DEF RejectArguments

LEMMA ReopenType ==
  ASSUME TypeInv, Reopen
  PROVE  TypeInv'
  <1>1. 1 \in 1 .. SeqMax /\ 0 \in 0 .. SeqMax /\ 0 \in 0 .. MaxIssued
    BY MuxAssumption
  <1>2. epoch' \in 0 .. MaxEpoch
    BY MuxAssumption DEF Reopen, TypeInv, TypeOK
  <1>3. outPipe' \in Seq(Written) /\ inPipe' \in Seq(Packet)
    <2>1. <<>> \in Seq(Written) /\ <<>> \in Seq(Packet)
      OBVIOUS
    <2>2. outPipe \in Seq(Written) /\ inPipe \in Seq(Packet)
      BY DEF TypeInv, TypeOK
    <2>3. \/ outPipe' = outPipe /\ inPipe' = inPipe
          \/ outPipe' = <<>> /\ inPipe' = <<>>
      BY DEF Reopen
    <2> QED
      BY <2>1, <2>2, <2>3
  <1> QED
    BY <1>1, <1>2, <1>3, ConstantFrames DEF Reopen, TypeInv, TypeOK, CallOK

\* The four actions of the device leave the host alone and queue frames.
LEMMA QueueType ==
  ASSUME TypeInv, NEW f \in Frame, inPipe' = inPipe \o Packets(f)
  PROVE  inPipe' \in Seq(Packet)
  BY PacketsType DEF TypeInv, TypeOK

LEMMA AnswerType ==
  ASSUME NEW req \in Frame, NEW status \in {"OK", "ERR"}, NEW len \in 0 .. MAX_PAYLOAD
  PROVE  Answer(req, status, len) \in Frame
  <1>1. 0 \in 0 .. SeqMax
    BY MuxAssumption
  <1> QED
    BY <1>1 DEF Answer, Frame, MsgTypes

LEMMA SpontaneousType ==
  ASSUME TypeInv, NEW u \in Unsolicited
  PROVE  Spontaneous(u[1], u[2], u[3]) \in Frame
  <1>1. u[1] \in {"EVT", "DATA"} /\ u[2] \in Nat /\ u[3] \in 0 .. MAX_PAYLOAD
    BY MuxAssumption
  <1>2. 0 \in 0 .. SeqMax /\ epoch \in Nat
    BY MuxAssumption DEF TypeInv, TypeOK
  <1> QED
    BY <1>1, <1>2 DEF Spontaneous, Frame, MsgTypes, ChTypes

\* A step of the device keeps the types if its pipes and ports have theirs.
LEMMA DeviceKeepsType ==
  ASSUME TypeInv, UNCHANGED <<hostVars, issued, epoch>>,
         outPipe' \in Seq(Written), inPipe' \in Seq(Packet), openPorts' \subseteq Nat,
         plugged' \in BOOLEAN, line' \in {line, "busy"}
  PROVE  TypeInv'
  <1>1. UNCHANGED <<next_seq, pc, call, seq, rx, ret>>
    BY DEF hostVars
  <1>2. line' \in {"quiet", "busy", "backlog"}
    BY DEF TypeInv, TypeOK
  <1>3. CallOK'
    BY <1>1 DEF TypeInv, CallOK
  <1> QED
    BY <1>1, <1>2, <1>3 DEF TypeInv, TypeOK

LEMMA DeviceAnswersType ==
  ASSUME TypeInv, DeviceExecutes \/ DeviceRefuses
  PROVE  TypeInv'
  <1> DEFINE req == Head(outPipe).frame
  <1>1. /\ req \in Frame
        /\ outPipe' \in Seq(Written)
    <2>1. outPipe \in Seq(Written) /\ outPipe # <<>> /\ outPipe' = Tail(outPipe)
      BY DEF DeviceExecutes, DeviceRefuses, TypeInv, TypeOK
    <2>2. Head(outPipe) \in Written /\ Tail(outPipe) \in Seq(Written)
      BY <2>1
    <2> QED
      BY <2>1, <2>2 DEF Written
  <1>2. \E status \in {"OK", "ERR"}, len \in 0 .. MAX_PAYLOAD :
          inPipe' = inPipe \o Packets(Answer(req, status, len))
    <2>1. CASE DeviceExecutes
      BY <2>1, MuxAssumption DEF DeviceExecutes
    <2>2. CASE DeviceRefuses
      <3>1. 0 \in 0 .. MAX_PAYLOAD
        OBVIOUS
      <3> QED
        BY <2>2, <3>1 DEF DeviceRefuses
    <2> QED
      BY <2>1, <2>2
  <1>3. inPipe' \in Seq(Packet)
    BY <1>1, <1>2, AnswerType, QueueType
  <1>4. openPorts' \subseteq Nat
    <2>1. req.ch_id \in Nat
      BY <1>1 DEF Frame
    <2>2. openPorts' \in {openPorts, openPorts \cup {req.ch_id}, openPorts \ {req.ch_id}}
      BY DEF DeviceExecutes, DeviceRefuses
    <2> QED
      BY <2>1, <2>2 DEF TypeInv, TypeOK
  <1>5. UNCHANGED <<hostVars, plugged, issued, epoch, line>>
    BY DEF DeviceExecutes, DeviceRefuses
  <1>6. plugged' \in BOOLEAN
    BY <1>5 DEF TypeInv, TypeOK
  <1> QED
    BY <1>1, <1>3, <1>4, <1>5, <1>6, DeviceKeepsType

LEMMA DeviceType ==
  ASSUME TypeInv, Device
  PROVE  TypeInv'
  <1>1. CASE DeviceExecutes \/ DeviceRefuses
    BY <1>1, DeviceAnswersType
  <1>2. CASE DeviceDiscards
    <2>1. outPipe' \in Seq(Written)
      <3>1. outPipe \in Seq(Written) /\ outPipe # <<>> /\ outPipe' = Tail(outPipe)
        BY <1>2 DEF DeviceDiscards, TypeInv, TypeOK
      <3> QED
        BY <3>1
    <2>2. inPipe' \in Seq(Packet) /\ openPorts' \subseteq Nat /\ plugged' \in BOOLEAN
      BY <1>2 DEF DeviceDiscards, TypeInv, TypeOK
    <2> QED
      BY <1>2, <2>1, <2>2, DeviceKeepsType DEF DeviceDiscards
  <1>3. CASE DeviceSpeaks
    <2>1. inPipe' \in Seq(Packet)
      BY <1>3, SpontaneousType, QueueType DEF DeviceSpeaks, Speaks
    <2>2. /\ UNCHANGED <<hostVars, outPipe, plugged, openPorts, issued, epoch>>
          /\ line' \in {line, "busy"}
      BY <1>3 DEF DeviceSpeaks, Speaks
    <2>3. outPipe' \in Seq(Written) /\ openPorts' \subseteq Nat /\ plugged' \in BOOLEAN
      BY <2>2 DEF TypeInv, TypeOK
    <2> QED
      BY <2>1, <2>2, <2>3, DeviceKeepsType
  <1>4. CASE Unplug
    <2>1. outPipe' \in Seq(Written) /\ inPipe' \in Seq(Packet)
      BY <1>4 DEF Unplug
    <2>2. openPorts' \subseteq Nat /\ plugged' \in BOOLEAN
      BY <1>4 DEF Unplug
    <2> QED
      BY <1>4, <2>1, <2>2, DeviceKeepsType DEF Unplug
  <1> QED
    BY <1>1, <1>2, <1>3, <1>4 DEF Device

LEMMA NextType ==
  ASSUME TypeInv, [Next]_vars
  PROVE  TypeInv'
  <1>1. ASSUME NEW c \in Calls, Transact(c) \/ UartWrite(c) PROVE TypeInv'
    BY <1>1, StartRequestType DEF Transact, UartWrite
  <1>2. ASSUME NEW c \in Calls, UartRead(c) \/ BleReadEvent(c) PROVE TypeInv'
    BY <1>2, StartReadType DEF UartRead, BleReadEvent
  <1>3. CASE UNCHANGED vars
    BY <1>3 DEF vars, hostVars, devVars, TypeInv, TypeOK, CallOK
  <1> QED
    BY <1>1, <1>2, <1>3, RejectArgumentsType, WriteFrameType, WriteFailsType,
       ReadPacketType, ReadFailsType, NoDeviceType, ReopenType, DeviceType
    DEF Next, Host

\* Every call is type correct, whoever makes it: no frame is built longer than
\* MAX_PAYLOAD allows, and the queues hold nothing but frames and packets.
THEOREM TypeCorrect == Spec => []TypeOK
  <1>1. Init => TypeInv
    BY InitType
  <1>2. TypeInv /\ [Next]_vars => TypeInv'
    BY NextType
  <1>3. TypeInv => TypeOK
    BY DEF TypeInv
  <1> QED
    BY <1>1, <1>2, <1>3, PTL DEF Spec

-----------------------------------------------------------------------------
(* An answer that transact() accepts is the answer to the request in hand. *)
(*                                                                         *)
(* The n-th number drawn in a session is the one that differs from n by a  *)
(* whole number of rounds.  Requests carry the number they were drawn      *)
(* with, answers repeat it, and the pipes, the read buffer and the result  *)
(* of the last call hold nothing else; so two requests with one number are *)
(* a whole number of rounds apart.                                         *)

HIDE DEF HEADER_LEN, MAX_FRAME_LEN, EP_PACKET_SIZE, MAX_PAYLOAD

\* s is the id-th number drawn since the device was opened.
Numbered(s, id) == \E k \in 0 .. id : id = s + k * SeqMax

\* f stems from a request numbered s that was written in this session or in
\* an earlier one.
Genuine(s, f) ==
  /\ f.id \in 1 .. MaxIssued
  /\ Numbered(s, f.id)
  /\ f.epoch <= epoch
  /\ f.epoch = epoch => f.id <= issued

OwnRequest == {f \in Frame : Genuine(f.seq, f)}
OwnAnswer  == {f \in Frame : f.msg_type = "RSP" => Genuine(f.ref_seq, f)}

NumberInv ==
  /\ Numbered(next_seq, issued + 1)
  /\ issued > 0 => Numbered(seq, issued)
  /\ call.fn \in {"transact", "uart_write"} => issued > 0

PipeInv ==
  /\ outPipe \in Seq([frame : OwnRequest, whole : BOOLEAN])
  /\ inPipe \in Seq([frame : OwnAnswer, index : Nat, len : 0 .. EP_PACKET_SIZE])
  /\ rx.lead.frame \in OwnAnswer
  /\ ret.frame \in OwnAnswer

AnswerInv == NumberInv /\ PipeInv

IInv == TypeInv /\ AnswerInv

\* A command that succeeded holds a response with the number of its request.
ResultInv ==
  call.fn = "transact" /\ ret.result = "OK" =>
    ret.frame.msg_type = "RSP" /\ ret.frame.ref_seq = seq

-----------------------------------------------------------------------------
(* Numbers.                                                                *)

\* The number after the n-th is the (n+1)-th, at the end of a round as well.
LEMMA NextIsNumbered ==
  ASSUME NEW n \in Nat, NEW s \in 1 .. SeqMax, Numbered(s, n)
  PROVE  Numbered(NextSeq(s), n + 1)
  <1>1. PICK k \in 0 .. n : n = s + k * SeqMax
    BY DEF Numbered
  <1>2. SeqMax \in Nat /\ k \in Nat
    BY MuxAssumption
  <1>3. CASE s = SeqMax
    <2>1. (k + 1) * SeqMax = k * SeqMax + SeqMax
      BY <1>2
    <2>2. n + 1 = 1 + (k + 1) * SeqMax /\ k + 1 \in 0 .. n + 1
      BY <1>1, <1>2, <1>3, <2>1
    <2> QED
      BY <1>3, <2>2 DEF Numbered, NextSeq
  <1>4. CASE s # SeqMax
    <2>1. n + 1 = (s + 1) + k * SeqMax /\ k \in 0 .. n + 1
      BY <1>1, <1>2
    <2> QED
      BY <1>4, <2>1 DEF Numbered, NextSeq
  <1> QED
    BY <1>3, <1>4

\* Two draws of one number are a whole number of rounds apart.
LEMMA SameNumber ==
  ASSUME NEW i \in 1 .. MaxIssued, NEW j \in 1 .. MaxIssued, NEW s \in 0 .. SeqMax,
         Numbered(s, i), Numbered(s, j)
  PROVE  \E rounds \in -MaxIssued .. MaxIssued : i - j = rounds * SeqMax
  <1>1. PICK k \in 0 .. i : i = s + k * SeqMax
    BY DEF Numbered
  <1>2. PICK l \in 0 .. j : j = s + l * SeqMax
    BY DEF Numbered
  <1>3. SeqMax \in Nat /\ MaxIssued \in Nat /\ k \in Int /\ l \in Int
    BY MuxAssumption
  <1>4. (k - l) * SeqMax = k * SeqMax - l * SeqMax
    BY <1>3
  <1>5. i - j = (k - l) * SeqMax
    BY <1>1, <1>2, <1>3, <1>4
  <1>6. k - l \in -MaxIssued .. MaxIssued
    BY <1>3
  <1> QED
    BY <1>5, <1>6

\* Less than a round apart, they are the same draw.
LEMMA NoRounds ==
  ASSUME NEW d \in Int, NEW rounds \in Int, d = rounds * SeqMax, 0 <= d, d < SeqMax
  PROVE  d = 0
  <1>1. SeqMax \in Nat /\ SeqMax > 0
    BY MuxAssumption
  <1>2. CASE rounds >= 1
    BY <1>1, <1>2
  <1>3. CASE rounds <= -1
    BY <1>1, <1>3
  <1>4. CASE rounds = 0
    BY <1>1, <1>4
  <1> QED
    BY <1>2, <1>3, <1>4

-----------------------------------------------------------------------------
(* Frames stay genuine as the session goes on and when another one begins. *)

LEMMA SubsetSeq ==
  ASSUME NEW S, NEW T, S \subseteq T
  PROVE  Seq(S) \subseteq Seq(T)
  OBVIOUS

LEMMA SeqParts ==
  ASSUME NEW S, NEW q \in Seq(S), q # <<>>
  PROVE  Head(q) \in S /\ Tail(q) \in Seq(S)
  OBVIOUS

LEMMA SeqElements ==
  ASSUME NEW S, NEW T, NEW q \in Seq(S), \A i \in 1 .. Len(q) : q[i] \in T
  PROVE  q \in Seq(T)
  OBVIOUS

LEMMA GenuineStays ==
  ASSUME TypeOK, TypeOK', \/ epoch' = epoch /\ issued' >= issued
                          \/ epoch' > epoch
  PROVE  OwnRequest \subseteq OwnRequest' /\ OwnAnswer \subseteq OwnAnswer'
  <1>1. issued \in Int /\ issued' \in Int /\ epoch \in Int /\ epoch' \in Int
    BY MuxAssumption DEF TypeOK
  <1>2. \A f \in Frame : f.id \in Int /\ f.epoch \in Int
    BY DEF Frame
  <1>3. ASSUME NEW f \in Frame, NEW s, Genuine(s, f) PROVE Genuine(s, f)'
    <2>1. f.id \in Int /\ f.epoch \in Int
      BY <1>2
    <2>2. f.epoch <= epoch' /\ (f.epoch = epoch' => f.id <= issued')
      BY <1>1, <1>3, <2>1 DEF Genuine
    <2> QED
      BY <1>3, <2>2 DEF Genuine
  <1> QED
    BY <1>3 DEF OwnRequest, OwnAnswer

LEMMA PipesStay ==
  ASSUME TypeInv, TypeInv', PipeInv,
         \/ epoch' = epoch /\ issued' >= issued
         \/ epoch' > epoch
  PROVE  /\ outPipe \in Seq([frame : OwnRequest', whole : BOOLEAN])
         /\ inPipe \in Seq([frame : OwnAnswer', index : Nat, len : 0 .. EP_PACKET_SIZE])
         /\ rx.lead.frame \in OwnAnswer'
         /\ ret.frame \in OwnAnswer'
  <1>1. OwnRequest \subseteq OwnRequest' /\ OwnAnswer \subseteq OwnAnswer'
    BY GenuineStays DEF TypeInv
  <1>2. [frame : OwnRequest, whole : BOOLEAN] \subseteq [frame : OwnRequest', whole : BOOLEAN]
    BY <1>1
  <1>3. [frame : OwnAnswer, index : Nat, len : 0 .. EP_PACKET_SIZE]
          \subseteq [frame : OwnAnswer', index : Nat, len : 0 .. EP_PACKET_SIZE]
    BY <1>1
  <1> QED
    BY <1>1, <1>2, <1>3, SubsetSeq DEF PipeInv

LEMMA EmptyFramesOwn ==
  /\ NoFrame \in OwnAnswer
  /\ EmptyRx.lead.frame = NoFrame
  /\ NoRet.frame = NoFrame /\ NoRet.result = "NONE"
  BY ConstantFrames DEF OwnAnswer, NoFrame, EmptyRx, NoRet

-----------------------------------------------------------------------------
(* Every step preserves IInv.                                              *)

LEMMA InitAnswer == Init => AnswerInv
  <1> SUFFICES ASSUME Init PROVE AnswerInv
    OBVIOUS
  <1>1. NumberInv
    <2>1. 0 \in 0 .. 1 /\ 1 = 1 + 0 * SeqMax
      BY MuxAssumption
    <2>2. Numbered(1, 1)
      BY <2>1 DEF Numbered
    <2> QED
      BY <2>2 DEF NumberInv, Init, NoCall
  <1>2. PipeInv
    <2>1. \A S : <<>> \in Seq(S)
      OBVIOUS
    <2> QED
      BY <2>1, EmptyFramesOwn DEF PipeInv, Init
  <1> QED
    BY <1>1, <1>2 DEF AnswerInv

\* A draw: next_seq was the number of the request, its successor is next.
LEMMA StartRequestAnswer ==
  ASSUME IInv, TypeInv', NEW c \in Calls, StartRequest(c)
  PROVE  AnswerInv'
  <1>1. /\ issued \in Nat /\ issued' = issued + 1 /\ epoch' = epoch
        /\ next_seq \in 1 .. SeqMax /\ next_seq' = NextSeq(next_seq) /\ seq' = next_seq
        /\ outPipe' = outPipe /\ inPipe' = inPipe
    BY DEF StartRequest, devVars, IInv, TypeInv, TypeOK
  <1>2. rx' = EmptyRx /\ ret'.frame = NoFrame
    BY EmptyFramesOwn DEF StartRequest, Return, BuildErrors
  <1>3. NumberInv'
    <2>1. Numbered(next_seq, issued + 1)
      BY DEF IInv, AnswerInv, NumberInv
    <2>2. Numbered(NextSeq(next_seq), issued + 1 + 1)
      BY <1>1, <2>1, NextIsNumbered
    <2> QED
      BY <1>1, <2>1, <2>2 DEF NumberInv, Numbered
  <1>4. PipeInv'
    <2>1. issued' >= issued
      BY <1>1
    <2>2. NoFrame \in OwnAnswer'
      BY ConstantFrames DEF OwnAnswer, NoFrame
    <2> QED
      BY <1>1, <1>2, <2>1, <2>2, PipesStay, EmptyFramesOwn DEF PipeInv, IInv, AnswerInv
  <1> QED
    BY <1>3, <1>4 DEF AnswerInv

\* A new session: its numbers start again, the frames on their way are of an
\* earlier one.
LEMMA ReopenAnswer ==
  ASSUME IInv, TypeInv', Reopen
  PROVE  AnswerInv'
  <1>1. /\ epoch \in Nat /\ epoch' = epoch + 1 /\ issued' = 0 /\ next_seq' = 1
        /\ call' = NoCall /\ rx' = EmptyRx /\ ret' = NoRet
        /\ \/ outPipe' = outPipe /\ inPipe' = inPipe
           \/ outPipe' = <<>> /\ inPipe' = <<>>
    BY MuxAssumption DEF Reopen, IInv, TypeInv, TypeOK
  <1>2. NumberInv'
    <2>1. 0 \in 0 .. 1 /\ 1 = 1 + 0 * SeqMax
      BY MuxAssumption
    <2>2. Numbered(1, 1)
      BY <2>1 DEF Numbered
    <2> QED
      BY <1>1, <2>2 DEF NumberInv, Numbered, NoCall
  <1>3. PipeInv'
    <2>1. epoch' > epoch
      BY <1>1
    <2>2. NoFrame \in OwnAnswer'
      BY ConstantFrames DEF OwnAnswer, NoFrame
    <2>3. \A S : <<>> \in Seq(S)
      OBVIOUS
    <2> QED
      BY <1>1, <2>1, <2>2, <2>3, PipesStay, EmptyFramesOwn DEF PipeInv, IInv, AnswerInv
  <1> QED
    BY <1>2, <1>3 DEF AnswerInv

\* All other steps leave the numbers alone: what is genuine stays so.
LEMMA NumbersStay ==
  ASSUME NumberInv, UNCHANGED <<next_seq, seq, issued, epoch>>,
         call'.fn \notin {"transact", "uart_write"} \/ call' = call
  PROVE  NumberInv' /\ OwnRequest' = OwnRequest /\ OwnAnswer' = OwnAnswer
  BY DEF NumberInv, Numbered, OwnRequest, OwnAnswer, Genuine

\* A call that ends without a frame.
LEMMA EndsWithoutFrame ==
  ASSUME IInv, NEW e, Return(e, NoFrame, TRUE), UNCHANGED <<next_seq, seq, issued, epoch>>,
         call'.fn \notin {"transact", "uart_write"} \/ call' = call,
         inPipe' \in Seq([frame : OwnAnswer, index : Nat, len : 0 .. EP_PACKET_SIZE]),
         outPipe' \in Seq([frame : OwnRequest, whole : BOOLEAN])
  PROVE  AnswerInv'
  <1>1. rx' = EmptyRx /\ ret'.frame = NoFrame
    BY DEF Return
  <1>2. NumberInv' /\ OwnRequest' = OwnRequest /\ OwnAnswer' = OwnAnswer
    BY NumbersStay DEF IInv, AnswerInv
  <1>3. PipeInv'
    BY <1>1, <1>2, EmptyFramesOwn DEF PipeInv
  <1> QED
    BY <1>2, <1>3 DEF AnswerInv

LEMMA RequestIsOwn ==
  ASSUME IInv, pc = "write"
  PROVE  Request \in OwnRequest
  <1>1. Request \in Frame
    BY RequestType DEF IInv
  <1>2. issued \in 1 .. MaxIssued /\ Numbered(seq, issued)
    BY MuxAssumption DEF IInv, TypeInv, TypeOK, CallOK, AnswerInv, NumberInv
  <1>3. epoch <= epoch
    BY MuxAssumption DEF IInv, TypeInv, TypeOK
  <1>4. Request.seq = seq /\ Request.id = issued /\ Request.epoch = epoch
    BY DEF Request
  <1>5. issued <= issued
    BY <1>2
  <1> QED
    BY <1>1, <1>2, <1>3, <1>4, <1>5 DEF OwnRequest, Genuine

LEMMA SentIsOwn ==
  ASSUME IInv, pc = "write", NEW whole \in BOOLEAN, Sent(whole)
  PROVE  outPipe' \in Seq([frame : OwnRequest, whole : BOOLEAN])
  BY RequestIsOwn DEF Sent, IInv, AnswerInv, PipeInv

LEMMA WriteFrameAnswer ==
  ASSUME IInv, WriteFrame
  PROVE  AnswerInv'
  <1>1. outPipe' \in Seq([frame : OwnRequest, whole : BOOLEAN])
    BY SentIsOwn DEF WriteFrame
  <1>2. inPipe' \in Seq([frame : OwnAnswer, index : Nat, len : 0 .. EP_PACKET_SIZE])
    BY DEF WriteFrame, IInv, AnswerInv, PipeInv
  <1>3. UNCHANGED <<next_seq, seq, issued, epoch, call>>
    BY DEF WriteFrame
  <1>4. CASE call.fn = "transact"
    <2>1. rx' = rx /\ ret' = ret
      BY <1>4 DEF WriteFrame
    <2>2. NumberInv' /\ OwnRequest' = OwnRequest /\ OwnAnswer' = OwnAnswer
      BY <1>3, NumbersStay DEF IInv, AnswerInv
    <2> QED
      BY <1>1, <1>2, <2>1, <2>2 DEF IInv, AnswerInv, PipeInv
  <1>5. CASE call.fn # "transact"
    <2>1. Return("OK", NoFrame, TRUE)
      BY <1>5 DEF WriteFrame
    <2> QED
      BY <1>1, <1>2, <1>3, <1>5, <2>1, EndsWithoutFrame
  <1> QED
    BY <1>4, <1>5

LEMMA WriteFailsAnswer ==
  ASSUME IInv, WriteFails
  PROVE  AnswerInv'
  <1>1. PICK e \in TransferErrors : Return(e, NoFrame, TRUE)
    BY DEF WriteFails
  <1>2. outPipe' \in Seq([frame : OwnRequest, whole : BOOLEAN])
    BY SentIsOwn DEF WriteFails, IInv, AnswerInv, PipeInv
  <1>3. inPipe' \in Seq([frame : OwnAnswer, index : Nat, len : 0 .. EP_PACKET_SIZE])
    BY DEF WriteFails, IInv, AnswerInv, PipeInv
  <1> QED
    BY <1>1, <1>2, <1>3, EndsWithoutFrame DEF WriteFails

\* A packet is taken off the pipe.  Whatever read the packet, the buffer and
\* the result hold frames that were there already.
LEMMA TakenAnswer ==
  ASSUME IInv, inPipe # <<>>, inPipe' = Tail(inPipe),
         UNCHANGED <<next_seq, call, seq, outPipe, issued, epoch>>,
         rx'.lead.frame \in {NoFrame, rx.lead.frame, Head(inPipe).frame},
         ret'.frame \in {NoFrame, ret.frame, rx.lead.frame, Head(inPipe).frame}
  PROVE  AnswerInv'
  <1> DEFINE T == [frame : OwnAnswer, index : Nat, len : 0 .. EP_PACKET_SIZE]
  <1>1. inPipe \in Seq(T)
    BY DEF IInv, AnswerInv, PipeInv
  <1>2. Head(inPipe) \in T /\ inPipe' \in Seq(T)
    BY <1>1, SeqParts
  <1>3. NumberInv' /\ OwnRequest' = OwnRequest /\ OwnAnswer' = OwnAnswer
    BY NumbersStay DEF IInv, AnswerInv
  <1> QED
    BY <1>2, <1>3, EmptyFramesOwn DEF IInv, AnswerInv, PipeInv

LEMMA ReadPacketAnswer ==
  ASSUME IInv, ReadPacket
  PROVE  AnswerInv'
  <1> DEFINE p      == Head(inPipe)
             lead   == IF rx.offset = 0 THEN p ELSE rx.lead
             got    == rx.offset + p.len
             intact == /\ (p.index - 1) * EP_PACKET_SIZE = rx.offset
                       /\ rx.intact /\ p.frame = lead.frame
  <1>1. \/ /\ rx' = [offset |-> got, lead |-> lead, intact |-> intact]
           /\ UNCHANGED <<pc, ret>>
        \/ Return("ERR_IO", NoFrame, TRUE)
        \/ Return("ERR_PROTO", NoFrame, TRUE)
        \/ Return(Verdict(call, lead.frame), lead.frame, intact)
    BY DEF ReadPacket
  <1>2. lead.frame \in {rx.lead.frame, p.frame}
    OBVIOUS
  <1> HIDE DEF lead, got, intact
  <1>3. /\ rx'.lead.frame \in {NoFrame, rx.lead.frame, p.frame}
        /\ ret'.frame \in {NoFrame, ret.frame, rx.lead.frame, p.frame}
    BY <1>1, <1>2, EmptyFramesOwn DEF Return
  <1> QED
    BY <1>3, TakenAnswer DEF ReadPacket

LEMMA OtherEndsAnswer ==
  ASSUME IInv, ReadFails \/ NoDevice \/ RejectArguments
  PROVE  AnswerInv'
  <1>1. PICK e : Return(e, NoFrame, TRUE)
    BY DEF ReadFails, NoDevice, RejectArguments
  <1>2. UNCHANGED <<next_seq, seq, issued, epoch, outPipe, inPipe>>
    BY DEF ReadFails, NoDevice, RejectArguments, devVars
  <1>3. call' = call \/ call'.fn \notin {"transact", "uart_write"}
    BY DEF ReadFails, NoDevice, RejectArguments, NoCall, uart_write
  <1> QED
    BY <1>1, <1>2, <1>3, EndsWithoutFrame DEF IInv, AnswerInv, PipeInv

LEMMA StartReadAnswer ==
  ASSUME IInv, NEW c \in Calls, UartRead(c) \/ BleReadEvent(c)
  PROVE  AnswerInv'
  <1>1. /\ UNCHANGED <<next_seq, seq, issued, epoch, outPipe, inPipe>>
        /\ rx' = EmptyRx /\ ret' = NoRet /\ call'.fn \notin {"transact", "uart_write"}
    BY DEF UartRead, BleReadEvent, StartRead, devVars
  <1>2. NumberInv' /\ OwnRequest' = OwnRequest /\ OwnAnswer' = OwnAnswer
    BY <1>1, NumbersStay DEF IInv, AnswerInv
  <1> QED
    BY <1>1, <1>2, EmptyFramesOwn DEF IInv, AnswerInv, PipeInv

\* The device queues answers to genuine requests and frames of its own, and
\* touches nothing of the host.
LEMMA QueueAnswer ==
  ASSUME IInv, NEW f \in OwnAnswer, inPipe' = inPipe \o Packets(f)
  PROVE  inPipe' \in Seq([frame : OwnAnswer, index : Nat, len : 0 .. EP_PACKET_SIZE])
  <1> DEFINE T == [frame : OwnAnswer, index : Nat, len : 0 .. EP_PACKET_SIZE]
  <1>1. f \in Frame
    BY DEF OwnAnswer
  <1>2. /\ Packets(f) \in Seq(Packet)
        /\ \A i \in 1 .. Len(Packets(f)) : Packets(f)[i].frame = f
    BY <1>1, PacketsType
  <1>3. \A i \in 1 .. Len(Packets(f)) : Packets(f)[i] \in Packet
    BY <1>2
  <1>4. \A i \in 1 .. Len(Packets(f)) : Packets(f)[i] \in T
    BY <1>2, <1>3 DEF Packet
  <1>5. Packets(f) \in Seq(T)
    BY <1>2, <1>4, SeqElements
  <1>6. inPipe \in Seq(T)
    BY DEF IInv, AnswerInv, PipeInv
  <1> QED
    BY <1>5, <1>6

LEMMA AnswerIsGenuine ==
  ASSUME IInv, NEW req \in OwnRequest, NEW status \in {"OK", "ERR"},
         NEW len \in 0 .. MAX_PAYLOAD
  PROVE  Answer(req, status, len) \in OwnAnswer
  <1>1. req \in Frame /\ Genuine(req.seq, req)
    BY DEF OwnRequest
  <1>2. Answer(req, status, len) \in Frame
    BY <1>1, AnswerType
  <1>3. /\ Answer(req, status, len).ref_seq = req.seq
        /\ Answer(req, status, len).id = req.id
        /\ Answer(req, status, len).epoch = req.epoch
    BY <1>1 DEF Answer, Frame
  <1> QED
    BY <1>1, <1>2, <1>3 DEF OwnAnswer, Genuine

LEMMA DeviceAnswer ==
  ASSUME IInv, Device
  PROVE  AnswerInv'
  <1>1. UNCHANGED hostVars /\ UNCHANGED <<issued, epoch>>
    BY DEF Device, DeviceExecutes, DeviceRefuses, DeviceDiscards, DeviceSpeaks, Speaks, Unplug
  <1>2. UNCHANGED <<next_seq, call, seq, rx, ret, issued, epoch>>
    BY <1>1 DEF hostVars
  <1>3. NumberInv' /\ OwnRequest' = OwnRequest /\ OwnAnswer' = OwnAnswer
    BY <1>2, NumbersStay DEF IInv, AnswerInv
  <1>4. outPipe' \in Seq([frame : OwnRequest, whole : BOOLEAN])
    <2>1. \/ outPipe' = outPipe
          \/ outPipe' = <<>>
          \/ outPipe # <<>> /\ outPipe' = Tail(outPipe)
      BY DEF Device, DeviceExecutes, DeviceRefuses, DeviceDiscards, DeviceSpeaks, Speaks, Unplug
    <2>2. outPipe \in Seq([frame : OwnRequest, whole : BOOLEAN])
      BY DEF IInv, AnswerInv, PipeInv
    <2>3. \A S : <<>> \in Seq(S)
      OBVIOUS
    <2> QED
      BY <2>1, <2>2, <2>3, SeqParts
  <1>5. inPipe' \in Seq([frame : OwnAnswer, index : Nat, len : 0 .. EP_PACKET_SIZE])
    <2>1. CASE DeviceExecutes \/ DeviceRefuses
      <3>1. outPipe # <<>> /\ outPipe \in Seq([frame : OwnRequest, whole : BOOLEAN])
        BY <2>1 DEF DeviceExecutes, DeviceRefuses, IInv, AnswerInv, PipeInv
      <3>2. Head(outPipe) \in [frame : OwnRequest, whole : BOOLEAN]
        BY <3>1, SeqParts
      <3>3. Head(outPipe).frame \in OwnRequest
        BY <3>2
      <3>4. \E status \in {"OK", "ERR"}, len \in 0 .. MAX_PAYLOAD :
              inPipe' = inPipe \o Packets(Answer(Head(outPipe).frame, status, len))
        <4>1. 0 \in 0 .. MAX_PAYLOAD /\ RspLens \subseteq 0 .. MAX_PAYLOAD
          BY MuxAssumption DEF MAX_PAYLOAD, MAX_FRAME_LEN, HEADER_LEN
        <4>2. CASE DeviceExecutes
          BY <4>1, <4>2 DEF DeviceExecutes
        <4>3. CASE DeviceRefuses
          BY <4>1, <4>3 DEF DeviceRefuses
        <4> QED
          BY <2>1, <4>2, <4>3
      <3> QED
        BY <3>3, <3>4, AnswerIsGenuine, QueueAnswer
    <2>2. CASE DeviceDiscards \/ Unplug
      <3>1. inPipe' = inPipe \/ inPipe' = <<>>
        BY <2>2 DEF DeviceDiscards, Unplug
      <3>2. \A S : <<>> \in Seq(S)
        OBVIOUS
      <3> QED
        BY <3>1, <3>2 DEF IInv, AnswerInv, PipeInv
    <2>3. CASE DeviceSpeaks
      <3>1. PICK u \in Unsolicited :
              inPipe' = inPipe \o Packets(Spontaneous(u[1], u[2], u[3]))
        BY <2>3 DEF DeviceSpeaks, Speaks
      <3>2. Spontaneous(u[1], u[2], u[3]) \in Frame
        BY SpontaneousType DEF IInv
      <3>3. Spontaneous(u[1], u[2], u[3]).msg_type # "RSP"
        BY MuxAssumption DEF Spontaneous
      <3> QED
        BY <3>1, <3>2, <3>3, QueueAnswer DEF OwnAnswer
    <2> QED
      BY <2>1, <2>2, <2>3 DEF Device
  <1> QED
    BY <1>2, <1>3, <1>4, <1>5 DEF IInv, AnswerInv, PipeInv

LEMMA NextAnswer ==
  ASSUME IInv, TypeInv', [Next]_vars
  PROVE  AnswerInv'
  <1>1. ASSUME NEW c \in Calls, Transact(c) \/ UartWrite(c) PROVE AnswerInv'
    BY <1>1, StartRequestAnswer DEF Transact, UartWrite
  <1>2. ASSUME NEW c \in Calls, UartRead(c) \/ BleReadEvent(c) PROVE AnswerInv'
    BY <1>2, StartReadAnswer
  <1>3. CASE UNCHANGED vars
    <2>1. UNCHANGED <<next_seq, seq, issued, epoch, call, rx, ret, inPipe, outPipe>>
      BY <1>3 DEF vars, hostVars, devVars
    <2>2. NumberInv' /\ OwnRequest' = OwnRequest /\ OwnAnswer' = OwnAnswer
      BY <2>1, NumbersStay DEF IInv, AnswerInv
    <2> QED
      BY <2>1, <2>2 DEF IInv, AnswerInv, PipeInv
  <1> QED
    BY <1>1, <1>2, <1>3, OtherEndsAnswer, WriteFrameAnswer, WriteFailsAnswer,
       ReadPacketAnswer, ReopenAnswer, DeviceAnswer
    DEF Next, Host

-----------------------------------------------------------------------------
(* Only read_frame() gets hold of a frame, and a command returns CH32MUX_OK   *)
(* for no frame that does not match.                                         *)

LEMMA InitResult == Init => ResultInv
  BY DEF ResultInv, Init, NoCall

LEMMA NotOkResult ==
  ASSUME ret'.result # "OK" \/ call'.fn # "transact"
  PROVE  ResultInv'
  BY DEF ResultInv

LEMMA ReadPacketResult ==
  ASSUME ResultInv, ReadPacket
  PROVE  ResultInv'
  <1> DEFINE lead == IF rx.offset = 0 THEN Head(inPipe) ELSE rx.lead
  <1>1. seq' = seq /\ call' = call
    BY DEF ReadPacket
  <1>2. CASE ret' = ret
    BY <1>1, <1>2 DEF ResultInv
  <1>3. CASE ret' # ret
    <2>1. \/ ret'.result \in {"ERR_IO", "ERR_PROTO"}
          \/ ret'.result = Verdict(call, lead.frame) /\ ret'.frame = lead.frame
      BY <1>3 DEF ReadPacket, Return
    <2>2. call.fn = "transact" /\ Verdict(call, lead.frame) = "OK" =>
            lead.frame.msg_type = "RSP" /\ lead.frame.ref_seq = seq
      BY DEF Verdict, Matches
    <2> HIDE DEF lead
    <2> QED
      BY <1>1, <2>1, <2>2 DEF ResultInv
  <1> QED
    BY <1>2, <1>3

LEMMA NextResult ==
  ASSUME ResultInv, [Next]_vars
  PROVE  ResultInv'
  <1>1. ASSUME NEW c \in Calls, Transact(c) \/ UartWrite(c) PROVE ResultInv'
    BY <1>1, NotOkResult, EmptyFramesOwn DEF Transact, UartWrite, StartRequest, Return, BuildErrors
  <1>2. ASSUME NEW c \in Calls, UartRead(c) \/ BleReadEvent(c) PROVE ResultInv'
    BY <1>2, NotOkResult, EmptyFramesOwn DEF UartRead, BleReadEvent, StartRead
  <1>3. CASE RejectArguments \/ Reopen
    BY <1>3, NotOkResult DEF RejectArguments, Reopen, NoCall, uart_write
  <1>4. CASE WriteFrame
    BY <1>4, NotOkResult DEF WriteFrame, ResultInv
  <1>5. CASE WriteFails \/ ReadFails \/ NoDevice
    <2>1. "OK" \notin TransferErrors
      BY DEF TransferErrors
    <2> QED
      BY <1>5, <2>1, NotOkResult DEF WriteFails, ReadFails, NoDevice, Return
  <1>6. CASE Device
    BY <1>6 DEF ResultInv, hostVars, Device, DeviceExecutes, DeviceRefuses, DeviceDiscards,
                DeviceSpeaks, Speaks, Unplug
  <1>7. CASE UNCHANGED vars
    BY <1>7 DEF vars, hostVars, ResultInv
  <1> QED
    BY <1>1, <1>2, <1>3, <1>4, <1>5, <1>6, <1>7, ReadPacketResult DEF Next, Host

-----------------------------------------------------------------------------
(* What the invariant says of an accepted answer.                          *)

\* The request in hand and the accepted answer carry one number.
LEMMA Accepted ==
  ASSUME IInv, ResultInv, call.fn = "transact", ret.result = "OK"
  PROVE  /\ issued \in 1 .. MaxIssued /\ ret.frame.id \in 1 .. MaxIssued
         /\ ret.frame.epoch = epoch => ret.frame.id <= issued
         /\ \E rounds \in -MaxIssued .. MaxIssued :
              issued - ret.frame.id = rounds * SeqMax
  <1>1. issued \in 1 .. MaxIssued /\ Numbered(seq, issued) /\ seq \in 0 .. SeqMax
    BY MuxAssumption DEF IInv, TypeInv, TypeOK, AnswerInv, NumberInv
  <1>2. ret.frame.msg_type = "RSP" /\ ret.frame.ref_seq = seq
    BY DEF ResultInv
  <1>3. Genuine(seq, ret.frame)
    BY <1>2 DEF IInv, AnswerInv, PipeInv, OwnAnswer
  <1> QED
    BY <1>1, <1>3, SameNumber DEF Genuine

\* Every number in the pipes, and in what a call returned, belongs to its request.
THEOREM InductiveInvariant == Spec => [](IInv /\ ResultInv)
  <1>1. Init => IInv /\ ResultInv
    BY InitType, InitAnswer, InitResult DEF IInv
  <1>2. IInv /\ ResultInv /\ [Next]_vars => (IInv /\ ResultInv)'
    BY NextType, NextAnswer, NextResult DEF IInv
  <1> QED
    BY <1>1, <1>2, PTL DEF Spec

\* However late answers come, in whatever order requests, timeouts, events and
\* new sessions follow, for 65535 numbers or any other count: an answer is
\* mistaken for another one only across a whole number of rounds.
THEOREM OnlyAWholeRoundConfuses == Spec => []AnswersCoincide
  <1>1. IInv /\ ResultInv => AnswersCoincide
    BY Accepted DEF AnswersCoincide
  <1> QED
    BY <1>1, InductiveInvariant, PTL

\* Within a session and a round it is the same request.
LEMMA OwnInWindow ==
  ASSUME IInv, ResultInv, SucceededInWindow
  PROVE  ret.frame.id = issued
  <1>1. /\ issued \in 1 .. MaxIssued /\ ret.frame.id \in 1 .. MaxIssued
        /\ ret.frame.id <= issued /\ issued - ret.frame.id < SeqMax
    BY Accepted DEF SucceededInWindow
  <1>2. PICK rounds \in -MaxIssued .. MaxIssued :
          issued - ret.frame.id = rounds * SeqMax
    BY Accepted DEF SucceededInWindow
  <1>3. issued - ret.frame.id = 0
    BY <1>1, <1>2, NoRounds, MuxAssumption
  <1> QED
    BY <1>1, <1>3

\* Within a session and a round, CH32MUX_OK means the answer to this request.
THEOREM AnswersAreOwn == Spec => []AnswerIsOwn
  <1>1. IInv /\ ResultInv => AnswerIsOwn
    BY OwnInWindow DEF AnswerIsOwn
  <1> QED
    BY <1>1, InductiveInvariant, PTL

-----------------------------------------------------------------------------
(* The order of frames.                                                    *)

\* f was written before g.
Before(f, g) == f.epoch < g.epoch \/ (f.epoch = g.epoch /\ f.id < g.id)

\* f belongs to the last request drawn, or is the answer to it.
Current(f)   == f.epoch = epoch /\ f.id = issued
OwnReply(f)  == f.msg_type = "RSP" /\ Current(f)

\* What has come or is about to come from the device.
Incoming == {inPipe[i].frame : i \in 1 .. Len(inPipe)} \cup {rx.lead.frame, ret.frame}

\* The port is as the answered command wanted it.
Effect(f) ==
  /\ f.ch_type = "UART_CTRL" /\ f.opcode = 3 => f.ch_id \in openPorts
  /\ f.ch_type = "UART_CTRL" /\ f.opcode = 4 => f.ch_id \notin openPorts

InOrder ==
  \A i, j \in 1 .. Len(outPipe) : i < j => Before(outPipe[i].frame, outPipe[j].frame)

Unsent ==
  pc = "write" => /\ \A i \in 1 .. Len(outPipe) : ~ Current(outPipe[i].frame)
                  /\ \A f \in Incoming : ~ OwnReply(f)

Settled ==
  \A f \in Incoming :
    OwnReply(f) => /\ outPipe = <<>>
                   /\ plugged /\ f.status = "OK" => Effect(f)

Fits ==
  call.fn = "transact" /\ ret.result = "OK" =>
    /\ ret.frame.status = "OK" /\ ret.frame.ch_type = call.ch_type
    /\ ret.frame.ch_id = call.ch_id /\ ret.frame.opcode = call.opcode

PipesInv == InOrder /\ Unsent /\ Settled

OrderInv == PipesInv /\ Fits

-----------------------------------------------------------------------------
(* What is known of the frames in the pipes.                               *)

LEMMA WrittenFrames ==
  ASSUME IInv, NEW i \in 1 .. Len(outPipe)
  PROVE  /\ outPipe[i].frame \in OwnRequest
         /\ outPipe[i].frame.id \in Int /\ outPipe[i].frame.epoch \in Int
         /\ outPipe[i].frame.epoch <= epoch
         /\ outPipe[i].frame.epoch = epoch => outPipe[i].frame.id <= issued
  <1> DEFINE T == [frame : OwnRequest, whole : BOOLEAN]
  <1>1. outPipe[i] \in T
    <2>1. outPipe \in Seq(T)
      BY DEF IInv, AnswerInv, PipeInv
    <2> HIDE DEF T
    <2> QED
      BY <2>1
  <1>2. outPipe[i].frame \in OwnRequest
    BY <1>1
  <1> QED
    BY <1>2 DEF OwnRequest, Genuine, Frame

LEMMA IncomingFrames ==
  ASSUME IInv, NEW f \in Incoming
  PROVE  /\ f \in OwnAnswer
         /\ f.id \in Int /\ f.epoch \in Int
         /\ f.msg_type = "RSP" => f.epoch <= epoch /\ (f.epoch = epoch => f.id <= issued)
  <1>1. f \in OwnAnswer
    <2> DEFINE T == [frame : OwnAnswer, index : Nat, len : 0 .. EP_PACKET_SIZE]
    <2>1. \A i \in 1 .. Len(inPipe) : inPipe[i] \in T
      <3>1. inPipe \in Seq(T)
        BY DEF IInv, AnswerInv, PipeInv
      <3> HIDE DEF T
      <3> QED
        BY <3>1
    <2> QED
      BY <2>1 DEF Incoming, IInv, AnswerInv, PipeInv
  <1> QED
    BY <1>1 DEF OwnAnswer, Genuine, Frame

LEMMA NoFrameIsNoReply == NoFrame.msg_type # "RSP" /\ EmptyRx.lead.frame = NoFrame
  BY DEF NoFrame, EmptyRx

\* Nothing new comes in when the pipe from the device keeps or loses packets.
LEMMA NothingComes ==
  ASSUME NEW S, inPipe \in Seq(S),
         \/ inPipe' = inPipe \/ inPipe' = <<>>
         \/ inPipe # <<>> /\ inPipe' = Tail(inPipe),
         rx'.lead.frame \in Incoming \cup {NoFrame}, ret'.frame \in Incoming \cup {NoFrame}
  PROVE  \A f \in Incoming' : f \in Incoming \/ f.msg_type # "RSP"
  <1>1. \A i \in 1 .. Len(inPipe') : \E j \in 1 .. Len(inPipe) : inPipe'[i] = inPipe[j]
    <2>1. CASE inPipe' = inPipe
      BY <2>1
    <2>2. CASE inPipe' = <<>>
      BY <2>2
    <2>3. CASE inPipe # <<>> /\ inPipe' = Tail(inPipe)
      <3>1. \A i \in 1 .. Len(inPipe') : i + 1 \in 1 .. Len(inPipe) /\ inPipe'[i] = inPipe[i + 1]
        BY <2>3
      <3> QED
        BY <3>1
    <2> QED
      BY <2>1, <2>2, <2>3
  <1>2. \A i \in 1 .. Len(inPipe') : inPipe'[i].frame \in Incoming
    BY <1>1 DEF Incoming
  <1> QED
    BY <1>2, NoFrameIsNoReply DEF Incoming

\* A frame is queued, and it is all that comes in.
LEMMA FrameComes ==
  ASSUME IInv, NEW f \in Frame, inPipe' = inPipe \o Packets(f), UNCHANGED <<rx, ret>>
  PROVE  \A g \in Incoming' : g \in Incoming \/ g = f
  <1>1. /\ Packets(f) \in Seq(Packet)
        /\ \A i \in 1 .. Len(Packets(f)) : Packets(f)[i].frame = f
    BY PacketsType
  <1>2. inPipe \in Seq(Packet)
    BY DEF IInv, TypeInv, TypeOK
  <1>3. \A i \in 1 .. Len(inPipe') :
          \/ i \in 1 .. Len(inPipe) /\ inPipe'[i] = inPipe[i]
          \/ /\ i - Len(inPipe) \in 1 .. Len(Packets(f))
             /\ inPipe'[i] = Packets(f)[i - Len(inPipe)]
    BY <1>1, <1>2
  <1>4. \A i \in 1 .. Len(inPipe') : inPipe'[i].frame \in Incoming \/ inPipe'[i].frame = f
    BY <1>1, <1>3 DEF Incoming
  <1> QED
    BY <1>4 DEF Incoming

\* What a packet that is read leads to.
LEMMA ReadOutcomes ==
  ASSUME TypeInv, ReadPacket
  PROVE  LET p      == Head(inPipe)
             lead   == IF rx.offset = 0 THEN p ELSE rx.lead
             got    == rx.offset + p.len
             intact == (p.index - 1) * 64 = rx.offset /\ rx.intact /\ p.frame = lead.frame
         IN \/ /\ rx' = [offset |-> got, lead |-> lead, intact |-> intact]
               /\ p.len # 0 /\ (lead.index = 1 => got < 24 \/ got < TotalLen(lead.frame))
               /\ UNCHANGED <<pc, ret>>
            \/ \E e \in {"ERR_IO", "ERR_PROTO"} :
                 /\ e = "ERR_PROTO" => lead.index # 1
                 /\ Return(e, NoFrame, TRUE)
            \/ /\ lead.index = 1
               /\ Return(Verdict(call, lead.frame), lead.frame, intact)
  <1> DEFINE p      == Head(inPipe)
             lead   == IF rx.offset = 0 THEN p ELSE rx.lead
             got    == rx.offset + p.len
             intact == (p.index - 1) * 64 = rx.offset /\ rx.intact /\ p.frame = lead.frame
  <1>1. \/ p.len = 0 /\ Return("ERR_IO", NoFrame, TRUE)
        \/ /\ p.len # 0
           /\ lead.index = 1 => got < 24 \/ got < TotalLen(lead.frame)
           /\ rx' = [offset |-> got, lead |-> lead, intact |-> intact]
           /\ UNCHANGED <<pc, ret>>
        \/ lead.index # 1 /\ Return("ERR_PROTO", NoFrame, TRUE)
        \/ lead.index = 1 /\ Return(Verdict(call, lead.frame), lead.frame, intact)
    BY DEF ReadPacket, Decodes, EP_PACKET_SIZE, HEADER_LEN
  <1> HIDE DEF lead, intact, got
  <1>2. CASE /\ p.len # 0 /\ (lead.index = 1 => got < 24 \/ got < TotalLen(lead.frame))
             /\ rx' = [offset |-> got, lead |-> lead, intact |-> intact]
             /\ UNCHANGED <<pc, ret>>
    BY <1>2 DEF lead, got, intact
  <1>3. CASE \/ p.len = 0 /\ Return("ERR_IO", NoFrame, TRUE)
             \/ lead.index # 1 /\ Return("ERR_PROTO", NoFrame, TRUE)
    BY <1>3 DEF lead, got
  <1>4. CASE lead.index = 1 /\ Return(Verdict(call, lead.frame), lead.frame, intact)
    BY <1>4 DEF lead, intact
  <1> QED
    BY <1>1, <1>2, <1>3, <1>4

\* Only the answer to a request brings in a response.
LEMMA NoReplyComes ==
  ASSUME IInv, Host \/ DeviceDiscards \/ DeviceSpeaks \/ Unplug \/ UNCHANGED vars
  PROVE  \A f \in Incoming' : f \in Incoming \/ f.msg_type # "RSP"
  <1>1. inPipe \in Seq(Packet)
    BY DEF IInv, TypeInv, TypeOK
  <1>2. CASE ReadPacket
    <2>1. inPipe # <<>> /\ inPipe' = Tail(inPipe)
      BY <1>2 DEF ReadPacket
    <2>2. 1 \in 1 .. Len(inPipe) /\ Head(inPipe) = inPipe[1]
      BY <1>1, <2>1
    <2>3. /\ rx'.lead.frame \in Incoming \cup {NoFrame}
          /\ ret'.frame \in Incoming \cup {NoFrame}
      BY <1>2, <2>2, ReadOutcomes, EmptyFramesOwn DEF Return, Incoming, IInv
    <2> QED
      BY <1>1, <2>1, <2>3, NothingComes
  <1>3. CASE \/ Host /\ ~ ReadPacket
             \/ DeviceDiscards \/ Unplug \/ UNCHANGED vars
    <2>1. inPipe' = inPipe \/ inPipe' = <<>>
      BY <1>3 DEF Host, Transact, UartWrite, UartRead, BleReadEvent, StartRequest, StartRead,
                  RejectArguments, WriteFrame, WriteFails, ReadFails, NoDevice, Reopen,
                  DeviceDiscards, Unplug, vars, devVars
    <2>2. \/ rx' = rx /\ ret' = ret
          \/ rx' = EmptyRx /\ ret' = NoRet
          \/ \E e : Return(e, NoFrame, TRUE)
      BY <1>3 DEF Host, Transact, UartWrite, UartRead, BleReadEvent, StartRequest, StartRead,
                  RejectArguments, WriteFrame, WriteFails, ReadFails, NoDevice, Reopen,
                  DeviceDiscards, Unplug, vars, hostVars
    <2>3. /\ rx'.lead.frame \in Incoming \cup {NoFrame}
          /\ ret'.frame \in Incoming \cup {NoFrame}
      BY <2>2, EmptyFramesOwn DEF Return, Incoming
    <2> QED
      BY <1>1, <2>1, <2>3, NothingComes
  <1>4. CASE DeviceSpeaks
    <2>1. PICK u \in Unsolicited : inPipe' = inPipe \o Packets(Spontaneous(u[1], u[2], u[3]))
      BY <1>4 DEF DeviceSpeaks, Speaks
    <2> DEFINE f == Spontaneous(u[1], u[2], u[3])
    <2>2. f \in Frame /\ f.msg_type # "RSP"
      BY MuxAssumption, SpontaneousType DEF Spontaneous, IInv
    <2> HIDE DEF f
    <2>3. \A g \in Incoming' : g \in Incoming \/ g = f
      BY <1>4, <2>1, <2>2, FrameComes DEF DeviceSpeaks, Speaks, hostVars, f
    <2> QED
      BY <2>2, <2>3
  <1> QED
    BY <1>2, <1>3, <1>4

\* A command is answered, and the answer is all that comes in.
LEMMA AnswerComes ==
  ASSUME IInv, DeviceExecutes \/ DeviceRefuses
  PROVE  \E status \in {"OK", "ERR"}, len \in RspLens \cup {0} :
           LET a == Answer(Head(outPipe).frame, status, len)
           IN /\ a \in Frame /\ inPipe' = inPipe \o Packets(a)
              /\ status = "OK" => DeviceExecutes
              /\ \A f \in Incoming' : f \in Incoming \/ f = a
  <1> DEFINE req == Head(outPipe).frame
  <1>1. req \in Frame
    <2>1. outPipe # <<>> /\ outPipe \in Seq(Written)
      BY DEF DeviceExecutes, DeviceRefuses, IInv, TypeInv, TypeOK
    <2>2. Head(outPipe) \in Written
      BY <2>1, SeqParts
    <2> QED
      BY <2>2 DEF Written
  <1>2. PICK status \in {"OK", "ERR"}, len \in RspLens \cup {0} :
          /\ inPipe' = inPipe \o Packets(Answer(req, status, len))
          /\ status = "OK" => DeviceExecutes
    <2>1. CASE DeviceExecutes
      BY <2>1 DEF DeviceExecutes
    <2>2. CASE DeviceRefuses
      BY <2>2 DEF DeviceRefuses
    <2> QED
      BY <2>1, <2>2
  <1> DEFINE a == Answer(req, status, len)
  <1>3. a \in Frame
    <2>1. len \in 0 .. MAX_PAYLOAD
      BY MuxAssumption DEF MAX_PAYLOAD, MAX_FRAME_LEN, HEADER_LEN
    <2> QED
      BY <1>1, <2>1, AnswerType
  <1> HIDE DEF a
  <1>4. \A f \in Incoming' : f \in Incoming \/ f = a
    BY <1>2, <1>3, FrameComes DEF DeviceExecutes, DeviceRefuses, hostVars, a
  <1> QED
    BY <1>2, <1>3, <1>4 DEF a

-----------------------------------------------------------------------------
(* Every step preserves PipesInv.                                          *)

\* Steps that write no request and answer none.
LEMMA QuietStep ==
  ASSUME IInv, PipesInv, UNCHANGED <<issued, epoch>>,
         \/ outPipe' = outPipe \/ outPipe' = <<>>
         \/ outPipe # <<>> /\ outPipe' = Tail(outPipe),
         \A f \in Incoming' : f \in Incoming \/ f.msg_type # "RSP",
         pc' = "write" => pc = "write",
         plugged' => plugged /\ openPorts' = openPorts
  PROVE  PipesInv'
  <1>1. outPipe \in Seq([frame : OwnRequest, whole : BOOLEAN])
    BY DEF IInv, AnswerInv, PipeInv
  <1>2. /\ InOrder'
        /\ (\A i \in 1 .. Len(outPipe) : ~ Current(outPipe[i].frame)) =>
              \A i \in 1 .. Len(outPipe') : ~ Current(outPipe'[i].frame)
        /\ outPipe = <<>> => outPipe' = <<>>
    <2>1. CASE outPipe' = outPipe
      BY <2>1 DEF PipesInv, InOrder
    <2>2. CASE outPipe' = <<>>
      BY <2>2 DEF InOrder
    <2>3. CASE outPipe # <<>> /\ outPipe' = Tail(outPipe)
      <3>1. \A i \in 1 .. Len(outPipe') :
              i + 1 \in 1 .. Len(outPipe) /\ outPipe'[i] = outPipe[i + 1]
        BY <1>1, <2>3
      <3>2. \A i, j \in 1 .. Len(outPipe') : i < j => i + 1 < j + 1
        OBVIOUS
      <3> QED
        BY <2>3, <3>1, <3>2 DEF PipesInv, InOrder
    <2> QED
      BY <2>1, <2>2, <2>3
  <1>3. \A f \in Incoming' : OwnReply(f)' => f \in Incoming /\ OwnReply(f)
    BY DEF OwnReply, Current
  <1>4. Unsent'
    BY <1>2, <1>3 DEF PipesInv, Unsent, Current
  <1>5. Settled'
    BY <1>2, <1>3 DEF PipesInv, Settled, Effect
  <1> QED
    BY <1>2, <1>4, <1>5 DEF PipesInv

LEMMA StartRequestOrder ==
  ASSUME IInv, PipesInv, NEW c \in Calls, Transact(c) \/ UartWrite(c)
  PROVE  PipesInv'
  <1>1. /\ issued \in Nat /\ issued' = issued + 1 /\ epoch' = epoch
        /\ outPipe' = outPipe /\ inPipe' = inPipe
    <2>1. StartRequest(c)
      BY DEF Transact, UartWrite
    <2> QED
      BY <2>1 DEF StartRequest, devVars, IInv, TypeInv, TypeOK
  <1>2. \A f \in Incoming' : f \in Incoming \/ f.msg_type # "RSP"
    BY NoReplyComes DEF Host
  <1>3. ASSUME NEW i \in 1 .. Len(outPipe)
        PROVE  outPipe[i].frame.epoch # epoch' \/ outPipe[i].frame.id # issued'
    <2>1. /\ outPipe[i].frame.id \in Int
          /\ outPipe[i].frame.epoch = epoch => outPipe[i].frame.id <= issued
      BY WrittenFrames
    <2> QED
      BY <1>1, <2>1
  <1>4. \A f \in Incoming' : ~ OwnReply(f)'
    BY <1>1, <1>2, IncomingFrames DEF OwnReply, Current
  <1>5. InOrder' /\ Settled'
    BY <1>1, <1>4 DEF PipesInv, InOrder, Settled
  <1>6. Unsent'
    BY <1>1, <1>3, <1>4 DEF Unsent, Current
  <1> QED
    BY <1>5, <1>6 DEF PipesInv

LEMMA ReopenOrder ==
  ASSUME IInv, PipesInv, Reopen
  PROVE  PipesInv'
  <1>1. /\ epoch \in Nat /\ epoch' = epoch + 1
        /\ \/ outPipe' = outPipe /\ inPipe' = inPipe
           \/ outPipe' = <<>> /\ inPipe' = <<>>
        /\ pc' = "idle"
    BY MuxAssumption DEF Reopen, IInv, TypeInv, TypeOK
  <1>2. \A f \in Incoming' : f \in Incoming \/ f.msg_type # "RSP"
    BY NoReplyComes DEF Host
  <1>3. \A f \in Incoming' : ~ OwnReply(f)'
    BY <1>1, <1>2, IncomingFrames DEF OwnReply, Current
  <1>4. InOrder'
    BY <1>1 DEF PipesInv, InOrder
  <1> QED
    BY <1>1, <1>3, <1>4 DEF PipesInv, Unsent, Settled

\* The request in hand is younger than all others in the pipe.
LEMMA WriteOrder ==
  ASSUME IInv, PipesInv, WriteFrame \/ WriteFails
  PROVE  PipesInv'
  <1>1. /\ pc = "write" /\ pc' # "write"
        /\ UNCHANGED <<issued, epoch, inPipe>>
    BY DEF WriteFrame, WriteFails, Return
  <1>2. \A f \in Incoming' : f \in Incoming \/ f.msg_type # "RSP"
    BY NoReplyComes DEF Host
  <1>3. \A f \in Incoming' : ~ OwnReply(f)'
    BY <1>1, <1>2 DEF PipesInv, Unsent, OwnReply, Current
  <1>4. InOrder'
    <2>1. CASE outPipe' = outPipe
      BY <2>1 DEF PipesInv, InOrder
    <2>2. CASE \E whole \in BOOLEAN : Sent(whole)
      <3>1. PICK whole \in BOOLEAN :
              outPipe' = Append(outPipe, [frame |-> Request, whole |-> whole])
        BY <2>2 DEF Sent
      <3>2. outPipe \in Seq([frame : OwnRequest, whole : BOOLEAN])
        BY DEF IInv, AnswerInv, PipeInv
      <3>3. /\ Len(outPipe') = Len(outPipe) + 1
            /\ \A i \in 1 .. Len(outPipe) : outPipe'[i] = outPipe[i]
            /\ outPipe'[Len(outPipe) + 1].frame = Request
        BY <3>1, <3>2
      <3>4. Request.id = issued /\ Request.epoch = epoch
        BY DEF Request
      <3>5. issued \in Int /\ epoch \in Int
        BY MuxAssumption DEF IInv, TypeInv, TypeOK
      <3>6. \A i \in 1 .. Len(outPipe) : Before(outPipe[i].frame, Request)
        BY <1>1, <3>4, <3>5, WrittenFrames DEF PipesInv, Unsent, Current, Before
      <3>7. \A i, j \in 1 .. Len(outPipe') :
              i < j => i \in 1 .. Len(outPipe) /\ (j \in 1 .. Len(outPipe) \/ j = Len(outPipe) + 1)
        BY <3>2, <3>3
      <3> QED
        BY <3>3, <3>6, <3>7 DEF PipesInv, InOrder
    <2> QED
      BY <2>1, <2>2 DEF WriteFrame, WriteFails
  <1> QED
    BY <1>1, <1>3, <1>4 DEF PipesInv, Unsent, Settled

\* When the request in hand is at the head, it is the only one left.
LEMMA CurrentIsLast ==
  ASSUME IInv, PipesInv, outPipe # <<>>, Current(Head(outPipe).frame)
  PROVE  Tail(outPipe) = <<>>
  <1>1. outPipe \in Seq([frame : OwnRequest, whole : BOOLEAN])
    BY DEF IInv, AnswerInv, PipeInv
  <1>2. 1 \in 1 .. Len(outPipe) /\ Head(outPipe) = outPipe[1]
    BY <1>1
  <1>3. ASSUME 2 \in 1 .. Len(outPipe) PROVE FALSE
    <2>1. Before(outPipe[1].frame, outPipe[2].frame)
      BY <1>2, <1>3 DEF PipesInv, InOrder
    <2>2. /\ outPipe[2].frame.id \in Int /\ outPipe[2].frame.epoch \in Int
          /\ outPipe[2].frame.epoch <= epoch
          /\ outPipe[2].frame.epoch = epoch => outPipe[2].frame.id <= issued
      BY <1>3, WrittenFrames
    <2>3. issued \in Int /\ epoch \in Int
      BY MuxAssumption DEF IInv, TypeInv, TypeOK
    <2> QED
      BY <1>2, <2>1, <2>2, <2>3 DEF Before, Current
  <1> QED
    BY <1>1, <1>2, <1>3

\* A command is answered.
LEMMA AnswerOrder ==
  ASSUME IInv, PipesInv, DeviceExecutes \/ DeviceRefuses
  PROVE  PipesInv'
  <1> DEFINE req == Head(outPipe).frame
  <1>13. /\ outPipe # <<>> /\ outPipe' = Tail(outPipe)
        /\ UNCHANGED <<pc, rx, ret, plugged, issued, epoch>>
    BY DEF DeviceExecutes, DeviceRefuses, hostVars
  <1>14. outPipe \in Seq([frame : OwnRequest, whole : BOOLEAN])
    BY DEF IInv, AnswerInv, PipeInv
  <1>3. 1 \in 1 .. Len(outPipe) /\ Head(outPipe) = outPipe[1]
    BY <1>13, <1>14
  <1>4. req \in OwnRequest /\ req \in Frame
    BY <1>3, WrittenFrames DEF OwnRequest
  <1>5. PICK status \in {"OK", "ERR"}, len \in RspLens \cup {0} :
          LET a == Answer(req, status, len)
          IN /\ a \in Frame /\ inPipe' = inPipe \o Packets(a)
             /\ status = "OK" => DeviceExecutes
             /\ \A f \in Incoming' : f \in Incoming \/ f = a
    BY AnswerComes
  <1> DEFINE a == Answer(req, status, len)
  <1>6. /\ a.epoch = req.epoch /\ a.id = req.id /\ a.status = status
        /\ a.ch_type = req.ch_type /\ a.ch_id = req.ch_id /\ a.opcode = req.opcode
    BY <1>4 DEF Answer, Frame
  <1>7. \A f \in Incoming' : f \in Incoming \/ f = a
    BY <1>5
  <1>8. \A f \in Incoming : ~ OwnReply(f)
    BY <1>13 DEF PipesInv, Settled
  <1>9. /\ InOrder'
        /\ \A i \in 1 .. Len(outPipe') :
             i + 1 \in 1 .. Len(outPipe) /\ outPipe'[i] = outPipe[i + 1]
    <2>1. \A i \in 1 .. Len(outPipe') :
            i + 1 \in 1 .. Len(outPipe) /\ outPipe'[i] = outPipe[i + 1]
      BY <1>13, <1>14
    <2>2. \A i, j \in 1 .. Len(outPipe') : i < j => i + 1 < j + 1
      OBVIOUS
    <2> QED
      BY <2>1, <2>2 DEF PipesInv, InOrder
  <1> HIDE DEF a
  <1>10. \A f \in Incoming' : OwnReply(f)' => f = a /\ Current(req)
    BY <1>13, <1>6, <1>7, <1>8 DEF OwnReply, Current
  <1>11. Unsent'
    BY <1>13, <1>3, <1>9, <1>10 DEF PipesInv, Unsent, Current
  <1>12. Settled'
    <2> SUFFICES ASSUME NEW f \in Incoming', f = a, Current(req)
                 PROVE  /\ outPipe' = <<>>
                        /\ f.status = "OK" => Effect(f)'
      BY <1>10 DEF Settled
    <2>1. outPipe' = <<>>
      BY <1>13, CurrentIsLast
    <2>2. ASSUME f.status = "OK" PROVE Effect(f)'
      <3>1. openPorts' =
              IF req.ch_type = "UART_CTRL" /\ req.opcode = 3 THEN openPorts \cup {req.ch_id}
              ELSE IF req.ch_type = "UART_CTRL" /\ req.opcode = 4 THEN openPorts \ {req.ch_id}
              ELSE openPorts
        BY <1>5, <1>6, <2>2 DEF DeviceExecutes
      <3> HIDE DEF req
      <3> QED
        BY <1>6, <3>1 DEF Effect
    <2> QED
      BY <2>1, <2>2
  <1> QED
    BY <1>9, <1>11, <1>12 DEF PipesInv
\* Calls that begin without a request or end, packets that are read or lost,
\* frames the device starts or throws away, and nothing at all.
LEMMA OtherOrder ==
  ASSUME IInv, PipesInv,
         \/ \E c \in Calls : UartRead(c) \/ BleReadEvent(c)
         \/ RejectArguments \/ ReadPacket \/ ReadFails \/ NoDevice
         \/ DeviceDiscards \/ DeviceSpeaks \/ Unplug \/ UNCHANGED vars
  PROVE  PipesInv'
  <1>13. CASE \/ \E c \in Calls : UartRead(c) \/ BleReadEvent(c)
             \/ RejectArguments \/ ReadPacket \/ ReadFails \/ NoDevice
    <2>1. /\ UNCHANGED <<outPipe, plugged, openPorts, issued, epoch>>
          /\ pc' = "write" => pc = "write"
      BY <1>13 DEF UartRead, BleReadEvent, StartRead, RejectArguments, ReadPacket, ReadFails,
                  NoDevice, Return, devVars
    <2>2. \A f \in Incoming' : f \in Incoming \/ f.msg_type # "RSP"
      BY <1>13, NoReplyComes DEF Host
    <2> QED
      BY <2>1, <2>2, QuietStep
  <1>14. CASE DeviceDiscards \/ DeviceSpeaks \/ Unplug \/ UNCHANGED vars
    <2>1. /\ UNCHANGED <<pc, rx, ret, issued, epoch>>
          /\ \/ outPipe' = outPipe \/ outPipe' = <<>>
             \/ outPipe # <<>> /\ outPipe' = Tail(outPipe)
          /\ plugged' => plugged /\ openPorts' = openPorts
      BY <1>14 DEF DeviceDiscards, DeviceSpeaks, Speaks, Unplug, hostVars, devVars, vars
    <2>2. \A f \in Incoming' : f \in Incoming \/ f.msg_type # "RSP"
      BY <1>14, NoReplyComes
    <2> QED
      BY <2>1, <2>2, QuietStep
  <1> QED
    BY <1>13, <1>14

LEMMA NextOrder ==
  ASSUME IInv, PipesInv, [Next]_vars
  PROVE  PipesInv'
  BY StartRequestOrder, OtherOrder, WriteOrder, ReopenOrder, AnswerOrder
  DEF Next, Host, Device

\* A command succeeds only in ReadPacket, on a frame that matches it.
LEMMA NextFits ==
  ASSUME IInv, Fits, [Next]_vars
  PROVE  Fits'
  <1>1. CASE ReadPacket
    <2>1. call' = call
      BY <1>1 DEF ReadPacket
    <2> DEFINE lead == IF rx.offset = 0 THEN Head(inPipe) ELSE rx.lead
    <2>2. \/ ret' = ret
          \/ ret'.result # "OK"
          \/ ret'.result = Verdict(call, lead.frame) /\ ret'.frame = lead.frame
      BY <1>1, ReadOutcomes DEF Return, IInv
    <2> HIDE DEF lead
    <2>3. call.fn = "transact" /\ Verdict(call, lead.frame) = "OK" =>
            /\ lead.frame.status = "OK" /\ lead.frame.ch_type = call.ch_type
            /\ lead.frame.ch_id = call.ch_id /\ lead.frame.opcode = call.opcode
      BY DEF Verdict, Matches, TakeResponse
    <2> QED
      BY <2>1, <2>2, <2>3 DEF Fits
  <1>2. CASE \E c \in Calls : Transact(c) \/ UartWrite(c) \/ UartRead(c) \/ BleReadEvent(c)
    BY <1>2, EmptyFramesOwn
    DEF Transact, UartWrite, UartRead, BleReadEvent, StartRequest, StartRead, BuildErrors,
        Return, Fits
  <1>3. CASE WriteFrame
    BY <1>3, EmptyFramesOwn DEF WriteFrame, Return, Fits
  <1>4. CASE WriteFails \/ ReadFails \/ NoDevice \/ RejectArguments \/ Reopen
    <2>1. ret'.result # "OK"
      BY <1>4, EmptyFramesOwn
      DEF WriteFails, ReadFails, NoDevice, RejectArguments, Reopen, Return, TransferErrors
    <2> QED
      BY <2>1 DEF Fits
  <1>5. CASE Device \/ UNCHANGED vars
    <2>1. UNCHANGED <<call, ret>>
      BY <1>5 DEF Device, DeviceExecutes, DeviceRefuses, DeviceDiscards, DeviceSpeaks, Speaks,
                  Unplug, vars, hostVars
    <2> QED
      BY <2>1 DEF Fits
  <1> QED
    BY <1>1, <1>2, <1>3, <1>4, <1>5 DEF Next, Host

LEMMA InitOrder == Init => OrderInv
  <1> SUFFICES ASSUME Init PROVE OrderInv
    OBVIOUS
  <1>1. Len(outPipe) = 0 /\ Len(inPipe) = 0
    BY DEF Init
  <1>2. \A f \in Incoming : f.msg_type # "RSP"
    BY <1>1, EmptyFramesOwn, NoFrameIsNoReply DEF Incoming, Init
  <1>3. PipesInv
    BY <1>1, <1>2 DEF PipesInv, InOrder, Unsent, Settled, OwnReply, Init
  <1>4. Fits
    BY DEF Fits, Init, NoCall
  <1> QED
    BY <1>3, <1>4 DEF OrderInv

\* The invariant the theorems about the pipes rest on.
THEOREM OrderInvariant == Spec => [](IInv /\ ResultInv /\ OrderInv)
  <1>1. IInv /\ OrderInv /\ [Next]_vars => OrderInv'
    BY NextOrder, NextFits DEF OrderInv
  <1> QED
    BY <1>1, InitOrder, InductiveInvariant, PTL DEF Spec

\* CH32MUX_OK from an open or a close means that the port is open or closed
\* and that no request is left behind that could change it, for any calls,
\* any depth of the pipes, any timeouts and late answers in between.
THEOREM OkIsDone == Spec => []OkMeansDone
  <1>1. IInv /\ ResultInv /\ OrderInv => OkMeansDone
    <2> SUFFICES ASSUME IInv, ResultInv, OrderInv, SucceededInWindow, plugged
                 PROVE  /\ outPipe = <<>>
                        /\ OpensPort(call)  => call.ch_id \in openPorts
                        /\ ClosesPort(call) => call.ch_id \notin openPorts
      BY DEF OkMeansDone
    <2>1. ret.frame.id = issued
      BY OwnInWindow
    <2>2. OwnReply(ret.frame)
      BY <2>1 DEF OwnReply, Current, SucceededInWindow, ResultInv
    <2>3. ret.frame \in Incoming
      BY DEF Incoming
    <2> QED
      BY <2>2, <2>3
      DEF OrderInv, PipesInv, Settled, Fits, Effect, SucceededInWindow, OpensPort, ClosesPort
  <1> QED
    BY <1>1, OrderInvariant, PTL
-----------------------------------------------------------------------------
(* A packet left over makes a command fail.                                *)

\* With a packet in the pipe before the request was written, the one frame the
\* command reads is not its answer.
BlockInv ==
  /\ pc = "write" => line = "busy"
  /\ line = "backlog" /\ call.fn = "transact" =>
       /\ ~ OwnReply(rx.lead.frame) /\ ~ OwnReply(ret.frame)
       /\ pc = "read" /\ rx.offset = 0 /\ plugged =>
            inPipe # <<>> /\ ~ OwnReply(Head(inPipe).frame)

LEMMA HeadStays ==
  ASSUME NEW S, NEW T, NEW q \in Seq(S), NEW r \in Seq(T), q # <<>>
  PROVE  q \o r # <<>> /\ Head(q \o r) = Head(q)
  <1>1. Len(q) > 0 /\ Len(q \o r) = Len(q) + Len(r) /\ Len(r) \in Nat /\ Len(q) \in Nat
    OBVIOUS
  <1>2. (q \o r)[1] = q[1]
    BY <1>1
  <1>3. q \o r \in Seq(S \cup T)
    OBVIOUS
  <1> QED
    BY <1>1, <1>2, <1>3

LEMMA DeviceBlock ==
  ASSUME IInv, BlockInv, Device
  PROVE  BlockInv'
  <1>1. /\ UNCHANGED <<pc, call, rx, ret, issued, epoch>>
        /\ line' = line \/ (line = "quiet" /\ line' = "busy")
        /\ plugged' => plugged
    BY DEF Device, DeviceExecutes, DeviceRefuses, DeviceDiscards, DeviceSpeaks, Speaks, Unplug,
           hostVars
  <1>2. inPipe \in Seq(Packet) /\ inPipe' \in Seq(Packet)
    <2>1. inPipe' \in Seq([frame : OwnAnswer, index : Nat, len : 0 .. EP_PACKET_SIZE])'
      BY NextAnswer, NextType DEF IInv, AnswerInv, PipeInv, Next
    <2> QED
      BY <2>1, NextType DEF IInv, TypeInv, TypeOK, Next
  <1>3. plugged' => \/ inPipe' = inPipe
                    \/ \E f \in Frame : inPipe' = inPipe \o Packets(f)
    <2>1. CASE DeviceExecutes \/ DeviceRefuses
      <3>1. outPipe # <<>> /\ outPipe \in Seq(Written)
        BY <2>1 DEF DeviceExecutes, DeviceRefuses, IInv, TypeInv, TypeOK
      <3>2. Head(outPipe) \in Written
        BY <3>1, SeqParts
      <3>3. 0 \in 0 .. MAX_PAYLOAD /\ RspLens \subseteq 0 .. MAX_PAYLOAD
        BY MuxAssumption DEF MAX_PAYLOAD, MAX_FRAME_LEN, HEADER_LEN
      <3>4. \A status \in {"OK", "ERR"}, len \in 0 .. MAX_PAYLOAD :
              Answer(Head(outPipe).frame, status, len) \in Frame
        BY <3>2, AnswerType DEF Written
      <3> QED
        BY <2>1, <3>3, <3>4 DEF DeviceExecutes, DeviceRefuses
    <2>2. CASE DeviceSpeaks
      BY <2>2, SpontaneousType DEF DeviceSpeaks, Speaks, IInv
    <2>3. CASE DeviceDiscards \/ Unplug
      BY <2>3 DEF DeviceDiscards, Unplug
    <2> QED
      BY <2>1, <2>2, <2>3 DEF Device
  <1>4. plugged' /\ inPipe # <<>> => inPipe' # <<>> /\ Head(inPipe') = Head(inPipe)
    BY <1>2, <1>3, HeadStays, PacketsType
  <1> QED
    BY <1>1, <1>4 DEF BlockInv, OwnReply, Current

LEMMA HostBlock ==
  ASSUME IInv, PipesInv, BlockInv, Host
  PROVE  BlockInv'
  <1>1. CASE \E c \in Calls : Transact(c) \/ UartWrite(c) \/ UartRead(c) \/ BleReadEvent(c)
    BY <1>1
    DEF Transact, UartWrite, UartRead, BleReadEvent, StartRequest, StartRead, Return, BlockInv
  <1>2. CASE RejectArguments \/ Reopen
    <2>1. pc' = "idle" /\ call'.fn = "none"
      BY <1>2 DEF RejectArguments, Reopen, Return, NoCall, uart_write
    <2> QED
      BY <2>1 DEF BlockInv
  <1>3. CASE WriteFrame
    <2>1. /\ pc = "write" /\ pc' # "write" /\ line' = LineNow
          /\ UNCHANGED <<call, inPipe, issued, epoch>>
      BY <1>3 DEF WriteFrame, Return
    <2>2. \A f \in Incoming : ~ OwnReply(f)
      BY <2>1 DEF PipesInv, Unsent
    <2>3. inPipe # <<>> => Head(inPipe).frame \in Incoming
      <3>1. inPipe \in Seq(Packet)
        BY DEF IInv, TypeInv, TypeOK
      <3>2. inPipe # <<>> => 1 \in 1 .. Len(inPipe) /\ Head(inPipe) = inPipe[1]
        BY <3>1
      <3> QED
        BY <3>2 DEF Incoming
    <2>4. line' = "backlog" => inPipe # <<>>
      BY <2>1 DEF LineNow
    <2>5. call.fn = "transact" => UNCHANGED <<rx, ret>>
      BY <1>3 DEF WriteFrame
    <2>6. rx.lead.frame \in Incoming /\ ret.frame \in Incoming
      BY DEF Incoming
    <2> QED
      BY <2>1, <2>2, <2>3, <2>4, <2>5, <2>6 DEF BlockInv, OwnReply, Current
  <1>4. CASE WriteFails \/ ReadFails \/ NoDevice
    <2>1. /\ pc' = "idle" /\ rx'.lead.frame = NoFrame /\ ret'.frame = NoFrame
      BY <1>4, EmptyFramesOwn DEF WriteFails, ReadFails, NoDevice, Return
    <2> QED
      BY <2>1, NoFrameIsNoReply DEF BlockInv, OwnReply
  <1>5. CASE ReadPacket
    <2> DEFINE p    == Head(inPipe)
               lead == IF rx.offset = 0 THEN p ELSE rx.lead
    <2>1. /\ pc = "read" /\ plugged /\ inPipe # <<>>
          /\ UNCHANGED <<call, line, issued, epoch>>
      BY <1>5 DEF ReadPacket
    <2>2. line = "backlog" /\ call.fn = "transact" => ~ OwnReply(lead.frame)
      BY <2>1 DEF BlockInv
    <2>3. \/ /\ rx'.lead = lead /\ rx'.offset = rx.offset + p.len /\ p.len # 0
             /\ UNCHANGED <<pc, ret>>
          \/ /\ pc' = "idle" /\ rx'.lead.frame = NoFrame
             /\ ret'.frame \in {NoFrame, lead.frame}
      BY <1>5, ReadOutcomes, EmptyFramesOwn DEF Return, IInv
    <2>4. rx.offset \in Nat /\ p.len \in Nat
      <3>1. inPipe \in Seq(Packet) /\ rx \in Received
        BY DEF IInv, TypeInv, TypeOK
      <3>2. p \in Packet
        BY <2>1, <3>1
      <3> QED
        BY <3>1, <3>2 DEF Packet, Received
    <2> HIDE DEF p, lead
    <2>5. rx'.offset = rx.offset + p.len /\ p.len # 0 => rx'.offset # 0
      BY <2>4
    <2>7. CASE /\ rx'.lead = lead /\ rx'.offset = rx.offset + p.len /\ p.len # 0
               /\ UNCHANGED <<pc, ret>>
      <3>1. rx'.offset # 0 /\ rx'.lead.frame = lead.frame /\ pc' = "read" /\ ret' = ret
        BY <2>1, <2>5, <2>7
      <3>2. OwnReply(rx.lead.frame)' <=> OwnReply(lead.frame)
        BY <3>1, <2>1 DEF OwnReply, Current
      <3>3. OwnReply(ret.frame)' <=> OwnReply(ret.frame)
        BY <3>1, <2>1 DEF OwnReply, Current
      <3> QED
        BY <2>1, <2>2, <3>1, <3>2, <3>3 DEF BlockInv
    <2>8. CASE /\ pc' = "idle" /\ rx'.lead.frame = NoFrame
               /\ ret'.frame \in {NoFrame, lead.frame}
      BY <2>1, <2>2, <2>8, NoFrameIsNoReply DEF BlockInv, OwnReply, Current
    <2> QED
      BY <2>3, <2>7, <2>8
  <1> QED
    BY <1>1, <1>2, <1>3, <1>4, <1>5 DEF Host

\* A leftover packet stands between a command and its answer until the read.
THEOREM BlockInvariant == Spec => []BlockInv
  <1>1. Init => BlockInv
    BY DEF Init, BlockInv
  <1>2. IInv /\ OrderInv /\ BlockInv /\ [Next]_vars => BlockInv'
    <2>1. IInv /\ BlockInv /\ UNCHANGED vars => BlockInv'
      BY DEF BlockInv, OwnReply, Current, vars, hostVars, devVars
    <2> QED
      BY <2>1, HostBlock, DeviceBlock DEF Next, OrderInv
  <1> QED
    BY <1>1, <1>2, OrderInvariant, PTL DEF Spec

\* One packet left in the pipe when a command is written, of whatever frame, and
\* the command fails: for any calls, any traffic and any depth of the pipes.
THEOREM BacklogBlocks == Spec => []BacklogFails
  <1>1. IInv /\ ResultInv /\ BlockInv => BacklogFails
    <2> SUFFICES ASSUME IInv, ResultInv, BlockInv, line = "backlog", SucceededInWindow PROVE FALSE
      BY DEF BacklogFails
    <2>1. ret.frame.id = issued
      BY OwnInWindow
    <2> QED
      BY <2>1 DEF BlockInv, OwnReply, Current, SucceededInWindow, ResultInv
  <1> QED
    BY <1>1, BlockInvariant, InductiveInvariant, PTL

-----------------------------------------------------------------------------
(* The order of packets.                                                   *)

\* The length of the i-th packet of f.
PartLen(f, i) == IF TotalLen(f) >= i * 64 THEN 64 ELSE TotalLen(f) - (i - 1) * 64

IsPart(p) ==
  /\ p.frame \in Frame
  /\ p.index \in 1 .. PacketCount(p.frame)
  /\ p.len = PartLen(p.frame, p.index)

\* q comes right behind p.
Follows(p, q) ==
  IF p.index < PacketCount(p.frame) THEN q.frame = p.frame /\ q.index = p.index + 1
  ELSE q.index = 1

\* The packets of the pipe are whole frames but for the beginning of the first.
Stream(q) ==
  /\ \A i \in 1 .. Len(q) : IsPart(q[i])
  /\ \A i \in 1 .. Len(q) : i + 1 \in 1 .. Len(q) => Follows(q[i], q[i + 1])
  /\ q # <<>> => q[Len(q)].index = PacketCount(q[Len(q)].frame)

\* A read that started with a first packet has all packets up to k, and the
\* next one is at the head.
Reading ==
  pc = "read" /\ rx.offset > 0 /\ rx.lead.index = 1 =>
    /\ rx.intact /\ rx.lead.frame \in Frame
    /\ plugged =>
         \E k \in Nat :
           /\ rx.offset = k * 64
           /\ inPipe # <<>> /\ Head(inPipe).frame = rx.lead.frame
           /\ Head(inPipe).index = k + 1

Locals ==
  /\ pc # "read" => rx.offset = 0
  /\ rx.offset = 0 => rx.intact
  /\ pc # "idle" => ret.result = "NONE"
  /\ ret.result = "OK" => ret.intact

PacketInv == Stream(inPipe) /\ Reading /\ Locals

-----------------------------------------------------------------------------
(* The packets of one frame.                                               *)

LEMMA FramePackets ==
  ASSUME NEW f \in Frame
  PROVE  /\ PacketCount(f) \in Nat \ {0} /\ TotalLen(f) \in Nat /\ TotalLen(f) >= 24
         /\ Packets(f) \in Seq(Packet) /\ Len(Packets(f)) = PacketCount(f)
         /\ \A i \in 1 .. PacketCount(f) :
              Packets(f)[i] = [frame |-> f, index |-> i, len |-> PartLen(f, i)]
  <1>1. TotalLen(f) \in Nat /\ TotalLen(f) >= 24
    BY DEF TotalLen, Frame, HEADER_LEN
  <1>2. PacketCount(f) \in Nat \ {0}
    BY <1>1 DEF PacketCount, EP_PACKET_SIZE
  <1>3. Packets(f) \in Seq(Packet)
    BY PacketsType
  <1>4. Packets(f) = [i \in 1 .. PacketCount(f) |->
                        [frame |-> f, index |-> i, len |-> PartLen(f, i)]]
    BY DEF Packets, PartLen, EP_PACKET_SIZE
  <1>5. Len(Packets(f)) = PacketCount(f)
    BY <1>2, <1>3, <1>4
  <1> QED
    BY <1>1, <1>2, <1>3, <1>4, <1>5

LEMMA FrameStream ==
  ASSUME NEW f \in Frame
  PROVE  /\ Stream(Packets(f)) /\ Packets(f) # <<>>
         /\ Packets(f)[1] = [frame |-> f, index |-> 1, len |-> PartLen(f, 1)]
  <1> DEFINE q == Packets(f)
             n == PacketCount(f)
  <1>1. /\ n \in Nat \ {0} /\ q \in Seq(Packet) /\ Len(q) = n
        /\ \A i \in 1 .. n : q[i] = [frame |-> f, index |-> i, len |-> PartLen(f, i)]
    BY FramePackets
  <1>2. \A i \in 1 .. n : q[i].frame = f /\ q[i].index = i /\ q[i].len = PartLen(f, i)
    BY <1>1
  <1> HIDE DEF q
  <1>3. \A i \in 1 .. Len(q) : IsPart(q[i])
    BY <1>1, <1>2 DEF IsPart
  <1>4. \A i \in 1 .. Len(q) : i + 1 \in 1 .. Len(q) => Follows(q[i], q[i + 1])
    BY <1>1, <1>2 DEF Follows
  <1>5. n \in 1 .. n /\ 1 \in 1 .. n
    BY <1>1
  <1> QED
    BY <1>1, <1>2, <1>3, <1>4, <1>5 DEF Stream, q

\* A packet that does not complete its frame is full, and not the last.
LEMMA MoreToCome ==
  ASSUME NEW f \in Frame, NEW i \in 1 .. PacketCount(f),
         (i - 1) * 64 + PartLen(f, i) < TotalLen(f)
  PROVE  PartLen(f, i) = 64 /\ i < PacketCount(f)
  <1>1. TotalLen(f) \in Nat /\ PacketCount(f) \in Nat
    BY FramePackets
  <1>2. PartLen(f, i) = 64 /\ i * 64 < TotalLen(f)
    BY <1>1 DEF PartLen
  <1>3. i < PacketCount(f)
    BY <1>1, <1>2 DEF PacketCount, EP_PACKET_SIZE
  <1> QED
    BY <1>2, <1>3

LEMMA TailStream ==
  ASSUME NEW q \in Seq(Packet), q # <<>>, Stream(q)
  PROVE  /\ Stream(Tail(q)) /\ IsPart(Head(q))
         /\ Head(q).index < PacketCount(Head(q).frame) =>
              /\ Tail(q) # <<>> /\ Head(Tail(q)).frame = Head(q).frame
              /\ Head(Tail(q)).index = Head(q).index + 1
  <1> DEFINE t == Tail(q)
  <1>1. /\ Len(q) \in Nat \ {0} /\ t \in Seq(Packet) /\ Len(t) = Len(q) - 1
        /\ Head(q) = q[1]
        /\ \A i \in 1 .. Len(t) : t[i] = q[i + 1]
    OBVIOUS
  <1>2. t # <<>> => Len(t) \in 1 .. Len(t) /\ Head(t) = t[1]
    BY <1>1
  <1>3. 1 \in 1 .. Len(q) /\ Len(q) \in 1 .. Len(q)
    BY <1>1
  <1> HIDE DEF t
  <1>4. \A i \in 1 .. Len(t) : i + 1 \in 1 .. Len(q)
    BY <1>1
  <1>5. \A i \in 1 .. Len(t) : IsPart(t[i])
    BY <1>1, <1>4 DEF Stream
  <1>6. \A i \in 1 .. Len(t) : i + 1 \in 1 .. Len(t) => Follows(t[i], t[i + 1])
    <2> SUFFICES ASSUME NEW i \in 1 .. Len(t), i + 1 \in 1 .. Len(t)
                 PROVE  Follows(t[i], t[i + 1])
      OBVIOUS
    <2>1. i + 1 \in 1 .. Len(q) /\ (i + 1) + 1 \in 1 .. Len(q)
      BY <1>4
    <2>2. t[i] = q[i + 1] /\ t[i + 1] = q[(i + 1) + 1]
      BY <1>1
    <2> QED
      BY <2>1, <2>2 DEF Stream
  <1>7. t # <<>> => t[Len(t)].index = PacketCount(t[Len(t)].frame)
    <2> SUFFICES ASSUME t # <<>> PROVE t[Len(t)] = q[Len(q)]
      BY DEF Stream
    <2>1. Len(t) + 1 = Len(q)
      BY <1>1
    <2> QED
      BY <1>1, <1>2, <2>1
  <1>8. ASSUME q[1].index < PacketCount(q[1].frame)
        PROVE  t # <<>> /\ Head(t).frame = q[1].frame /\ Head(t).index = q[1].index + 1
    <2>1. Len(q) # 1
      BY <1>3, <1>8, FramePackets DEF Stream, IsPart
    <2>2. 1 + 1 \in 1 .. Len(q) /\ t # <<>>
      BY <1>1, <2>1
    <2>3. Follows(q[1], q[1 + 1])
      BY <1>3, <2>2 DEF Stream
    <2>4. Head(t) = q[1 + 1]
      BY <1>1, <1>2, <2>2
    <2> QED
      BY <1>8, <2>2, <2>3, <2>4 DEF Follows
  <1>9. IsPart(q[1])
    BY <1>3 DEF Stream
  <1> QED
    BY <1>1, <1>5, <1>6, <1>7, <1>8, <1>9 DEF Stream, t

LEMMA AppendStream ==
  ASSUME NEW q \in Seq(Packet), Stream(q), NEW f \in Frame
  PROVE  Stream(q \o Packets(f)) /\ q \o Packets(f) \in Seq(Packet)
  <1> DEFINE r == Packets(f)
             s == q \o r
             m == Len(q)
             n == Len(r)
  <1>1. r \in Seq(Packet) /\ Stream(r) /\ r # <<>> /\ r[1].index = 1
    <2>1. r[1] = [frame |-> f, index |-> 1, len |-> PartLen(f, 1)]
      BY FrameStream
    <2>2. r[1].index = 1
      BY <2>1
    <2> QED
      BY <2>2, FramePackets, FrameStream
  <1> HIDE DEF r
  <1>2. /\ m \in Nat /\ n \in Nat \ {0} /\ s \in Seq(Packet) /\ Len(s) = m + n
        /\ \A i \in 1 .. m : s[i] = q[i]
        /\ \A i \in 1 .. n : s[m + i] = r[i]
    BY <1>1
  <1> HIDE DEF s, m, n
  <1>3. \A i \in 1 .. Len(s) : i \in 1 .. m \/ (i - m \in 1 .. n /\ i = m + (i - m))
    BY <1>2
  <1>4. \A i \in 1 .. Len(s) : IsPart(s[i])
    <2> SUFFICES ASSUME NEW i \in 1 .. Len(s) PROVE IsPart(s[i])
      OBVIOUS
    <2>1. CASE i \in 1 .. m
      BY <1>2, <2>1 DEF Stream, m
    <2>2. CASE i - m \in 1 .. n
      <3>1. s[i] = r[i - m]
        BY <1>2, <1>3, <2>2
      <3> QED
        BY <1>1, <2>2, <3>1 DEF Stream, n
    <2> QED
      BY <1>3, <2>1, <2>2
  <1>5. \A i \in 1 .. Len(s) : i + 1 \in 1 .. Len(s) => Follows(s[i], s[i + 1])
    <2> SUFFICES ASSUME NEW i \in 1 .. Len(s), i + 1 \in 1 .. Len(s)
                 PROVE  Follows(s[i], s[i + 1])
      OBVIOUS
    <2>1. CASE i \in 1 .. m /\ i + 1 \in 1 .. m
      BY <1>2, <2>1 DEF Stream, m
    <2>2. CASE i = m
      <3>1. s[i] = q[Len(q)] /\ q # <<>> /\ s[i + 1] = r[1]
        BY <1>2, <2>2 DEF m
      <3>2. q[Len(q)].index = PacketCount(q[Len(q)].frame)
        BY <3>1 DEF Stream
      <3>3. m \in 1 .. Len(q)
        BY <1>2, <2>2 DEF m
      <3>4. q[Len(q)].index \in Int
        BY <3>3, FramePackets DEF Stream, IsPart, m
      <3> QED
        BY <1>1, <3>1, <3>2, <3>4 DEF Follows
    <2>3. CASE i - m \in 1 .. n
      <3>1. s[i] = r[i - m] /\ (i - m) + 1 \in 1 .. n /\ s[i + 1] = r[(i - m) + 1]
        BY <1>2, <1>3, <2>3
      <3> QED
        BY <1>1, <2>3, <3>1 DEF Stream, n
    <2> QED
      BY <1>2, <1>3, <2>1, <2>2, <2>3
  <1>6. s[Len(s)] = r[Len(r)]
    BY <1>2 DEF n
  <1> QED
    BY <1>1, <1>2, <1>4, <1>5, <1>6 DEF Stream, s, r
-----------------------------------------------------------------------------
(* Every step preserves PacketInv.                                         *)

\* The device queues whole frames, or loses everything.
LEMMA DeviceQueues ==
  ASSUME IInv, Device
  PROVE  \/ inPipe' = inPipe
         \/ inPipe' = <<>> /\ ~ plugged'
         \/ \E f \in Frame : inPipe' = inPipe \o Packets(f)
  <1>1. CASE DeviceExecutes \/ DeviceRefuses
    <2>1. outPipe # <<>> /\ outPipe \in Seq(Written)
      BY <1>1 DEF DeviceExecutes, DeviceRefuses, IInv, TypeInv, TypeOK
    <2>2. Head(outPipe) \in Written
      BY <2>1, SeqParts
    <2>3. 0 \in 0 .. MAX_PAYLOAD /\ RspLens \subseteq 0 .. MAX_PAYLOAD
      BY MuxAssumption DEF MAX_PAYLOAD, MAX_FRAME_LEN, HEADER_LEN
    <2>4. \A status \in {"OK", "ERR"}, len \in 0 .. MAX_PAYLOAD :
            Answer(Head(outPipe).frame, status, len) \in Frame
      BY <2>2, AnswerType DEF Written
    <2> QED
      BY <1>1, <2>3, <2>4 DEF DeviceExecutes, DeviceRefuses
  <1>2. CASE DeviceSpeaks
    BY <1>2, SpontaneousType DEF DeviceSpeaks, Speaks, IInv
  <1>3. CASE DeviceDiscards \/ Unplug
    BY <1>3 DEF DeviceDiscards, Unplug
  <1> QED
    BY <1>1, <1>2, <1>3 DEF Device

LEMMA DevicePackets ==
  ASSUME IInv, PacketInv, Device
  PROVE  PacketInv'
  <1>1. UNCHANGED <<pc, rx, ret>> /\ (plugged' => plugged)
    BY DEF Device, DeviceExecutes, DeviceRefuses, DeviceDiscards, DeviceSpeaks, Speaks, Unplug,
           hostVars
  <1>2. inPipe \in Seq(Packet)
    BY DEF IInv, TypeInv, TypeOK
  <1>3. Stream(inPipe')
    <2>1. Stream(<<>>)
      BY DEF Stream
    <2> QED
      BY <1>2, <2>1, DeviceQueues, AppendStream DEF PacketInv
  <1>4. plugged' /\ inPipe # <<>> => inPipe' # <<>> /\ Head(inPipe') = Head(inPipe)
    BY <1>2, DeviceQueues, HeadStays, FramePackets
  <1>5. Reading'
    BY <1>1, <1>4 DEF PacketInv, Reading
  <1> QED
    BY <1>1, <1>3, <1>5 DEF PacketInv, Locals

\* A packet that is read goes with those read before, or is refused.
LEMMA ReadPacketPackets ==
  ASSUME IInv, PacketInv, ReadPacket
  PROVE  PacketInv'
  <1> DEFINE p      == Head(inPipe)
             lead   == IF rx.offset = 0 THEN p ELSE rx.lead
             got    == rx.offset + p.len
             intact == (p.index - 1) * 64 = rx.offset /\ rx.intact /\ p.frame = lead.frame
  <1>1. /\ pc = "read" /\ plugged /\ inPipe # <<>> /\ inPipe' = Tail(inPipe)
        /\ plugged' = plugged
    BY DEF ReadPacket
  <1>2. inPipe \in Seq(Packet) /\ rx \in Received
    BY DEF IInv, TypeInv, TypeOK
  <1>3. /\ Stream(inPipe') /\ IsPart(p)
        /\ p.index < PacketCount(p.frame) =>
             /\ inPipe' # <<>> /\ Head(inPipe').frame = p.frame
             /\ Head(inPipe').index = p.index + 1
    BY <1>1, <1>2, TailStream DEF PacketInv
  <1>4. rx.offset \in Nat /\ p.len \in Nat /\ p.index \in Nat /\ p.frame \in Frame
    <2>1. p \in Packet
      BY <1>1, <1>2
    <2> QED
      BY <1>2, <2>1 DEF Packet, Received
  <1> HIDE DEF p
  <1>5. lead.index = 1 => /\ intact /\ lead.frame = p.frame
                          /\ rx.offset = (p.index - 1) * 64
    <2>1. CASE rx.offset = 0
      BY <1>4, <2>1 DEF PacketInv, Locals
    <2>2. CASE rx.offset # 0
      <3>1. rx.offset > 0
        BY <1>4, <2>2
      <3> SUFFICES ASSUME rx.lead.index = 1
                   PROVE  /\ rx.intact /\ p.frame = rx.lead.frame
                          /\ rx.offset = (p.index - 1) * 64
        BY <2>2
      <3>2. PICK k \in Nat : /\ rx.offset = k * 64 /\ rx.intact
                             /\ p.frame = rx.lead.frame /\ p.index = k + 1
        BY <1>1, <3>1 DEF PacketInv, Reading, p
      <3>3. p.index - 1 = k
        BY <3>2
      <3> QED
        BY <3>2, <3>3
    <2> QED
      BY <2>1, <2>2
  <1>6. ASSUME lead.index = 1, got < 24 \/ got < TotalLen(lead.frame)
        PROVE  /\ got = p.index * 64 /\ p.index < PacketCount(p.frame)
    <2>1. TotalLen(p.frame) \in Nat /\ TotalLen(p.frame) >= 24
      BY <1>4, FramePackets
    <2>2. (p.index - 1) * 64 + PartLen(p.frame, p.index) < TotalLen(p.frame)
      BY <1>3, <1>4, <1>5, <1>6, <2>1 DEF IsPart
    <2>3. PartLen(p.frame, p.index) = 64 /\ p.index < PacketCount(p.frame)
      BY <1>3, <2>2, MoreToCome DEF IsPart
    <2>4. got = (p.index - 1) * 64 + 64
      BY <1>3, <1>5, <1>6, <2>3 DEF IsPart
    <2> QED
      BY <1>4, <2>3, <2>4
  <1>7. \/ /\ rx' = [offset |-> got, lead |-> lead, intact |-> intact]
           /\ p.len # 0 /\ (lead.index = 1 => got < 24 \/ got < TotalLen(lead.frame))
           /\ UNCHANGED <<pc, ret>>
        \/ \E e \in {"ERR_IO", "ERR_PROTO"} :
             /\ e = "ERR_PROTO" => lead.index # 1
             /\ Return(e, NoFrame, TRUE)
        \/ /\ lead.index = 1
           /\ Return(Verdict(call, lead.frame), lead.frame, intact)
    BY ReadOutcomes DEF IInv, p
  <1>8. CASE /\ rx' = [offset |-> got, lead |-> lead, intact |-> intact]
             /\ p.len # 0 /\ (lead.index = 1 => got < 24 \/ got < TotalLen(lead.frame))
             /\ UNCHANGED <<pc, ret>>
    <2>1. rx'.offset = got /\ rx'.lead = lead /\ rx'.intact = intact
      BY <1>8
    <2>2. got # 0
      BY <1>4, <1>8
    <2>3. Reading'
      <3> SUFFICES ASSUME lead.index = 1
                   PROVE  /\ intact /\ lead.frame \in Frame
                          /\ \E k \in Nat :
                               /\ got = k * 64
                               /\ inPipe' # <<>> /\ Head(inPipe').frame = lead.frame
                               /\ Head(inPipe').index = k + 1
        BY <2>1 DEF Reading
      <3>1. got = p.index * 64 /\ p.index < PacketCount(p.frame)
        BY <1>6, <1>8
      <3> QED
        BY <1>3, <1>4, <1>5, <3>1
    <2>4. Locals'
      BY <1>1, <1>8, <2>1, <2>2 DEF PacketInv, Locals
    <2> QED
      BY <1>3, <2>3, <2>4 DEF PacketInv
  <1>9. CASE \E e \in {"ERR_IO", "ERR_PROTO"} : Return(e, NoFrame, TRUE)
    BY <1>3, <1>9 DEF Return, EmptyRx, PacketInv, Reading, Locals
  <1>10. CASE lead.index = 1 /\ Return(Verdict(call, lead.frame), lead.frame, intact)
    <2>1. pc' = "idle" /\ rx' = EmptyRx /\ ret'.intact = intact
      BY <1>10 DEF Return
    <2> QED
      BY <1>3, <1>5, <1>10, <2>1 DEF EmptyRx, PacketInv, Reading, Locals
  <1> QED
    BY <1>7, <1>8, <1>9, <1>10

\* All other steps of the host leave the pipe alone or empty it, and start or
\* end a call with nothing received.
LEMMA HostPackets ==
  ASSUME IInv, PacketInv, Host
  PROVE  PacketInv'
  <1>1. CASE \E c \in Calls : Transact(c) \/ UartWrite(c) \/ UartRead(c) \/ BleReadEvent(c)
    <2>1. inPipe' = inPipe /\ rx' = EmptyRx
      BY <1>1 DEF Transact, UartWrite, UartRead, BleReadEvent, StartRequest, StartRead, Return,
                  devVars
    <2>2. ret' = NoRet \/ (pc' = "idle" /\ ret'.result # "OK")
      BY <1>1 DEF Transact, UartWrite, UartRead, BleReadEvent, StartRequest, StartRead, Return,
                  BuildErrors
    <2> QED
      BY <2>1, <2>2 DEF PacketInv, Reading, Locals, EmptyRx, NoRet
  <1>2. CASE RejectArguments \/ ReadFails \/ NoDevice \/ WriteFails
    <2>1. inPipe' = inPipe /\ \E e : Return(e, NoFrame, TRUE)
      BY <1>2 DEF RejectArguments, ReadFails, NoDevice, WriteFails, devVars
    <2> QED
      BY <2>1 DEF PacketInv, Reading, Locals, EmptyRx, Return
  <1>3. CASE WriteFrame
    <2>1. /\ pc = "write" /\ inPipe' = inPipe
          /\ \/ pc' = "read" /\ UNCHANGED <<rx, ret>>
             \/ Return("OK", NoFrame, TRUE)
      BY <1>3 DEF WriteFrame
    <2> QED
      BY <2>1 DEF PacketInv, Reading, Locals, EmptyRx, Return
  <1>4. CASE Reopen
    <2>1. /\ inPipe' \in {inPipe, <<>>} /\ rx' = EmptyRx /\ ret' = NoRet
      BY <1>4 DEF Reopen
    <2>2. Stream(<<>>)
      BY DEF Stream
    <2> QED
      BY <2>1, <2>2 DEF PacketInv, Reading, Locals, EmptyRx, NoRet
  <1> QED
    BY <1>1, <1>2, <1>3, <1>4, ReadPacketPackets DEF Host

\* The invariant the theorems about packets rest on.
THEOREM PacketInvariant == Spec => []PacketInv
  <1>1. Init => PacketInv
    BY DEF Init, PacketInv, Stream, Reading, Locals, EmptyRx, NoRet
  <1>2. IInv /\ PacketInv /\ [Next]_vars => PacketInv'
    <2>1. PacketInv /\ UNCHANGED vars => PacketInv'
      BY DEF PacketInv, Reading, Locals, vars, hostVars, devVars
    <2> QED
      BY <2>1, HostPackets, DevicePackets DEF Next
  <1> QED
    BY <1>1, <1>2, InductiveInvariant, PTL DEF Spec

\* No frame that is handed to a caller was put together from packets of two
\* frames, or from a frame with a packet missing, whatever reads failed before.
THEOREM FramesAreWhole == Spec => []NeverSpliced
  <1>1. PacketInv => NeverSpliced
    BY DEF PacketInv, Locals, NeverSpliced
  <1> QED
    BY <1>1, PacketInvariant, PTL
-----------------------------------------------------------------------------
(* A command on a quiet line.                                              *)

\* f is an answer to the request in hand.
IsReply(f) ==
  \E status \in {"OK", "ERR"}, len \in 0 .. MAX_PAYLOAD : f = Answer(Request, status, len)

\* There is nothing in the pipes but the request or its answer.
Alone ==
  \/ inPipe = <<>> /\ outPipe \in {<<>>, <<[frame |-> Request, whole |-> TRUE]>>}
  \/ outPipe = <<>> /\ \E f \in Frame : IsReply(f) /\ inPipe = Packets(f)

QuietInv ==
  line = "quiet" /\ call.fn = "transact" =>
    /\ pc = "read" /\ plugged /\ rx.offset = 0 => Alone
    /\ rx.offset # 0 => rx.lead.index = 1 /\ IsReply(rx.lead.frame)
    /\ ret.result = "ERR_PROTO" =>
         /\ IsReply(ret.frame)
         /\ call.exact /\ ret.frame.payload_len # call.capacity

\* An answer to the request in hand matches it.
LEMMA ReplyMatches ==
  ASSUME NEW f, IsReply(f), call.fn = "transact", Verdict(call, f) = "ERR_PROTO"
  PROVE  call.exact /\ f.payload_len # call.capacity
  <1>1. Matches(call, f)
    BY DEF IsReply, Answer, Request, Matches
  <1> QED
    BY <1>1 DEF Verdict, TakeResponse

\* The device answers the request, or speaks and ends the quiet.
LEMMA DeviceQuiet ==
  ASSUME IInv, QuietInv, Device
  PROVE  QuietInv'
  <1>1. /\ UNCHANGED <<pc, call, seq, rx, ret, issued, epoch>>
        /\ plugged' => plugged
        /\ line' = line \/ (line = "quiet" /\ line' = "busy")
    BY DEF Device, DeviceExecutes, DeviceRefuses, DeviceDiscards, DeviceSpeaks, Speaks, Unplug,
           hostVars
  <1>2. Request' = Request
    BY <1>1 DEF Request
  <1>3. \A f : IsReply(f)' <=> IsReply(f)
    BY <1>2 DEF IsReply
  <1>4. ASSUME Alone, plugged', line' = "quiet" PROVE Alone'
    <2>1. CASE DeviceExecutes \/ DeviceRefuses
      <3>1. /\ outPipe # <<>> /\ outPipe' = Tail(outPipe)
            /\ \E status \in {"OK", "ERR"}, len \in RspLens \cup {0} :
                 inPipe' = inPipe \o Packets(Answer(Head(outPipe).frame, status, len))
        BY <2>1 DEF DeviceExecutes, DeviceRefuses
      <3>2. inPipe = <<>> /\ outPipe = <<[frame |-> Request, whole |-> TRUE]>>
        BY <1>4, <3>1 DEF Alone
      <3>3. outPipe' = <<>> /\ Head(outPipe).frame = Request
        BY <3>1, <3>2
      <3>4. 0 \in 0 .. MAX_PAYLOAD /\ RspLens \subseteq 0 .. MAX_PAYLOAD
        BY MuxAssumption DEF MAX_PAYLOAD, MAX_FRAME_LEN, HEADER_LEN
      <3>5. Head(outPipe) \in Written
        <4>1. outPipe \in Seq(Written)
          BY DEF IInv, TypeInv, TypeOK
        <4> QED
          BY <3>1, <4>1, SeqParts
      <3>6. PICK status \in {"OK", "ERR"}, len \in 0 .. MAX_PAYLOAD :
              inPipe' = <<>> \o Packets(Answer(Request, status, len))
        BY <3>1, <3>2, <3>3, <3>4
      <3> DEFINE a == Answer(Request, status, len)
      <3>7. a \in Frame /\ IsReply(a)
        BY <3>3, <3>5, AnswerType DEF IsReply, Written
      <3> HIDE DEF a
      <3>8. inPipe' = Packets(a)
        <4>1. Packets(a) \in Seq(Packet)
          BY <3>7, PacketsType
        <4> QED
          BY <3>6, <4>1 DEF a
      <3> QED
        BY <1>3, <3>3, <3>7, <3>8 DEF Alone
    <2>2. CASE DeviceDiscards
      BY <1>2, <1>3, <1>4, <2>2 DEF DeviceDiscards, Alone
    <2>3. CASE DeviceSpeaks \/ Unplug
      BY <1>4, <2>3 DEF DeviceSpeaks, Speaks, Unplug
    <2> QED
      BY <2>1, <2>2, <2>3 DEF Device
  <1> QED
    BY <1>1, <1>3, <1>4 DEF QuietInv

LEMMA HostQuiet ==
  ASSUME IInv, PacketInv, BlockInv, QuietInv, Host
  PROVE  QuietInv'
  <1>1. CASE \E c \in Calls : Transact(c) \/ UartWrite(c) \/ UartRead(c) \/ BleReadEvent(c)
    BY <1>1
    DEF Transact, UartWrite, UartRead, BleReadEvent, StartRequest, StartRead, QuietInv
  <1>2. CASE RejectArguments \/ Reopen
    <2>1. call'.fn = "none"
      BY <1>2 DEF RejectArguments, Reopen, NoCall, uart_write
    <2> QED
      BY <2>1 DEF QuietInv
  <1>3. CASE WriteFrame
    <2>1. /\ pc = "write" /\ line' = LineNow /\ Sent(TRUE)
          /\ UNCHANGED <<call, seq, inPipe, issued, epoch>>
          /\ call.fn = "transact" => UNCHANGED <<rx, ret>>
      BY <1>3 DEF WriteFrame
    <2>2. rx.offset = 0 /\ ret.result = "NONE"
      BY <2>1 DEF PacketInv, Locals
    <2>3. line' = "quiet" => inPipe = <<>> /\ outPipe = <<>>
      BY <2>1 DEF LineNow
    <2>4. ASSUME line' = "quiet" PROVE Alone'
      <3>1. outPipe' = Append(<<>>, [frame |-> Request, whole |-> TRUE])
        BY <2>1, <2>3, <2>4 DEF Sent
      <3>2. Request' = Request
        BY <2>1 DEF Request
      <3>3. outPipe' = <<[frame |-> Request', whole |-> TRUE]>>
        BY <3>1, <3>2
      <3> QED
        BY <2>1, <2>3, <2>4, <3>3 DEF Alone
    <2> QED
      BY <2>1, <2>2, <2>4 DEF QuietInv
  <1>4. CASE WriteFails \/ ReadFails \/ NoDevice
    <2>1. /\ pc' = "idle" /\ rx'.offset = 0 /\ ret'.result # "ERR_PROTO"
      BY <1>4 DEF WriteFails, ReadFails, NoDevice, Return, TransferErrors, EmptyRx
    <2> QED
      BY <2>1 DEF QuietInv
  <1>5. CASE ReadPacket
    <2> DEFINE p    == Head(inPipe)
               lead == IF rx.offset = 0 THEN p ELSE rx.lead
    <2>1. /\ pc = "read" /\ plugged /\ inPipe # <<>>
          /\ UNCHANGED <<call, seq, line, issued, epoch>>
      BY <1>5 DEF ReadPacket
    <2>2. \A f : IsReply(f)' <=> IsReply(f)
      BY <2>1 DEF IsReply, Request
    <2> SUFFICES ASSUME line = "quiet", call.fn = "transact" PROVE QuietInv'
      BY <2>1 DEF QuietInv
    <2>3. lead.index = 1 /\ IsReply(lead.frame)
      <3>1. CASE rx.offset = 0
        <4>1. PICK f \in Frame : IsReply(f) /\ inPipe = Packets(f)
          BY <2>1, <3>1 DEF QuietInv, Alone
        <4>2. Packets(f)[1] = [frame |-> f, index |-> 1, len |-> PartLen(f, 1)]
          BY FrameStream
        <4>3. inPipe \in Seq(Packet) /\ Head(inPipe) = inPipe[1]
          BY <2>1 DEF IInv, TypeInv, TypeOK
        <4>4. p.index = 1 /\ p.frame = f
          BY <4>1, <4>2, <4>3
        <4> QED
          BY <3>1, <4>1, <4>4
      <3>2. CASE rx.offset # 0
        BY <3>2 DEF QuietInv
      <3> QED
        BY <3>1, <3>2
    <2>4. rx.offset \in Nat /\ p.len \in Nat
      <3>1. inPipe \in Seq(Packet) /\ rx \in Received
        BY DEF IInv, TypeInv, TypeOK
      <3>2. p \in Packet
        BY <2>1, <3>1
      <3> QED
        BY <3>1, <3>2 DEF Packet, Received
    <2>5. \/ /\ rx'.lead = lead /\ rx'.offset = rx.offset + p.len /\ p.len # 0
             /\ UNCHANGED <<pc, ret>>
          \/ pc' = "idle" /\ rx'.offset = 0 /\ ret'.result # "ERR_PROTO"
          \/ /\ pc' = "idle" /\ rx'.offset = 0
             /\ ret'.result = Verdict(call, lead.frame) /\ ret'.frame = lead.frame
      BY <1>5, <2>3, ReadOutcomes DEF Return, IInv, EmptyRx
    <2>6. ret.result = "NONE"
      BY <2>1 DEF PacketInv, Locals
    <2> HIDE DEF p, lead
    <2>7. CASE /\ rx'.lead = lead /\ rx'.offset = rx.offset + p.len /\ p.len # 0
               /\ UNCHANGED <<pc, ret>>
      <3>1. rx'.offset # 0
        BY <2>4, <2>7
      <3> QED
        BY <2>1, <2>2, <2>3, <2>6, <2>7, <3>1 DEF QuietInv
    <2>8. CASE pc' = "idle" /\ rx'.offset = 0 /\ ret'.result # "ERR_PROTO"
      BY <2>8 DEF QuietInv
    <2>9. CASE /\ pc' = "idle" /\ rx'.offset = 0
               /\ ret'.result = Verdict(call, lead.frame) /\ ret'.frame = lead.frame
      BY <2>1, <2>2, <2>3, <2>9, ReplyMatches DEF QuietInv
    <2> QED
      BY <2>5, <2>7, <2>8, <2>9
  <1> QED
    BY <1>1, <1>2, <1>3, <1>4, <1>5 DEF Host

\* A command whose request finds both pipes empty, and after which the device
\* says nothing unasked, fails the checks of transact() only if its own answer
\* has an unexpected length: for any calls, timeouts and unplugging.
THEOREM QuietLineAnswers == Spec => []QuietLineMatches
  <1>1. Init => QuietInv
    BY DEF Init, QuietInv
  <1>2. IInv /\ PacketInv /\ BlockInv /\ QuietInv /\ [Next]_vars => QuietInv'
    <2>1. QuietInv /\ UNCHANGED vars => QuietInv'
      BY DEF QuietInv, Alone, IsReply, Request, vars, hostVars, devVars
    <2> QED
      BY <2>1, HostQuiet, DeviceQuiet DEF Next
  <1>3. QuietInv => QuietLineMatches
    <2>1. \A f : IsReply(f) => f.id = issued /\ f.epoch = epoch
      BY DEF IsReply, Answer, Request
    <2> QED
      BY <2>1 DEF QuietInv, QuietLineMatches
  <1> QED
    BY <1>1, <1>2, <1>3, InductiveInvariant, PacketInvariant, BlockInvariant, PTL DEF Spec
=============================================================================
