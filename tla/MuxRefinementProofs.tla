------------------------ MODULE MuxRefinementProofs ------------------------
(***************************************************************************)
(* Every step of MuxTransact is a step of RemoteCall or changes nothing    *)
(* RemoteCall sees, as long as the numbers have not gone round.            *)
(*                                                                         *)
(* A request is a pending command as long as it lies in the pipe, its      *)
(* answer is one RemoteCall knows from the moment its head is queued until *)
(* that head is gone; what the rest of the packets, of the other frames    *)
(* and of the failed transfers do, RemoteCall takes as answers that fade.  *)
(***************************************************************************)
EXTENDS MuxRefinement, MuxTransactProofs

\* Nothing is left of a read that is over.
CleanRx == rx.offset = 0 => rx = EmptyRx

Known == IInv /\ OrderInv /\ PacketInv /\ CleanRx

AbsNext == [Abs!Next]_(Abs!vars)

LEMMA CleanStep ==
  ASSUME IInv, CleanRx, [Next]_vars
  PROVE  CleanRx'
  <1>1. CASE ReadPacket
    <2> DEFINE p    == Head(inPipe)
               lead == IF rx.offset = 0 THEN p ELSE rx.lead
    <2>1. rx' = EmptyRx \/ (rx'.offset = rx.offset + p.len /\ p.len # 0)
      BY <1>1, ReadOutcomes DEF Return, IInv
    <2>2. rx.offset \in Nat /\ p.len \in Nat
      <3>1. inPipe \in Seq(Packet) /\ rx \in Received /\ inPipe # <<>>
        BY <1>1 DEF ReadPacket, IInv, TypeInv, TypeOK
      <3>2. p \in Packet
        BY <3>1
      <3> QED
        BY <3>1, <3>2 DEF Packet, Received
    <2> HIDE DEF p
    <2>3. rx' = EmptyRx \/ rx'.offset # 0
      BY <2>1, <2>2
    <2> QED
      BY <2>3 DEF CleanRx
  <1>2. CASE Host /\ ~ ReadPacket
    <2>1. rx' = rx \/ rx' = EmptyRx
      BY <1>2
      DEF Host, Transact, UartWrite, UartRead, BleReadEvent, StartRequest, StartRead,
          RejectArguments, WriteFrame, WriteFails, ReadFails, NoDevice, Reopen, Return
    <2> QED
      BY <2>1 DEF CleanRx
  <1>3. CASE Device \/ UNCHANGED vars
    <2>1. rx' = rx
      BY <1>3 DEF Device, DeviceExecutes, DeviceRefuses, DeviceDiscards, DeviceSpeaks, Speaks,
                  Unplug, vars, hostVars
    <2> QED
      BY <2>1 DEF CleanRx
  <1> QED
    BY <1>1, <1>2, <1>3 DEF Next

LEMMA KnownAlways == Spec => []Known
  <1>1. Init => CleanRx
    BY DEF Init, CleanRx
  <1>2. IInv /\ CleanRx /\ [Next]_vars => CleanRx'
    BY CleanStep
  <1> QED
    BY <1>1, <1>2, OrderInvariant, PacketInvariant, PTL DEF Spec, Known

-----------------------------------------------------------------------------
(* The commands pending.                                                   *)

LEMMA OneSession ==
  ASSUME IInv, OneRound
  PROVE  /\ epoch = 0 /\ issued \in Nat
         /\ \A i \in 1 .. Len(outPipe) : outPipe[i].frame.epoch = 0
         /\ \A f \in Incoming : f.msg_type = "RSP" => f.id <= issued
  <1>1. epoch = 0 /\ issued \in Nat
    BY MuxAssumption DEF OneRound, IInv, TypeInv, TypeOK
  <1>2. \A i \in 1 .. Len(outPipe) : outPipe[i].frame.epoch = 0
    BY <1>1, WrittenFrames DEF OwnRequest, Frame
  <1>3. \A f \in Incoming : f.msg_type = "RSP" => f.id <= issued
    BY <1>1, IncomingFrames DEF OwnAnswer, Frame
  <1> QED
    BY <1>1, <1>2, <1>3

LEMMA AppendCommand ==
  ASSUME NEW S, NEW w, outPipe \in Seq(S), w \in S, outPipe' = Append(outPipe, w)
  PROVE  CommandsPending' = CommandsPending \cup (IF Asks(w) THEN {Entry(w)} ELSE {})
  <1> DEFINE n == Len(outPipe)
  <1>1. n \in Nat /\ Len(outPipe') = n + 1 /\ outPipe'[n + 1] = w
        /\ \A i \in 1 .. n : outPipe'[i] = outPipe[i]
    OBVIOUS
  <1> HIDE DEF n
  <1>2. \A i \in 1 .. n + 1 : i \in 1 .. n \/ i = n + 1
    BY <1>1
  <1>3. n + 1 \in 1 .. n + 1 /\ \A i \in 1 .. n : i \in 1 .. n + 1
    BY <1>1
  <1>4. CommandsPending =
          {Entry(outPipe[i]) : i \in {j \in 1 .. n : Asks(outPipe[j])}}
    BY DEF CommandsPending, n
  <1>5. CommandsPending' =
          {Entry(outPipe'[i]) : i \in {j \in 1 .. n + 1 : Asks(outPipe'[j])}}
    BY <1>1 DEF CommandsPending, Entry, Asks, CommandIn, KindOf
  <1> QED
    BY <1>1, <1>2, <1>3, <1>4, <1>5

\* The request at the head is the oldest of all.
LEMMA TakeCommand ==
  ASSUME IInv, PipesInv, OneRound, outPipe # <<>>, outPipe' = Tail(outPipe)
  PROVE  LET w == Head(outPipe)
         IN /\ Asks(w) => /\ Entry(w) \in CommandsPending
                          /\ \A y \in CommandsPending : Entry(w).id <= y.id
                          /\ CommandsPending' = CommandsPending \ {Entry(w)}
            /\ ~ Asks(w) => CommandsPending' = CommandsPending
  <1> DEFINE w == Head(outPipe)
             n == Len(outPipe)
             T == [frame : OwnRequest, whole : BOOLEAN]
  <1>1. outPipe \in Seq(T)
    BY DEF IInv, AnswerInv, PipeInv
  <1> HIDE DEF T
  <1>2. /\ n \in Nat \ {0} /\ w = outPipe[1] /\ Len(outPipe') = n - 1
        /\ \A i \in 1 .. n - 1 : outPipe'[i] = outPipe[i + 1]
    BY <1>1
  <1>3. \A i \in 2 .. n : outPipe[1].frame.id < outPipe[i].frame.id
    <2> SUFFICES ASSUME NEW i \in 2 .. n PROVE outPipe[1].frame.id < outPipe[i].frame.id
      OBVIOUS
    <2>1. 1 \in 1 .. Len(outPipe) /\ i \in 1 .. Len(outPipe) /\ 1 < i
      BY <1>2
    <2>2. Before(outPipe[1].frame, outPipe[i].frame)
      BY <2>1 DEF PipesInv, InOrder
    <2> QED
      BY <2>1, <2>2, OneSession DEF Before
  <1>4. \A i \in 1 .. n : outPipe[i].frame.id \in Int
    BY WrittenFrames
  <1> HIDE DEF n, w
  <1>5. \A i \in 1 .. n : i = 1 \/ (i \in 2 .. n /\ i - 1 \in 1 .. n - 1 /\ i = (i - 1) + 1)
    BY <1>2
  <1>6. 1 \in 1 .. n /\ \A i \in 1 .. n - 1 : i + 1 \in 2 .. n /\ i + 1 \in 1 .. n
    BY <1>2
  <1>7. CommandsPending =
          {Entry(outPipe[i]) : i \in {j \in 1 .. n : Asks(outPipe[j])}}
    BY DEF CommandsPending, n
  <1>8. CommandsPending' =
          {Entry(outPipe[i]) : i \in {j \in 2 .. n : Asks(outPipe[j])}}
    <2>1. CommandsPending' =
            {Entry(outPipe'[i]) : i \in {j \in 1 .. n - 1 : Asks(outPipe'[j])}}
      BY <1>2 DEF CommandsPending, Entry, Asks, CommandIn, KindOf
    <2>2. \A i \in 2 .. n : i - 1 \in 1 .. n - 1 /\ outPipe'[i - 1] = outPipe[i]
      BY <1>2, <1>5
    <2> QED
      BY <1>2, <1>6, <2>1, <2>2
  <1>9. \A i \in 1 .. n : Entry(outPipe[i]).id = outPipe[i].frame.id
    BY DEF Entry
  <1>10. ASSUME Asks(w)
         PROVE  /\ Entry(w) \in CommandsPending
                /\ \A y \in CommandsPending : Entry(w).id <= y.id
                /\ CommandsPending' = CommandsPending \ {Entry(w)}
    <2>1. Entry(w) \in CommandsPending
      BY <1>2, <1>6, <1>7, <1>10
    <2>2. \A y \in CommandsPending : Entry(w).id <= y.id
      BY <1>2, <1>3, <1>4, <1>5, <1>6, <1>7, <1>9
    <2>3. \A i \in 2 .. n : Entry(outPipe[i]) # Entry(w)
      <3> SUFFICES ASSUME NEW i \in 2 .. n PROVE Entry(outPipe[i]).id # Entry(w).id
        OBVIOUS
      <3>1. i \in 1 .. n
        BY <1>2
      <3> QED
        BY <1>2, <1>3, <1>4, <1>6, <1>9, <3>1
    <2>4. \A i \in 2 .. n : i \in 1 .. n
      BY <1>2
    <2>5. ASSUME NEW y \in CommandsPending' PROVE y \in CommandsPending /\ y # Entry(w)
      BY <1>7, <1>8, <2>3, <2>4
    <2>6. ASSUME NEW y \in CommandsPending, y # Entry(w) PROVE y \in CommandsPending'
      <3>1. PICK i \in 1 .. n : Asks(outPipe[i]) /\ y = Entry(outPipe[i])
        BY <1>7
      <3>2. i \in 2 .. n
        BY <1>2, <1>5, <2>6, <3>1
      <3> QED
        BY <1>8, <3>1, <3>2
    <2>7. CommandsPending' = CommandsPending \ {Entry(w)}
      BY <2>5, <2>6
    <2> QED
      BY <2>1, <2>2, <2>7
  <1>11. ASSUME ~ Asks(w) PROVE CommandsPending' = CommandsPending
    <2>1. \A i \in 2 .. n : i \in 1 .. n
      BY <1>2
    <2> QED
      BY <1>2, <1>5, <1>7, <1>8, <1>11, <2>1
  <1> QED
    BY <1>10, <1>11 DEF w
-----------------------------------------------------------------------------
(* The answers known.                                                      *)

LEMMA NoHead == ~ Answers(EmptyRx.lead)
  BY DEF Answers, EmptyRx

\* Packets that are read, thrown away or lost answer nothing new.
LEMMA FewerAnswers ==
  ASSUME NEW S, inPipe \in Seq(S), issued' = issued,
         \/ inPipe' = inPipe \/ inPipe' = <<>>
         \/ inPipe # <<>> /\ inPipe' = Tail(inPipe),
         rx'.lead \in Heads \cup {EmptyRx.lead}
  PROVE  AnswersSeen' \subseteq AnswersSeen
  <1>1. \A i \in 1 .. Len(inPipe') : inPipe'[i] \in Heads
    <2>1. CASE inPipe' = inPipe \/ inPipe' = <<>>
      BY <2>1 DEF Heads
    <2>2. CASE inPipe # <<>> /\ inPipe' = Tail(inPipe)
      <3>1. \A i \in 1 .. Len(inPipe') : i + 1 \in 1 .. Len(inPipe) /\ inPipe'[i] = inPipe[i + 1]
        BY <2>2
      <3> QED
        BY <3>1 DEF Heads
    <2> QED
      BY <2>1, <2>2
  <1>2. Heads' \subseteq Heads \cup {EmptyRx.lead}
    BY <1>1 DEF Heads
  <1>3. \A p : Answers(p)' <=> Answers(p)
    BY DEF Answers
  <1> QED
    BY <1>2, <1>3, NoHead DEF AnswersSeen

\* A frame that is queued answers the last request if it is a reply to it.
LEMMA QueueAnswers ==
  ASSUME IInv, NEW f \in Frame, inPipe' = inPipe \o Packets(f), UNCHANGED <<issued, rx>>
  PROVE  AnswersSeen' = AnswersSeen \cup (IF f.msg_type = "RSP" /\ f.id = issued
                                            THEN {f.status} ELSE {})
  <1> DEFINE m == Len(inPipe)
             q == Packets(f)
  <1>1. /\ q \in Seq(Packet) /\ Len(q) \in Nat \ {0}
        /\ \A i \in 1 .. Len(q) : q[i].frame = f
        /\ q[1].index = 1
    <2>1. q[1] = [frame |-> f, index |-> 1, len |-> PartLen(f, 1)]
      BY FrameStream
    <2>2. q[1].index = 1
      BY <2>1
    <2> QED
      BY <2>2, FramePackets, PacketsType
  <1>2. inPipe \in Seq(Packet)
    BY DEF IInv, TypeInv, TypeOK
  <1> HIDE DEF q
  <1>3. /\ m \in Nat /\ Len(inPipe') = m + Len(q)
        /\ \A i \in 1 .. m : inPipe'[i] = inPipe[i]
        /\ \A i \in 1 .. Len(q) : inPipe'[m + i] = q[i]
    BY <1>1, <1>2 DEF q
  <1> HIDE DEF m
  <1>4. \A i \in 1 .. m + Len(q) :
          i \in 1 .. m \/ (i - m \in 1 .. Len(q) /\ i = m + (i - m))
    BY <1>1, <1>3
  <1>5. /\ \A i \in 1 .. m : i \in 1 .. m + Len(q)
        /\ m + 1 \in 1 .. m + Len(q) /\ 1 \in 1 .. Len(q)
    BY <1>1, <1>3
  <1>6. /\ Heads = {inPipe[i] : i \in 1 .. m} \cup {rx.lead}
        /\ Heads' = {inPipe'[i] : i \in 1 .. m + Len(q)} \cup {rx.lead}
    BY <1>3 DEF Heads, m
  <1>7. /\ Heads \subseteq Heads' /\ q[1] \in Heads'
        /\ \A p \in Heads' : p \in Heads \/ p.frame = f
    <2>1. Heads \subseteq Heads'
      BY <1>3, <1>5, <1>6
    <2>2. q[1] \in Heads'
      BY <1>3, <1>5, <1>6
    <2>3. ASSUME NEW i \in 1 .. m + Len(q)
          PROVE  inPipe'[i] \in Heads \/ inPipe'[i].frame = f
      <3>1. CASE i \in 1 .. m
        BY <1>3, <1>6, <3>1
      <3>2. CASE i - m \in 1 .. Len(q) /\ i = m + (i - m)
        <4>1. inPipe'[i] = q[i - m]
          BY <1>3, <3>2
        <4> QED
          BY <1>1, <3>2, <4>1
      <3> QED
        BY <1>4, <3>1, <3>2
    <2> QED
      BY <1>6, <2>1, <2>2, <2>3
  <1>8. \A p : Answers(p)' <=> Answers(p)
    BY DEF Answers
  <1>9. /\ \A p \in Heads' \ Heads : Answers(p) => f.msg_type = "RSP" /\ f.id = issued
        /\ f.msg_type = "RSP" /\ f.id = issued => Answers(q[1])
        /\ q[1].frame = f
    BY <1>1, <1>5, <1>7 DEF Answers
  <1> QED
    BY <1>7, <1>8, <1>9 DEF AnswersSeen

\* Within a round, a frame that matches is the answer to the last request.
LEMMA MatchIsOwn ==
  ASSUME IInv, OneRound, NEW f \in Incoming, call.fn = "transact", Matches(call, f)
  PROVE  f.msg_type = "RSP" /\ f.id = issued /\ f.status \in {"OK", "ERR"}
  <1>1. f \in OwnAnswer /\ f.msg_type = "RSP" /\ f.ref_seq = seq
    BY IncomingFrames DEF Matches
  <1>2. f.id \in 1 .. MaxIssued /\ Numbered(seq, f.id) /\ f.id <= issued
    BY <1>1, OneSession DEF OwnAnswer, Genuine
  <1>3. issued \in 1 .. MaxIssued /\ Numbered(seq, issued) /\ seq \in 0 .. SeqMax
    BY MuxAssumption DEF IInv, TypeInv, TypeOK, AnswerInv, NumberInv
  <1>4. PICK rounds \in -MaxIssued .. MaxIssued : issued - f.id = rounds * SeqMax
    BY <1>2, <1>3, SameNumber
  <1>5. issued - f.id \in Int /\ 0 <= issued - f.id /\ issued - f.id < SeqMax /\ rounds \in Int
    BY <1>2, <1>3, MuxAssumption DEF OneRound
  <1>6. issued - f.id = 0
    BY <1>4, <1>5, NoRounds
  <1> QED
    BY <1>1, <1>2, <1>3, <1>6 DEF OwnAnswer, Frame
-----------------------------------------------------------------------------
(* Every step of the host is one RemoteCall allows.                        *)

LEMMA CallIsCommand ==
  ASSUME TypeInv
  PROVE  CommandIn(call) \in Abs!Command
  <1>1. call.ch_id \in Nat
    BY MuxAssumption DEF TypeInv, TypeOK, Call, NoCall, uart_write
  <1> QED
    BY <1>1 DEF CommandIn, KindOf, Abs!Command

LEMMA HeadsCome == \A p \in Heads : p.frame \in Incoming
  BY DEF Heads, Incoming

LEMMA StartRequestPromised ==
  ASSUME Known, OneRound, NEW c \in Calls, Transact(c) \/ UartWrite(c)
  PROVE  Abs!Begin
  <1>1. /\ pc = "idle" /\ call' = c /\ issued' = issued + 1
        /\ UNCHANGED <<outPipe, inPipe, plugged, openPorts>>
        /\ c.fn \in {"transact", "uart_write"} /\ rx' = EmptyRx
        /\ \/ pc' = "write" /\ ret' = NoRet
           \/ pc' = "idle" /\ ret'.result \in {"ERR_ARG", "ERR_OVERFLOW"}
    BY DEF Transact, UartWrite, StartRequest, Return, BuildErrors, devVars
  <1>2. TypeInv'
    BY NextType DEF Known, IInv, Next, Host
  <1>3. CommandIn(call)' \in Abs!Command
    <2>1. call'.ch_id \in Nat
      BY <1>2, MuxAssumption DEF TypeInv, TypeOK, Call, NoCall, uart_write
    <2> QED
      BY <2>1 DEF CommandIn, KindOf, Abs!Command
  <1>4. AnswersSeen' = {}
    <2>1. \A p \in Heads' : p \in Heads \/ p = EmptyRx.lead
      BY <1>1 DEF Heads
    <2>2. \A p \in Heads : p.frame.msg_type = "RSP" => p.frame.id # issued + 1
      <3>1. issued \in Nat /\ \A f \in Incoming : f.msg_type = "RSP" => f.id <= issued
        BY OneSession DEF Known
      <3>2. \A f \in Incoming : f.id \in Int
        BY IncomingFrames DEF Known
      <3> QED
        BY <3>1, <3>2, HeadsCome
    <2>3. EmptyRx.lead.index # 1
      BY DEF EmptyRx
    <2>4. \A p : Answers(p)' <=> p.index = 1 /\ p.frame.msg_type = "RSP" /\ p.frame.id = issued + 1
      BY <1>1 DEF Answers
    <2>5. \A p \in Heads' : ~ Answers(p)'
      BY <2>1, <2>2, <2>3, <2>4
    <2> QED
      BY <2>5 DEF AnswersSeen
  <1>5. CommandsPending' = CommandsPending
    BY <1>1 DEF CommandsPending, Entry, Asks, CommandIn, KindOf
  <1>6. PhaseNow = "idle"
    BY <1>1 DEF PhaseNow
  <1>7. \/ PhaseNow' = "begun" /\ OutcomeNow' = "none"
        \/ PhaseNow' = "idle" /\ OutcomeNow' \in {"none", "failed"}
    BY <1>1, EmptyFramesOwn DEF PhaseNow, OutcomeNow, IsCommand
  <1> QED
    BY <1>1, <1>3, <1>4, <1>5, <1>6, <1>7 DEF Abs!Begin

\* A refused argument, and the two calls that only read.
LEMMA OtherPromised ==
  ASSUME Known,
         \/ RejectArguments
         \/ \E c \in Calls : UartRead(c) \/ BleReadEvent(c)
  PROVE  Abs!Other
  <1>1. /\ pc = "idle" /\ call'.fn # "transact" /\ rx' = EmptyRx
        /\ UNCHANGED <<issued, outPipe, inPipe, plugged, openPorts>>
    BY DEF RejectArguments, UartRead, BleReadEvent, StartRead, Return, NoCall, uart_write, devVars
  <1>2. rx' = rx
    BY <1>1 DEF Known, CleanRx, PacketInv, Locals
  <1>3. CommandIn(call)' \in Abs!Command
    <2>1. TypeInv'
      BY NextType DEF Known, IInv, Next, Host
    <2>2. call'.ch_id \in Nat
      BY <2>1, MuxAssumption DEF TypeInv, TypeOK, Call, NoCall, uart_write
    <2> QED
      BY <2>2 DEF CommandIn, KindOf, Abs!Command
  <1>4. CommandsPending' = CommandsPending /\ AnswersSeen' = AnswersSeen
    BY <1>1, <1>2
    DEF CommandsPending, Entry, Asks, CommandIn, KindOf, AnswersSeen, Answers, Heads
  <1>5. PhaseNow = "idle" /\ PhaseNow' = "idle" /\ OutcomeNow' = "none"
    BY <1>1 DEF PhaseNow, OutcomeNow, IsCommand
  <1> QED
    BY <1>1, <1>3, <1>4, <1>5 DEF Abs!Other

LEMMA WritePromised ==
  ASSUME Known, WriteFrame \/ WriteFails
  PROVE  AbsNext
  <1>1. /\ pc = "write" /\ plugged
        /\ UNCHANGED <<call, seq, issued, inPipe, plugged, openPorts>>
    BY DEF WriteFrame, WriteFails
  <1>2. rx = EmptyRx /\ ret.result = "NONE"
    BY <1>1 DEF Known, CleanRx, PacketInv, Locals
  <1>3. rx' = rx
    BY <1>2 DEF WriteFrame, WriteFails, Return
  <1>4. AnswersSeen' = AnswersSeen
    BY <1>1, <1>3 DEF AnswersSeen, Answers, Heads
  <1>5. call.msg_type = "CMD" <=> IsCommand
    BY <1>1, MuxAssumption DEF Known, IInv, TypeInv, CallOK, Call, IsCommand
  <1>6. ASSUME NEW whole \in BOOLEAN, Sent(whole)
        PROVE  CommandsPending' = CommandsPending \cup
                                    (IF whole /\ IsCommand THEN {Abs!Mine} ELSE {})
    <2> DEFINE w == [frame |-> Request, whole |-> whole]
    <2>1. w \in Written /\ outPipe \in Seq(Written) /\ outPipe' = Append(outPipe, w)
      BY <1>1, <1>6, RequestType DEF Sent, Written, Known, IInv, TypeInv, TypeOK
    <2>2. Asks(w) <=> whole /\ IsCommand
      BY <1>5 DEF Asks, Request
    <2>3. Entry(w) = Abs!Mine
      BY DEF Entry, Abs!Mine, Request, CommandIn
    <2> HIDE DEF w
    <2> QED
      BY <2>1, <2>2, <2>3, AppendCommand
  <1>7. outPipe' = outPipe => CommandsPending' = CommandsPending
    BY DEF CommandsPending, Entry, Asks, CommandIn, KindOf
  <1>8. CASE ~ IsCommand
    <2>1. CommandsPending' = CommandsPending
      BY <1>6, <1>7, <1>8 DEF WriteFrame, WriteFails
    <2>2. UNCHANGED <<CommandIn(call), PhaseNow, OutcomeNow>>
      BY <1>1, <1>8 DEF CommandIn, KindOf, PhaseNow, OutcomeNow, IsCommand
    <2> QED
      BY <1>1, <1>4, <2>1, <2>2 DEF AbsNext, Abs!vars
  <1>9. CASE IsCommand /\ WriteFrame
    <2>1. CommandsPending' = CommandsPending \cup {Abs!Mine}
      BY <1>6, <1>9 DEF WriteFrame
    <2>2. UNCHANGED <<CommandIn(call), OutcomeNow>>
      BY <1>1, <1>9 DEF WriteFrame, CommandIn, KindOf, OutcomeNow, IsCommand
    <2>3. PhaseNow = "begun" /\ PhaseNow' = "sent"
      BY <1>1, <1>9 DEF WriteFrame, PhaseNow, IsCommand
    <2> QED
      BY <1>1, <1>4, <2>1, <2>2, <2>3 DEF AbsNext, Abs!Next, Abs!Send
  <1>10. CASE IsCommand /\ WriteFails
    <2>1. CommandsPending' \in {CommandsPending, CommandsPending \cup {Abs!Mine}}
      BY <1>6, <1>7, <1>10 DEF WriteFails
    <2>2. pc' = "idle" /\ ret'.result \in {"ERR_IO", "ERR_TIMEOUT"}
      BY <1>10 DEF WriteFails, Return, TransferErrors
    <2>3. PhaseNow = "begun" /\ PhaseNow' = "idle" /\ OutcomeNow' = "failed"
      BY <1>1, <1>10, <2>2 DEF PhaseNow, OutcomeNow, IsCommand
    <2>4. CommandIn(call)' = CommandIn(call)
      BY <1>1 DEF CommandIn, KindOf
    <2> QED
      BY <1>1, <1>4, <2>1, <2>3, <2>4 DEF AbsNext, Abs!Next, Abs!Fail
  <1> QED
    BY <1>8, <1>9, <1>10

\* A call that fails in a transfer, or after one, and takes no answer.
LEMMA FailPromised ==
  ASSUME pc \in {"write", "read"}, pc' = "idle",
         ret'.result \notin {"NONE", "OK", "ERR_DEVICE_STATUS"} \/ ~ IsCommand,
         UNCHANGED <<call, issued, outPipe, plugged, openPorts>>,
         AnswersSeen' \subseteq AnswersSeen
  PROVE  AbsNext
  <1>1. CommandIn(call)' = CommandIn(call) /\ CommandsPending' = CommandsPending
    BY DEF CommandsPending, Entry, Asks, CommandIn, KindOf
  <1>2. CASE IsCommand
    <2>1. PhaseNow # "idle" /\ PhaseNow' = "idle" /\ OutcomeNow' = "failed"
      BY <1>2 DEF PhaseNow, OutcomeNow, IsCommand
    <2> QED
      BY <1>1, <2>1 DEF AbsNext, Abs!Next, Abs!Fail
  <1>3. CASE ~ IsCommand
    <2>1. UNCHANGED <<PhaseNow, OutcomeNow>>
      BY <1>3 DEF PhaseNow, OutcomeNow, IsCommand
    <2> QED
      BY <1>1, <2>1 DEF AbsNext, Abs!Next, Abs!Fade
  <1> QED
    BY <1>2, <1>3

LEMMA EndPromised ==
  ASSUME Known, ReadFails \/ NoDevice
  PROVE  AbsNext
  <1>1. /\ pc \in {"write", "read"} /\ pc' = "idle" /\ rx' = EmptyRx
        /\ ret'.result \in {"ERR_IO", "ERR_TIMEOUT", "ERR_NOT_FOUND"}
        /\ UNCHANGED <<call, issued, outPipe, inPipe, plugged, openPorts>>
    BY DEF ReadFails, NoDevice, Return, TransferErrors, devVars
  <1>2. inPipe \in Seq(Packet)
    BY DEF Known, IInv, TypeInv, TypeOK
  <1>3. AnswersSeen' \subseteq AnswersSeen
    BY <1>1, <1>2, FewerAnswers
  <1> QED
    BY <1>1, <1>3, FailPromised

\* What a command makes of a frame that matches it, and of one that does not.
LEMMA TakeOutcomes ==
  ASSUME NEW f, call.fn = "transact"
  PROVE  /\ Verdict(call, f) # "NONE"
         /\ Verdict(call, f) = "OK" => Matches(call, f) /\ f.status = "OK"
         /\ Verdict(call, f) = "ERR_DEVICE_STATUS" => Matches(call, f) /\ f.status # "OK"
  BY DEF Verdict, TakeResponse

LEMMA ReadPacketPromised ==
  ASSUME Known, OneRound, ReadPacket
  PROVE  AbsNext
  <1> DEFINE p    == Head(inPipe)
             lead == IF rx.offset = 0 THEN p ELSE rx.lead
  <1>1. /\ pc = "read" /\ plugged /\ inPipe # <<>> /\ inPipe' = Tail(inPipe)
        /\ UNCHANGED <<call, issued, outPipe, plugged, openPorts>>
    BY DEF ReadPacket
  <1>2. inPipe \in Seq(Packet)
    BY DEF Known, IInv, TypeInv, TypeOK
  <1>3. lead \in Heads
    <2>1. 1 \in 1 .. Len(inPipe) /\ p = inPipe[1]
      BY <1>1, <1>2
    <2> QED
      BY <2>1 DEF Heads
  <1>4. \/ rx'.lead = lead /\ UNCHANGED <<pc, ret>>
        \/ \E e \in {"ERR_IO", "ERR_PROTO"} : Return(e, NoFrame, TRUE)
        \/ /\ lead.index = 1 /\ pc' = "idle" /\ rx' = EmptyRx
           /\ ret'.result = Verdict(call, lead.frame)
    BY ReadOutcomes DEF Known, IInv, Return
  <1> HIDE DEF lead
  <1>5. rx'.lead \in Heads \cup {EmptyRx.lead}
    BY <1>3, <1>4 DEF Return
  <1>6. AnswersSeen' \subseteq AnswersSeen
    BY <1>1, <1>2, <1>5, FewerAnswers
  <1>7. CommandIn(call)' = CommandIn(call) /\ CommandsPending' = CommandsPending
    BY <1>1 DEF CommandsPending, Entry, Asks, CommandIn, KindOf
  <1>8. CASE UNCHANGED <<pc, ret>>
    <2>1. UNCHANGED <<PhaseNow, OutcomeNow>>
      BY <1>1, <1>8 DEF PhaseNow, OutcomeNow, IsCommand
    <2> QED
      BY <1>1, <1>6, <1>7, <2>1 DEF AbsNext, Abs!Next, Abs!Fade
  <1>9. CASE \E e \in {"ERR_IO", "ERR_PROTO"} : Return(e, NoFrame, TRUE)
    <2>1. pc' = "idle" /\ ret'.result \in {"ERR_IO", "ERR_PROTO"}
      BY <1>9 DEF Return
    <2> QED
      BY <1>1, <1>6, <2>1, FailPromised
  <1>10. CASE /\ lead.index = 1 /\ pc' = "idle"
              /\ ret'.result = Verdict(call, lead.frame)
    <2>1. pc' = "idle" /\ ret'.result = Verdict(call, lead.frame)
      BY <1>10
    <2>2. CASE ~ IsCommand
      BY <1>1, <1>6, <2>1, <2>2, FailPromised
    <2>3. CASE IsCommand /\ Verdict(call, lead.frame) \in {"OK", "ERR_DEVICE_STATUS"}
      <3>1. call.fn = "transact"
        BY <2>3 DEF IsCommand
      <3>2. Matches(call, lead.frame)
        BY <2>3, <3>1, TakeOutcomes
      <3>3. Answers(lead) /\ lead.frame.status \in {"OK", "ERR"}
        <4>1. lead.frame \in Incoming
          BY <1>3, HeadsCome
        <4> QED
          BY <1>10, <3>1, <3>2, <4>1, MatchIsOwn DEF Answers, Known
      <3>4. lead.frame.status \in AnswersSeen
        BY <1>3, <3>3 DEF AnswersSeen
      <3>5. \/ "OK" \in AnswersSeen /\ OutcomeNow' = "ok"
            \/ "ERR" \in AnswersSeen /\ OutcomeNow' = "refused"
        <4>1. CASE Verdict(call, lead.frame) = "OK"
          <5>1. OutcomeNow' = "ok"
            BY <1>1, <2>1, <3>1, <4>1 DEF OutcomeNow, IsCommand
          <5> QED
            BY <3>1, <3>4, <4>1, <5>1, TakeOutcomes
        <4>2. CASE Verdict(call, lead.frame) = "ERR_DEVICE_STATUS"
          <5>1. OutcomeNow' = "refused"
            BY <1>1, <2>1, <3>1, <4>2 DEF OutcomeNow, IsCommand
          <5> QED
            BY <3>1, <3>3, <3>4, <4>2, <5>1, TakeOutcomes
        <4> QED
          BY <2>3, <4>1, <4>2
      <3>6. PhaseNow = "sent" /\ PhaseNow' = "idle"
        BY <1>1, <2>1, <3>1 DEF PhaseNow, IsCommand
      <3> QED
        BY <1>1, <1>6, <1>7, <3>5, <3>6 DEF AbsNext, Abs!Next, Abs!Return
    <2>4. CASE IsCommand /\ Verdict(call, lead.frame) \notin {"OK", "ERR_DEVICE_STATUS"}
      <3>1. ret'.result \notin {"NONE", "OK", "ERR_DEVICE_STATUS"}
        BY <2>1, <2>4, TakeOutcomes DEF IsCommand
      <3> QED
        BY <1>1, <1>6, <2>1, <3>1, FailPromised
    <2> QED
      BY <2>2, <2>3, <2>4
  <1> QED
    BY <1>4, <1>8, <1>9, <1>10

LEMMA HostPromised ==
  ASSUME Known, OneRound, Host
  PROVE  AbsNext
  <1>1. ~ Reopen
    BY MuxAssumption DEF Reopen, OneRound, Known, IInv, TypeInv, TypeOK
  <1> QED
    BY <1>1, StartRequestPromised, OtherPromised, WritePromised, EndPromised,
       ReadPacketPromised
    DEF Host, AbsNext, Abs!Next
-----------------------------------------------------------------------------
(* Every step of the device is one RemoteCall allows.                      *)

LEMMA AnswerPromised ==
  ASSUME Known, OneRound, DeviceExecutes \/ DeviceRefuses
  PROVE  AbsNext
  <1> DEFINE w   == Head(outPipe)
             x   == Entry(w)
             req == w.frame
  <1>1. /\ outPipe # <<>> /\ outPipe' = Tail(outPipe) /\ Asks(w)
        /\ UNCHANGED <<pc, call, rx, ret, issued, plugged>>
    BY DEF DeviceExecutes, DeviceRefuses, hostVars, Asks
  <1>2. /\ x \in CommandsPending
        /\ \A y \in CommandsPending : x.id <= y.id
        /\ CommandsPending' = CommandsPending \ {x}
    BY <1>1, TakeCommand DEF Known, OrderInv
  <1>3. req \in Frame
    <2>1. outPipe \in Seq(Written)
      BY DEF Known, IInv, TypeInv, TypeOK
    <2>2. w \in Written
      BY <1>1, <2>1, SeqParts
    <2> QED
      BY <2>2 DEF Written
  <1>4. PICK status \in {"OK", "ERR"}, len \in 0 .. MAX_PAYLOAD :
          /\ inPipe' = inPipe \o Packets(Answer(req, status, len))
          /\ \/ DeviceExecutes /\ status = "OK"
             \/ DeviceRefuses /\ status = "ERR"
    <2>1. 0 \in 0 .. MAX_PAYLOAD /\ RspLens \subseteq 0 .. MAX_PAYLOAD
      BY MuxAssumption DEF MAX_PAYLOAD, MAX_FRAME_LEN, HEADER_LEN
    <2>2. CASE DeviceExecutes
      BY <2>1, <2>2 DEF DeviceExecutes
    <2>3. CASE DeviceRefuses
      BY <2>1, <2>3 DEF DeviceRefuses
    <2> QED
      BY <2>2, <2>3
  <1> DEFINE a == Answer(req, status, len)
  <1>5. /\ a \in Frame /\ a.msg_type = "RSP" /\ a.id = req.id /\ a.status = status
    BY <1>3, AnswerType DEF Answer, Frame
  <1>6. x.id = req.id /\ x.command = CommandIn(req)
    BY DEF Entry
  <1> HIDE DEF a
  <1>7. AnswersSeen' = AnswersSeen \cup (IF a.msg_type = "RSP" /\ a.id = issued
                                           THEN {a.status} ELSE {})
    BY <1>1, <1>4, <1>5, QueueAnswers DEF Known, a
  <1>8. AnswersSeen' = IF x.id = issued THEN AnswersSeen \cup {status} ELSE AnswersSeen
    BY <1>5, <1>6, <1>7
  <1>9. UNCHANGED <<CommandIn(call), PhaseNow, OutcomeNow>>
    BY <1>1 DEF CommandIn, KindOf, PhaseNow, OutcomeNow, IsCommand
  <1>10. CASE DeviceExecutes /\ status = "OK"
    <2>1. openPorts' =
            IF req.ch_type = "UART_CTRL" /\ req.opcode = 3 THEN openPorts \cup {req.ch_id}
            ELSE IF req.ch_type = "UART_CTRL" /\ req.opcode = 4 THEN openPorts \ {req.ch_id}
            ELSE openPorts
      BY <1>10 DEF DeviceExecutes
    <2> HIDE DEF req, x
    <2>2. openPorts' = CASE x.command.kind = "open"  -> openPorts \cup {x.command.port}
                         [] x.command.kind = "close" -> openPorts \ {x.command.port}
                         [] OTHER -> openPorts
      <3>1. /\ x.command.kind = KindOf(req.ch_type, req.opcode)
            /\ x.command.port = req.ch_id
        BY <1>6 DEF CommandIn
      <3> QED
        BY <2>1, <3>1 DEF KindOf
    <2>3. Abs!Execute(x)
      BY <1>1, <1>2, <1>8, <1>9, <1>10, <2>2 DEF Abs!Execute, Abs!Oldest, Abs!Answered
    <2> QED
      BY <1>2, <2>3 DEF AbsNext, Abs!Next
  <1>11. CASE DeviceRefuses /\ status = "ERR"
    <2>1. openPorts' = openPorts
      BY <1>11 DEF DeviceRefuses
    <2> HIDE DEF req, x
    <2>2. Abs!Refuse(x)
      BY <1>1, <1>2, <1>8, <1>9, <1>11, <2>1 DEF Abs!Refuse, Abs!Oldest, Abs!Answered
    <2> QED
      BY <1>2, <2>2 DEF AbsNext, Abs!Next
  <1> QED
    BY <1>4, <1>10, <1>11

LEMMA DevicePromised ==
  ASSUME Known, OneRound, Device
  PROVE  AbsNext
  <1>1. /\ UNCHANGED <<pc, call, rx, ret, issued>>
        /\ UNCHANGED <<CommandIn(call), PhaseNow, OutcomeNow>>
    BY DEF Device, DeviceExecutes, DeviceRefuses, DeviceDiscards, DeviceSpeaks, Speaks, Unplug,
           hostVars, CommandIn, KindOf, PhaseNow, OutcomeNow, IsCommand
  <1>2. inPipe \in Seq(Packet)
    BY DEF Known, IInv, TypeInv, TypeOK
  <1>3. CASE DeviceExecutes \/ DeviceRefuses
    BY <1>3, AnswerPromised
  <1>4. CASE DeviceDiscards
    <2> DEFINE w == Head(outPipe)
               x == Entry(w)
    <2>1. /\ outPipe # <<>> /\ outPipe' = Tail(outPipe)
          /\ UNCHANGED <<inPipe, openPorts, plugged>>
      BY <1>4 DEF DeviceDiscards
    <2>2. AnswersSeen' = AnswersSeen
      BY <1>1, <2>1 DEF AnswersSeen, Answers, Heads
    <2>3. /\ Asks(w) => /\ x \in CommandsPending
                        /\ \A y \in CommandsPending : x.id <= y.id
                        /\ CommandsPending' = CommandsPending \ {x}
          /\ ~ Asks(w) => CommandsPending' = CommandsPending
      BY <2>1, TakeCommand DEF Known, OrderInv
    <2> HIDE DEF w, x
    <2>4. Asks(w) => x \in CommandsPending /\ Abs!Lose(x)
      BY <1>1, <2>1, <2>2, <2>3 DEF Abs!Lose, Abs!Oldest
    <2>5. ~ Asks(w) => UNCHANGED Abs!vars
      BY <1>1, <2>1, <2>2, <2>3 DEF Abs!vars
    <2> QED
      BY <2>4, <2>5 DEF AbsNext, Abs!Next
  <1>5. CASE DeviceSpeaks
    <2>1. PICK u \in Unsolicited : inPipe' = inPipe \o Packets(Spontaneous(u[1], u[2], u[3]))
      BY <1>5 DEF DeviceSpeaks, Speaks
    <2>2. UNCHANGED <<outPipe, plugged, openPorts>>
      BY <1>5 DEF DeviceSpeaks, Speaks
    <2> DEFINE f == Spontaneous(u[1], u[2], u[3])
    <2>3. f \in Frame /\ f.msg_type # "RSP"
      BY MuxAssumption, SpontaneousType DEF Spontaneous, Known, IInv
    <2> HIDE DEF f
    <2>4. AnswersSeen' = AnswersSeen
      BY <1>1, <2>1, <2>3, QueueAnswers DEF Known, f
    <2>5. CommandsPending' = CommandsPending
      BY <2>2 DEF CommandsPending, Entry, Asks, CommandIn, KindOf
    <2> QED
      BY <1>1, <2>2, <2>4, <2>5 DEF AbsNext, Abs!vars
  <1>6. CASE Unplug
    <2>1. /\ plugged' = FALSE /\ openPorts' = {} /\ inPipe' = <<>>
          /\ CommandsPending' = {}
      BY <1>6 DEF Unplug, CommandsPending
    <2>2. AnswersSeen' \subseteq AnswersSeen
      BY <1>1, <1>2, <2>1, FewerAnswers DEF Heads
    <2> QED
      BY <1>1, <2>1, <2>2 DEF AbsNext, Abs!Next, Abs!Leave
  <1> QED
    BY <1>3, <1>4, <1>5, <1>6 DEF Device

LEMMA InitPromised == Init => Abs!Init
  <1> SUFFICES ASSUME Init PROVE Abs!Init
    OBVIOUS
  <1>1. Len(outPipe) = 0 /\ Len(inPipe) = 0 /\ rx = EmptyRx /\ ret = NoRet /\ call = NoCall
    BY DEF Init
  <1>2. CommandsPending = {}
    BY <1>1 DEF CommandsPending
  <1>3. AnswersSeen = {}
    BY <1>1, NoHead DEF AnswersSeen, Heads
  <1>4. CommandIn(call) \in Abs!Command
    BY InitType, CallIsCommand
  <1>5. PhaseNow = "idle" /\ OutcomeNow = "none"
    BY <1>1 DEF PhaseNow, OutcomeNow, IsCommand, NoCall, uart_write
  <1> QED
    BY <1>2, <1>3, <1>4, <1>5 DEF Abs!Init, Init

\* The library implements RemoteCall in one session of less than a round: for
\* any calls, any traffic, any depth of the pipes, timeouts, late answers,
\* failed transfers and unplugging, a command has only the effects RemoteCall
\* allows and its call returns only what RemoteCall allows.
THEOREM PromiseKept == OneRound /\ Spec => KeepsItsPromise
  <1>1. OneRound /\ Known /\ [Next]_vars => AbsNext
    <2>1. ASSUME UNCHANGED vars PROVE UNCHANGED Abs!vars
      <3>1. UNCHANGED <<pc, call, rx, ret, outPipe, inPipe, plugged, openPorts, issued>>
        BY <2>1 DEF vars, hostVars, devVars
      <3> QED
        BY <3>1 DEF Abs!vars, CommandIn, KindOf, PhaseNow, OutcomeNow, IsCommand,
                    CommandsPending, Entry, Asks, AnswersSeen, Answers, Heads
    <2> QED
      BY <2>1, HostPromised, DevicePromised DEF Next, AbsNext
  <1>2. OneRound => []OneRound
    BY DEF OneRound
  <1>3. OneRound /\ Known /\ [Next]_vars => [Abs!Next]_(Abs!vars)
    BY <1>1 DEF AbsNext
  <1> QED
    BY <1>2, <1>3, InitPromised, KnownAlways, PTL DEF Spec, KeepsItsPromise, Abs!Spec
=============================================================================
