---------------------------- MODULE MuxRunProofs ----------------------------
(***************************************************************************)
(* What one run of the command line tool makes of what earlier runs have   *)
(* left behind: data of their texts, and answers nobody has read.          *)
(***************************************************************************)
EXTENDS MuxCliProofs

-----------------------------------------------------------------------------
(* Counting what is in a pipe.                                             *)

Bool(b) == IF b THEN 1 ELSE 0
Places(q, S) == {i \in 1 .. Len(q) : q[i] \in S}
Count(q, S) == Cardinality(Places(q, S))

LEMMA BoolType == \A b : Bool(b) \in {0, 1} /\ (b => Bool(b) = 1) /\ (~ b => Bool(b) = 0)
  BY DEF Bool

LEMMA PlacesFinite ==
  ASSUME NEW T, NEW q \in Seq(T), NEW S
  PROVE  IsFiniteSet(Places(q, S)) /\ Count(q, S) \in Nat
  <1>1. Len(q) \in Nat
    OBVIOUS
  <1>2. IsFiniteSet(1 .. Len(q))
    BY <1>1, FS_Interval
  <1>3. Places(q, S) \in SUBSET (1 .. Len(q))
    BY DEF Places
  <1> QED
    BY <1>2, <1>3, FS_Subset, FS_CardinalityType DEF Count

LEMMA CountEmpty == \A S : Count(<<>>, S) = 0
  BY FS_EmptySet DEF Count, Places

LEMMA CountConcat ==
  ASSUME NEW T, NEW q \in Seq(T), NEW r \in Seq(T), NEW S
  PROVE  Count(q \o r, S) = Count(q, S) + Count(r, S)
  <1> DEFINE n == Len(q)
             A == Places(q, S)
             B == Places(r, S)
             C == {i \in n + 1 .. n + Len(r) : r[i - n] \in S}
  <1>1. n \in Nat /\ Len(r) \in Nat
    OBVIOUS
  <1>2. IsFiniteSet(A) /\ IsFiniteSet(B)
    BY PlacesFinite
  <1>3. Places(q \o r, S) = A \cup C
    BY DEF Places
  <1>4. A \cap C = {}
    BY <1>1 DEF Places
  <1>5. ExistsBijection(B, C)
    <2> DEFINE f == [i \in B |-> i + n]
    <2>1. B \subseteq 1 .. Len(r)
      BY DEF Places
    <2>2. f \in [B -> C]
      BY <1>1, <2>1 DEF Places
    <2>3. \A i, j \in B : f[i] = f[j] => i = j
      BY <1>1, <2>1
    <2>4. \A k \in C : \E i \in B : f[i] = k
      <3> SUFFICES ASSUME NEW k \in C PROVE \E i \in B : f[i] = k
        OBVIOUS
      <3>1. k - n \in B /\ (k - n) + n = k
        BY <1>1 DEF Places
      <3> QED
        BY <3>1
    <2> HIDE DEF f
    <2>5. f \in Bijection(B, C)
      BY <2>2, <2>3, <2>4 DEF Bijection, Injection, Surjection, IsInjective
    <2> QED
      BY <2>5 DEF ExistsBijection
  <1> HIDE DEF C
  <1>6. IsFiniteSet(C) /\ Cardinality(C) = Cardinality(B)
    BY <1>2, <1>5, FS_Bijection
  <1>7. Cardinality(A \cup C) = Cardinality(A) + Cardinality(C) - Cardinality(A \cap C)
    BY <1>2, <1>6, FS_Union
  <1>8. Cardinality(A) \in Nat /\ Cardinality(B) \in Nat
    BY <1>2, FS_CardinalityType
  <1>9. Cardinality(A \cap C) = 0
    BY <1>4, FS_EmptySet
  <1>10. /\ Count(q \o r, S) = Cardinality(A \cup C)
         /\ Count(q, S) = Cardinality(A) /\ Count(r, S) = Cardinality(B)
    BY <1>3 DEF Count
  <1> HIDE DEF A, B
  <1> QED
    BY <1>6, <1>7, <1>8, <1>9, <1>10

LEMMA CountOne == \A x, S : Count(<<x>>, S) = Bool(x \in S)
  <1> SUFFICES ASSUME NEW x, NEW S PROVE Count(<<x>>, S) = Bool(x \in S)
    OBVIOUS
  <1>1. x \in S => Places(<<x>>, S) = {1}
    BY DEF Places
  <1>2. x \notin S => Places(<<x>>, S) = {}
    BY DEF Places
  <1> QED
    BY <1>1, <1>2, FS_EmptySet, FS_Singleton DEF Count, Bool

LEMMA CountAppend ==
  ASSUME NEW T, NEW q \in Seq(T), NEW x \in T, NEW S
  PROVE  Count(Append(q, x), S) = Count(q, S) + Bool(x \in S)
  <1>1. Append(q, x) = q \o <<x>> /\ <<x>> \in Seq(T)
    OBVIOUS
  <1> QED
    BY <1>1, CountConcat, CountOne

LEMMA CountTail ==
  ASSUME NEW T, NEW q \in Seq(T), q # <<>>, NEW S
  PROVE  Count(q, S) = Count(Tail(q), S) + Bool(Head(q) \in S) /\ Count(Tail(q), S) \in Nat
  <1> DEFINE h == <<Head(q)>>
             t == Tail(q)
  <1>1. h \in Seq(T) /\ t \in Seq(T) /\ q = h \o t
    OBVIOUS
  <1>2. Count(h, S) = Bool(Head(q) \in S)
    BY CountOne
  <1> HIDE DEF h, t
  <1>3. Count(t, S) \in Nat
    BY <1>1, PlacesFinite
  <1>4. Count(q, S) = Count(h, S) + Count(t, S)
    <2>1. Count(h \o t, S) = Count(h, S) + Count(t, S)
      BY <1>1, CountConcat
    <2> QED
      BY <1>1, <2>1
  <1>5. Bool(Head(q) \in S) \in {0, 1}
    BY BoolType
  <1> QED
    BY <1>2, <1>3, <1>4, <1>5 DEF t

-----------------------------------------------------------------------------
(* The locals of the process.                                              *)

TotalInv ==
  /\ rx_total \in 0 .. MAX_FRAME_LEN
  /\ step = "lb_read" /\ phase # "ended" => rx_total < payload_len

FlagsInv ==
  /\ match \in BOOLEAN /\ timeup \in BOOLEAN /\ scanning \in BOOLEAN
  /\ owed \in BOOLEAN /\ faulty \in BOOLEAN

\* ch32mux_uart_read() hands over data and nothing else.
DataRead == call.fn = "uart_read" /\ ret.result = "OK" => ret.frame.msg_type = "DATA"

\* What a Decide step does to the number of bytes received.
LEMMA DecideTotal ==
  ASSUME ToolInv, TotalInv, Decide
  PROVE  TotalInv'
  <1>1. payload_len' = payload_len /\ MAX_FRAME_LEN = 512 /\ rx_total \in Nat
    BY DecideMoves DEF ToolInv, TotalInv, MAX_FRAME_LEN
  <1>2. CASE LoopbackTakes
    <2>1. ret.frame.payload_len \in Nat
      <3>1. ret \in Outcome
        BY DEF ToolInv, BaseInv, IInv, TypeInv, TypeOK
      <3>2. ret.frame \in Frame
        BY <3>1 DEF Outcome
      <3> QED
        BY <3>2 DEF Frame
    <2>2. /\ rx_total' = rx_total + ret.frame.payload_len
          /\ rx_total + ret.frame.payload_len <= MAX_FRAME_LEN
          /\ ReadOrClose(rx_total')
      BY <1>2 DEF LoopbackTakes, ChunkFits
    <2>3. step' = "lb_read" => rx_total' < payload_len
      BY <2>2 DEF ReadOrClose, Goto
    <2>4. PICK a \in Nat, b \in Nat : rx_total = a /\ ret.frame.payload_len = b
      BY <1>1, <2>1
    <2>5. rx_total' = a + b /\ a + b <= 512
      BY <1>1, <2>2, <2>4
    <2>6. a + b \in 0 .. 512
      BY <2>5
    <2> QED
      BY <1>1, <2>3, <2>5, <2>6 DEF TotalInv, MAX_FRAME_LEN
  <1>3. CASE LoopbackWritten
    BY <1>1, <1>3 DEF LoopbackWritten, ReadOrClose, Goto, TotalInv
  <1>4. CASE Proceed
    BY <1>4, NextSteps DEF Proceed, Back, Goto, TotalInv
  <1>5. CASE LoopbackAborts \/ ScanContinues \/ ScanTimeIsUp
    BY <1>5 DEF LoopbackAborts, ScanContinues, ScanTimeIsUp, Goto, TotalInv
  <1>6. CASE Succeed \/ GiveUp \/ LoopbackAborted \/ LoopbackEnds \/ DebugEnds
    BY <1>6 DEF Succeed, GiveUp, LoopbackAborted, LoopbackEnds, DebugEnds, Exit, TotalInv
  <1> QED
    BY <1>2, <1>3, <1>4, <1>5, <1>6 DEF Decide

LEMMA NextTotal ==
  ASSUME ToolInv, TotalInv, [CliNext]_cliVars
  PROVE  TotalInv'
  <1>1. CASE Run
    <2>1. PICK c \in Commands : step' = FirstStep[c] /\ rx_total' = 0
      BY <1>1 DEF Run, Start
    <2>2. step' # "lb_read"
      BY <2>1, FirstSteps, CliAssumption
    <2> QED
      BY <2>1, <2>2 DEF TotalInv, MAX_FRAME_LEN
  <1>2. CASE BadArguments \/ DoCall \/ Clock \/ Kill
    BY <1>2 DEF BadArguments, DoCall, Clock, Kill, TotalInv
  <1>3. CASE Transfer \/ TransferNotWritten \/ DebugRead
    BY <1>3, TransferStays DEF ToolInv, TotalInv
  <1>4. CASE CliDevice \/ UNCHANGED cliVars
    BY <1>4, CliDeviceStays DEF cliVars, progVars, TotalInv
  <1> QED
    BY <1>1, <1>2, <1>3, <1>4, DecideTotal DEF CliNext, Tool

LEMMA NextFlags ==
  ASSUME ToolInv, FlagsInv, [CliNext]_cliVars
  PROVE  FlagsInv'
  <1>1. CASE Run
    BY <1>1 DEF Run, Start, portVars, FlagsInv
  <1>2. CASE BadArguments \/ DoCall \/ Clock \/ Kill \/ UNCHANGED cliVars
    BY <1>2 DEF BadArguments, DoCall, Clock, Kill, portVars, histVars, progVars, cliVars, FlagsInv
  <1>3. CASE Decide
    <2>1. UNCHANGED <<timeup, portVars, owed, faulty>>
      BY <1>3, DecideMoves DEF ToolInv
    <2>2. match' \in BOOLEAN
      <3>1. CASE LoopbackTakes
        BY <3>1 DEF LoopbackTakes
      <3>2. CASE Decide /\ ~ LoopbackTakes
        BY <3>2
        DEF Decide, Proceed, Succeed, GiveUp, LoopbackWritten, LoopbackAborts, LoopbackAborted,
            LoopbackEnds, ScanContinues, ScanTimeIsUp, DebugEnds, FlagsInv
      <3> QED
        BY <1>3, <3>1, <3>2
    <2> QED
      BY <2>1, <2>2 DEF portVars, FlagsInv
  <1>4. CASE Transfer \/ DebugRead
    BY <1>4 DEF Transfer, DebugRead, progVars, portVars, histVars, FlagsInv
  <1>5. CASE TransferNotWritten \/ CliRefuses
    BY <1>5 DEF TransferNotWritten, CliRefuses, progVars, portVars, FlagsInv
  <1>6. CASE CliExecutes \/ PortSends \/ PortDrops \/ CliSpeaks \/ CliUnplug \/ PortLoops
    BY <1>6 DEF CliExecutes, PortSends, PortDrops, CliSpeaks, CliUnplug, PortLoops, progVars,
                portVars, histVars, FlagsInv
  <1>7. CASE CliDiscards
    <2>1. UNCHANGED <<match, timeup, scanning, owed>>
      BY <1>7 DEF CliDiscards, progVars, portVars
    <2>2. faulty' \in BOOLEAN
      BY <1>7 DEF CliDiscards
    <2> QED
      BY <2>1, <2>2 DEF FlagsInv
  <1> QED
    BY <1>1, <1>2, <1>3, <1>4, <1>5, <1>6, <1>7 DEF CliNext, Tool, CliDevice

LEMMA NextDataRead ==
  ASSUME ToolInv, DataRead, [CliNext]_cliVars
  PROVE  DataRead'
  <1> USE DEF ToolInv, BaseInv
  <1>1. CASE ReadPacket
    <2> DEFINE lead == IF rx.offset = 0 THEN Head(inPipe) ELSE rx.lead
    <2>1. call' = call
      BY <1>1 DEF ReadPacket
    <2>2. \/ ret' = ret
          \/ ret'.result # "OK"
          \/ ret'.result = Verdict(call, lead.frame) /\ ret'.frame = lead.frame
      BY <1>1, ReadOutcomes DEF Return, IInv
    <2> HIDE DEF lead
    <2>3. call.fn = "uart_read" /\ Verdict(call, lead.frame) = "OK" => lead.frame.msg_type = "DATA"
      BY DEF Verdict, TakeData
    <2> QED
      BY <2>1, <2>2, <2>3 DEF DataRead
  <1>2. CASE \E c \in Calls : Transact(c) \/ UartWrite(c) \/ UartRead(c) \/ BleReadEvent(c)
    BY <1>2, EmptyFramesOwn
    DEF Transact, UartWrite, UartRead, BleReadEvent, StartRequest, StartRead, BuildErrors,
        Return, DataRead
  <1>3. CASE WriteFrame
    BY <1>3 DEF WriteFrame, DataRead, IInv, TypeInv, CallOK
  <1>4. CASE WriteFails \/ ReadFails \/ NoDevice \/ RejectArguments \/ Reopen
    <2>1. ret'.result # "OK"
      BY <1>4, EmptyFramesOwn
      DEF WriteFails, ReadFails, NoDevice, RejectArguments, Reopen, Return, TransferErrors
    <2> QED
      BY <2>1 DEF DataRead
  <1>5. CASE Device \/ UNCHANGED vars
    <2>1. UNCHANGED <<call, ret>>
      BY <1>5 DEF Device, DeviceExecutes, DeviceRefuses, DeviceDiscards, DeviceSpeaks, Speaks,
                  Unplug, vars, hostVars
    <2> QED
      BY <2>1 DEF DataRead
  <1>6. CASE DebugRead
    <2>1. step = "dbg_in" /\ call = MadeBy(step) /\ call' = call
      BY <1>6, TransferStays DEF DebugRead, ProgramInv, PhaseOK, CallMade
    <2>2. call.fn = "transact"
      BY <2>1, AllSteps, CommandSteps DEF IsCommand
    <2> QED
      BY <2>1, <2>2 DEF DataRead
  <1> QED
    BY <1>1, <1>2, <1>3, <1>4, <1>5, <1>6, MuxStep DEF Host, cliVars

-----------------------------------------------------------------------------
(* No more texts than runs.                                                *)

TextFrames == {w \in Written : w.frame.msg_type = "DATA"}

\* The run has its text still to write.
TextToCome ==
  \/ phase = "do" /\ step \in {"lb_open", "lb_write"}
  \/ phase = "done" /\ step = "lb_open"
  \/ phase = "done" /\ step = "lb_write" /\ pc = "write"

RunsInv ==
  /\ loops \in Nat /\ successes \in Nat
  /\ loops + Count(outPipe, TextFrames) + Bool(TextToCome) <= epoch
  /\ successes + Bool(phase # "ended") <= epoch

LEMMA TextMoves ==
  ASSUME ToolInv, [CliNext]_cliVars, ~ Run, TextToCome'
  PROVE  TextToCome /\ ((WriteFrame \/ TransferNotWritten) => Request.msg_type # "DATA")
  <1> USE DEF ToolInv, BaseInv
  <1>1. CASE BadArguments \/ DoCall \/ Kill
    BY <1>1 DEF BadArguments, DoCall, Kill, TextToCome, WriteFrame, TransferNotWritten,
                WriteFails, ProgramInv, PhaseOK
  <1>2. CASE Decide
    <2>1. pc = "idle" /\ (GoesOn \/ Finishes)
      BY <1>2, DecideMoves
    <2>2. TextToCome
      BY <2>1, NextSteps DEF GoesOn, Finishes, TextToCome
    <2> QED
      BY <2>1, <2>2 DEF WriteFrame, TransferNotWritten, WriteFails
  <1>3. CASE Transfer \/ TransferNotWritten \/ DebugRead
    <2>1. /\ phase = "done" /\ phase' = "done" /\ pc' \in {pc, "read", "idle"}
          /\ step' = step \/ step' = "dbg_rest"
      BY <1>3, TransferStays
    <2>2. TextToCome
      BY <2>1 DEF TextToCome
    <2>3. (WriteFrame \/ TransferNotWritten) => pc = "write" /\ pc' # "write"
      BY DEF WriteFrame, TransferNotWritten, WriteFails, Return
    <2>4. (WriteFrame \/ TransferNotWritten) => step # "lb_write"
      BY <2>1, <2>3 DEF TextToCome
    <2> QED
      BY <2>2, <2>3, <2>4, RequestOfStep
  <1>4. CASE Clock \/ CliDevice \/ UNCHANGED cliVars
    <2>1. UNCHANGED <<phase, step, pc>>
      BY <1>4, CliDeviceStays DEF Clock, cliVars, progVars, vars, hostVars
    <2>2. (WriteFrame \/ TransferNotWritten) => pc = "write" /\ pc' # "write"
      BY DEF WriteFrame, TransferNotWritten, WriteFails, Return
    <2> QED
      BY <2>1, <2>2 DEF TextToCome
  <1> QED
    BY <1>1, <1>2, <1>3, <1>4 DEF CliNext, Tool

LEMMA HistoryMoves ==
  ASSUME ToolInv, [CliNext]_cliVars
  PROVE  /\ \/ loops' = loops
            \/ PortLoops /\ loops' = loops + 1
         /\ \/ epoch' = epoch /\ ~ Run /\ ~ BadArguments
            \/ epoch' = epoch + 1
         /\ \/ successes' = successes /\ (phase' # "ended" => phase # "ended" \/ Run)
            \/ successes' = successes + 1 /\ phase' = "ended" /\ phase # "ended"
  <1> USE DEF ToolInv, BaseInv
  <1>1. CASE Run \/ BadArguments
    <2>1. epoch' = epoch + 1 /\ UNCHANGED <<loops, successes>> /\ (BadArguments => phase' = phase)
      BY <1>1 DEF Run, Start, BadArguments, Reopen, histVars
    <2> QED
      BY <1>1, <2>1
  <1>2. CASE ~ Run /\ ~ BadArguments
    <2>1. epoch' = epoch
      <3>1. CASE Transfer \/ TransferNotWritten \/ DebugRead
        BY <3>1, TransferStays
      <3>2. CASE Decide \/ Clock \/ Kill \/ UNCHANGED cliVars
        <4>1. UNCHANGED vars
          BY <3>2, DecideMoves DEF Clock, Kill, cliVars
        <4> QED
          BY <4>1 DEF vars
      <3> QED
        BY <1>2, <3>1, <3>2, DoCallStep, CliDeviceStays DEF CliNext, Tool
    <2>2. loops' = loops \/ (PortLoops /\ loops' = loops + 1)
      <3>1. CASE DoCall \/ Transfer \/ TransferNotWritten \/ DebugRead \/ Decide \/ Clock \/ Kill
                   \/ UNCHANGED cliVars
        BY <3>1, DecideMoves, TransferStays DEF DoCall, Clock, Kill, cliVars, histVars
      <3>2. CASE CliDevice
        BY <3>2 DEF CliDevice, CliExecutes, CliRefuses, CliDiscards, PortLoops, PortSends, PortDrops,
                    CliSpeaks, CliUnplug, histVars
      <3> QED
        BY <1>2, <3>1, <3>2 DEF CliNext, Tool
    <2>3. \/ successes' = successes /\ (phase' # "ended" => phase # "ended")
          \/ successes' = successes + 1 /\ phase' = "ended" /\ phase # "ended"
      <3>1. CASE LoopbackEnds
        BY <3>1 DEF LoopbackEnds, Back
      <3>2. CASE Decide /\ ~ LoopbackEnds
        BY <3>2
        DEF Decide, Proceed, Succeed, GiveUp, LoopbackWritten, LoopbackTakes, LoopbackAborts,
            LoopbackAborted, ScanContinues, ScanTimeIsUp, DebugEnds, Goto, Exit, ReadOrClose, Back
      <3>3. CASE DoCall \/ Transfer \/ TransferNotWritten \/ DebugRead \/ Clock \/ Kill
                   \/ UNCHANGED cliVars
        BY <3>3, TransferStays DEF DoCall, Clock, Kill, cliVars, progVars, histVars
      <3>4. CASE CliDevice
        BY <3>4, CliDeviceStays DEF progVars
      <3> QED
        BY <1>2, <3>1, <3>2, <3>3, <3>4 DEF CliNext, Tool
    <2> QED
      BY <1>2, <2>1, <2>2, <2>3
  <1> QED
    BY <1>1, <1>2

LEMMA NextRuns ==
  ASSUME ToolInv, RunsInv, [CliNext]_cliVars
  PROVE  RunsInv'
  <1> USE DEF ToolInv, BaseInv
  <1> DEFINE D == Count(outPipe, TextFrames)
             T == Bool(TextToCome)
             P == Bool(phase # "ended")
  <1>1. outPipe \in Seq(Written) /\ epoch \in Nat /\ D \in Nat
    BY PlacesFinite DEF IInv, TypeInv, TypeOK
  <1>2. /\ T \in {0, 1} /\ T' \in {0, 1} /\ P \in {0, 1} /\ P' \in {0, 1}
        /\ TextToCome => T = 1
        /\ ~ TextToCome' => T' = 0
        /\ phase # "ended" => P = 1
        /\ phase' = "ended" => P' = 0
    BY DEF Bool
  <1>3. /\ loops \in Nat /\ successes \in Nat /\ loops + D + T <= epoch /\ successes + P <= epoch
    BY DEF RunsInv
  <1>4. /\ loops' = loops \/ (PortLoops /\ loops' = loops + 1)
        /\ (epoch' = epoch /\ ~ Run) \/ epoch' = epoch + 1
        /\ \/ successes' = successes /\ (phase' # "ended" => phase # "ended" \/ Run)
           \/ successes' = successes + 1 /\ phase' = "ended" /\ phase # "ended"
    BY HistoryMoves
  <1>5. TextToCome' /\ ~ Run =>
          TextToCome /\ ((WriteFrame \/ TransferNotWritten) => Request.msg_type # "DATA")
    BY TextMoves
  <1>6. outPipe' = outPipe => D' = D
    BY DEF TextFrames, Written, Frame
  <1>7. outPipe' = <<>> => D' = 0
    BY CountEmpty DEF TextFrames, Written, Frame
  <1>8. outPipe # <<>> /\ outPipe' = Tail(outPipe) =>
          D' \in Nat /\ D = D' + Bool(Head(outPipe) \in TextFrames)
    BY <1>1, CountTail DEF TextFrames, Written, Frame
  <1> HIDE DEF D, T, P
  <1>9. successes' \in Nat /\ successes' + P' <= epoch'
    BY <1>1, <1>2, <1>3, <1>4
  <1>10. ~ Run => T' <= T
    BY <1>2, <1>5
  <1>11. CASE PortLoops /\ loops' = loops + 1
    <2>1. /\ outPipe # <<>> /\ outPipe' = Tail(outPipe) /\ Head(outPipe).frame.msg_type = "DATA"
          /\ epoch' = epoch
      BY <1>11 DEF PortLoops, DeviceDiscards
    <2>2. Head(outPipe) \in TextFrames
      <3>1. Head(outPipe) \in Written
        BY <1>1, <2>1
      <3> QED
        BY <2>1, <3>1 DEF TextFrames
    <2>3. D' \in Nat /\ D = D' + 1
      BY <1>8, <2>1, <2>2, BoolType
    <2>4. ~ Run
      BY <1>1, <1>4, <2>1
    <2> QED
      BY <1>1, <1>2, <1>3, <1>9, <1>10, <1>11, <2>1, <2>3, <2>4 DEF RunsInv, D, T, P
  <1>12. CASE loops' = loops
    <2>1. CASE outPipe' = outPipe \/ outPipe' = <<>>
      BY <1>1, <1>2, <1>3, <1>4, <1>6, <1>7, <1>9, <1>10, <1>12, <2>1 DEF RunsInv, D, T, P
    <2>2. CASE outPipe # <<>> /\ outPipe' = Tail(outPipe)
      <3>1. Bool(Head(outPipe) \in TextFrames) \in {0, 1}
        BY BoolType
      <3>2. D' \in Nat /\ D' <= D
        BY <1>1, <1>8, <2>2, <3>1
      <3> QED
        BY <1>1, <1>2, <1>3, <1>4, <1>9, <1>10, <1>12, <3>2 DEF RunsInv, D, T, P
    <2>3. CASE /\ pc = "write"
               /\ WriteFrame \/ TransferNotWritten
               /\ \E whole \in BOOLEAN :
                    outPipe' = Append(outPipe, [frame |-> Request, whole |-> whole])
      <3>1. PICK w \in Written : outPipe' = Append(outPipe, w) /\ w.frame = Request
        <4>1. Request \in Frame
          BY <2>3, RequestType DEF IInv
        <4>2. \A whole \in BOOLEAN : [frame |-> Request, whole |-> whole] \in Written
          BY <4>1 DEF Written
        <4>3. PICK whole \in BOOLEAN : outPipe' = Append(outPipe, [frame |-> Request, whole |-> whole])
          BY <2>3
        <4> QED
          BY <4>2, <4>3
      <3>2. D' = D + Bool(w \in TextFrames)
        <4>1. Count(Append(outPipe, w), TextFrames) = Count(outPipe, TextFrames) + Bool(w \in TextFrames)
          BY <1>1, CountAppend
        <4> QED
          BY <3>1, <4>1 DEF D, TextFrames, Written, Frame
      <3>3. ~ Run
        BY <2>3 DEF Run, Start, Reopen
      <3>4. CASE Request.msg_type # "DATA"
        <4>1. Bool(w \in TextFrames) = 0
          <5>1. w \notin TextFrames
            BY <3>1, <3>4 DEF TextFrames
          <5> QED
            BY <5>1 DEF Bool
        <4> QED
          BY <1>1, <1>2, <1>3, <1>4, <1>9, <1>10, <1>12, <3>2, <3>3, <4>1 DEF RunsInv, D, T, P
      <3>5. CASE Request.msg_type = "DATA"
        <4>1. T' = 0
          BY <1>2, <1>5, <2>3, <3>3, <3>5
        <4>2. T = 1
          <5>1. step = "lb_write" /\ phase = "done"
            BY <2>3, <3>5, RequestOfStep DEF ProgramInv, PhaseOK
          <5> QED
            BY <1>2, <2>3, <5>1 DEF TextToCome
        <4>3. Bool(w \in TextFrames) \in {0, 1}
          BY BoolType
        <4> QED
          BY <1>1, <1>2, <1>3, <1>4, <1>9, <1>12, <3>2, <4>1, <4>2, <4>3 DEF RunsInv, D, T, P
      <3> QED
        BY <3>4, <3>5
    <2> QED
      BY <2>1, <2>2, <2>3, OutMoves
  <1> QED
    BY <1>4, <1>11, <1>12

LocalsInv == TotalInv /\ FlagsInv /\ DataRead /\ RunsInv

LEMMA LocalsInvariant == CliSpec => [](ToolInv /\ LocalsInv)
  <1>1. CliInit => LocalsInv
    <2> SUFFICES ASSUME CliInit PROVE LocalsInv
      OBVIOUS
    <2>1. TotalInv
      <3>1. rx_total = 0 /\ phase = "ended"
        BY DEF CliInit
      <3> QED
        BY <3>1 DEF TotalInv, MAX_FRAME_LEN
    <2>4. FlagsInv
      BY DEF CliInit, FlagsInv
    <2>2. DataRead
      BY DEF CliInit, Init, DataRead, NoCall, uart_write
    <2>3. Count(outPipe, TextFrames) = 0 /\ Bool(TextToCome) = 0 /\ Bool(phase # "ended") = 0
      BY CountEmpty DEF CliInit, Init, TextToCome, Bool
    <2> QED
      BY <2>1, <2>2, <2>3, <2>4 DEF LocalsInv, RunsInv, CliInit, Init
  <1>2. ToolInv /\ LocalsInv /\ [CliNext]_cliVars => LocalsInv'
    BY NextTotal, NextFlags, NextDataRead, NextRuns DEF LocalsInv
  <1> QED
    BY <1>1, <1>2, InitTool, NextTool, PTL DEF CliSpec

\* The tool's state keeps its type: the bytes received fit the buffer of
\* uart-loopback, and no more texts have come back, and been reported, than
\* there were runs.
THEOREM CliTypes == CliSpec => []CliTypeOK
  <1>1. ToolInv /\ LocalsInv => CliTypeOK
    <2> SUFFICES ASSUME ToolInv, LocalsInv PROVE CliTypeOK
      OBVIOUS
    <2>1. TypeOK /\ epoch \in 0 .. MaxEpoch /\ MaxEpoch \in Nat /\ outPipe \in Seq(Written)
      BY MuxAssumption DEF ToolInv, BaseInv, IInv, TypeInv, TypeOK
    <2>2. looped \in Seq(0 .. MAX_PAYLOAD)
      <3>1. Pieces \subseteq 0 .. MAX_PAYLOAD
        BY DEF Pieces, MAX_PAYLOAD, MAX_FRAME_LEN, HEADER_LEN
      <3> QED
        BY <3>1, SubsetSeq DEF ToolInv, PortInv
    <2>3. loops \in 0 .. MaxEpoch /\ successes \in 0 .. MaxEpoch
      <3>1. Count(outPipe, TextFrames) \in Nat
        BY <2>1, PlacesFinite
      <3>2. Bool(TextToCome) \in {0, 1} /\ Bool(phase # "ended") \in {0, 1}
        BY BoolType
      <3> QED
        BY <2>1, <3>1, <3>2 DEF LocalsInv, RunsInv
    <2> QED
      BY <2>1, <2>2, <2>3
      DEF CliTypeOK, ToolInv, ProgramInv, ProgramOK, LocalsInv, TotalInv, FlagsInv
  <1> QED
    BY <1>1, LocalsInvariant, PTL

-----------------------------------------------------------------------------
(* "loopback ok" is paid for.                                              *)
(*                                                                         *)
(* A text that came back through the port is one piece that can be the     *)
(* beginning of a text: on its way through the port, in the pipe, being    *)
(* received, just received, and at last in the bytes of a run whose bytes  *)
(* all match.  Each of these is counted, and none can become two.          *)

\* A piece of this length can be the beginning of a text.
Leading(len) ==
  \E n \in Texts : n # 0 /\ len # 0 /\ len \in {n, n - 1} /\ PlaceOf(len, n) = 0

IsLead(f) == f.msg_type = "DATA" /\ Leading(f.payload_len)
LeadPackets == {p \in Packet : p.index = 1 /\ IsLead(p.frame)}
LeadPieces == {n \in Pieces : Leading(n)}

Matched == cmd = "uart_loopback" /\ phase # "ended" /\ match /\ rx_total # 0
Taken == step = "lb_read" /\ phase = "done" /\ ret.result = "OK" /\ IsLead(ret.frame)
Begun == rx.offset # 0 /\ rx.lead.index = 1 /\ IsLead(rx.lead.frame)

InHand == Bool(Matched) + Bool(Taken) + Bool(Begun)
OnTheWay == Count(inPipe, LeadPackets) + Count(looped, LeadPieces)

PaidInv == successes + InHand + OnTheWay <= loops

\* The model knows bytes by the length of what they came in.  So other data
\* must not have the length of the beginning of a text, nor must the second
\* piece of one text be taken for the whole of another.
OtherData ==
  /\ \A len \in Noise : ~ Leading(len)
  /\ 1 \in Texts => Texts \subseteq {0, 1}

LEMMA HandAmounts ==
  /\ Bool(Matched) \in {0, 1} /\ Bool(Taken) \in {0, 1} /\ Bool(Begun) \in {0, 1}
  /\ Matched => Bool(Matched) = 1
  /\ ~ Matched => Bool(Matched) = 0
  /\ Taken => Bool(Taken) = 1
  /\ ~ Taken => Bool(Taken) = 0
  /\ Begun => Bool(Begun) = 1
  /\ ~ Begun => Bool(Begun) = 0
  BY DEF Bool

LEMMA NothingLeads == ~ IsLead(NoFrame) /\ EmptyRx.offset = 0
  BY DEF IsLead, NoFrame, EmptyRx

LEMMA LeadsOfFrame ==
  ASSUME NEW f \in Frame
  PROVE  Count(Packets(f), LeadPackets) = Bool(IsLead(f))
  <1> DEFINE q == Packets(f)
             n == PacketCount(f)
  <1>1. /\ n \in Nat \ {0} /\ q \in Seq(Packet) /\ Len(q) = n
        /\ \A i \in 1 .. n : q[i] = [frame |-> f, index |-> i, len |-> PartLen(f, i)]
    BY FramePackets
  <1> HIDE DEF q, n
  <1>4. \A i \in 1 .. Len(q) : q[i] \in Packet
    BY <1>1
  <1>5. /\ 1 \in 1 .. Len(q)
        /\ \A i \in 1 .. Len(q) : q[i].frame = f /\ q[i].index = i
    BY <1>1
  <1>2. Places(q, LeadPackets) = IF IsLead(f) THEN {1} ELSE {}
    BY <1>4, <1>5 DEF Places, LeadPackets
  <1>3. Cardinality({1}) = 1 /\ Cardinality({}) = 0
    BY FS_EmptySet, FS_Singleton
  <1> QED
    BY <1>2, <1>3 DEF Count, Bool, q

\* A frame that is queued brings what it leads.
LEMMA QueuedLeads ==
  ASSUME IInv, NEW f \in Frame, inPipe' = inPipe \o Packets(f)
  PROVE  Count(inPipe', LeadPackets) = Count(inPipe, LeadPackets) + Bool(IsLead(f))
  <1>1. inPipe \in Seq(Packet) /\ Packets(f) \in Seq(Packet)
    BY PacketsType DEF IInv, TypeInv, TypeOK
  <1> QED
    BY <1>1, CountConcat, LeadsOfFrame

\* A packet that is read is received, taken or lost.
LEMMA ReadLeads ==
  ASSUME ToolInv, DebugRead \/ (step # "dbg_in" /\ ReadPacket)
  PROVE  Bool(Taken') + Bool(Begun') + Count(inPipe', LeadPackets)
           <= Bool(Taken) + Bool(Begun) + Count(inPipe, LeadPackets)
  <1> USE DEF ToolInv, BaseInv
  <1> DEFINE p == Head(inPipe)
             lead == IF rx.offset = 0 THEN p ELSE rx.lead
             first == lead.index = 1 /\ IsLead(lead.frame)
  <1>1. inPipe # <<>> /\ inPipe' = Tail(inPipe) /\ inPipe \in Seq(Packet) /\ p \in Packet
    <2>1. inPipe # <<>> /\ inPipe' = Tail(inPipe) /\ inPipe \in Seq(Packet)
      BY DEF ReadPacket, DebugRead, IInv, TypeInv, TypeOK
    <2> QED
      BY <2>1, SeqParts
  <1>2. /\ Count(inPipe, LeadPackets) = Count(inPipe', LeadPackets) + Bool(p \in LeadPackets)
        /\ Count(inPipe', LeadPackets) \in Nat
    BY <1>1, CountTail
  <1>3. ~ Taken
    <2>1. pc = "read"
      BY DEF ReadPacket, DebugRead
    <2> QED
      BY <2>1 DEF Taken, PacketInv, Locals
  <1>4. first => Begun \/ p \in LeadPackets
    BY <1>1 DEF Begun, LeadPackets
  <1>5. (Taken' => first) /\ (Begun' => first) /\ ~ (Taken' /\ Begun')
    <2>1. CASE ReadPacket
      <3>1. \/ /\ rx'.lead = lead /\ ret' = ret
            \/ rx' = EmptyRx /\ ret'.frame = NoFrame
            \/ rx' = EmptyRx /\ lead.index = 1 /\ ret'.frame = lead.frame
        BY <2>1, ReadOutcomes DEF Return, IInv
      <3>2. ret.result = "NONE"
        BY <2>1 DEF ReadPacket, PacketInv, Locals
      <3> HIDE DEF lead
      <3> QED
        BY <3>1, <3>2, NothingLeads DEF Taken, Begun
    <2>2. CASE DebugRead
      <3>1. /\ rx.offset = 0
            /\ \/ rx' = EmptyRx
               \/ rx'.lead = p
        BY <2>2, DebugOutcomes DEF Return
      <3>2. step' # "lb_read"
        BY <2>2, TransferStays DEF DebugRead
      <3> QED
        BY <3>1, <3>2, NothingLeads DEF Taken, Begun
    <2> QED
      BY <2>1, <2>2
  <1> HIDE DEF p, lead, first
  <1>6. /\ Bool(p \in LeadPackets) \in {0, 1}
        /\ p \in LeadPackets => Bool(p \in LeadPackets) = 1
    BY DEF Bool
  <1>7. /\ Bool(Taken') \in {0, 1} /\ Bool(Begun') \in {0, 1}
        /\ ~ Taken' => Bool(Taken') = 0
        /\ ~ Begun' => Bool(Begun') = 0
    BY DEF Bool
  <1>8. CASE ~ Taken' /\ ~ Begun'
    BY <1>2, <1>6, <1>7, <1>8, HandAmounts
  <1>9. CASE Taken' \/ Begun'
    <2>1. Begun \/ p \in LeadPackets
      BY <1>4, <1>5, <1>9
    <2>2. Bool(Taken') + Bool(Begun') <= 1
      BY <1>5, <1>7
    <2> QED
      BY <1>2, <1>6, <1>7, <2>1, <2>2, HandAmounts
  <1> QED
    BY <1>8, <1>9

\* The bytes in hand of a run, when they are not read from the pipe.
LEMMA DecideLeads ==
  ASSUME ToolInv, LocalsInv, Decide
  PROVE  /\ UNCHANGED <<inPipe, looped, loops, rx>> /\ ~ Taken'
         /\ \/ successes' = successes /\ (Matched' => Matched \/ Taken)
            \/ successes' = successes + 1 /\ Matched /\ ~ Matched'
  <1> USE DEF ToolInv, BaseInv
  <1>1. /\ pc = "idle" /\ (GoesOn \/ Finishes)
        /\ UNCHANGED <<vars, cmd, payload_len, timeup, portVars, owed, faulty, loops>>
    BY DecideMoves
  <1>2. UNCHANGED <<inPipe, looped, loops, rx, cmd>> /\ phase # "ended" /\ phase' # "done"
    BY <1>1 DEF vars, hostVars, devVars, portVars, GoesOn, Finishes
  <1>3. ~ Taken'
    BY <1>2 DEF Taken
  <1>4. CASE LoopbackTakes
    <2>1. /\ step = "lb_read" /\ phase = "done" /\ ret.result = "OK" /\ successes' = successes
          /\ ret.frame.payload_len # 0
          /\ match' => match /\ SameBytes(ret.frame.payload_len)
      BY <1>4 DEF LoopbackTakes, Back, Ok, ChunkFits, ReadOrClose, Goto
    <2>2. CASE match' /\ rx_total = 0
      <3>1. cmd = "uart_loopback" /\ payload_len \in Texts /\ payload_len \in Nat
            /\ payload_len # 0
        BY <2>1, <2>2 DEF ProgramInv, ProgramOK, LoopbackSteps, LocalsInv, TotalInv
      <3>2. Leading(ret.frame.payload_len)
        BY <2>1, <2>2, <3>1 DEF SameBytes, Leading, PlaceOf
      <3>3. call = uart_read(port, MAX_FRAME_LEN)
        BY <2>1, StepCalls DEF ProgramInv, PhaseOK, CallMade
      <3>4. ret.frame.msg_type = "DATA"
        <4>1. call.fn = "uart_read"
          BY <3>3 DEF uart_read
        <4> QED
          BY <2>1, <4>1 DEF LocalsInv, DataRead
      <3>5. Taken
        BY <2>1, <3>2, <3>4 DEF Taken, IsLead
      <3> QED
        BY <1>2, <1>3, <2>1, <3>5
    <2>3. CASE ~ match'
      BY <1>2, <1>3, <2>1, <2>3 DEF Matched
    <2>4. CASE match' /\ rx_total # 0
      BY <1>2, <1>3, <2>1, <2>4 DEF Matched
    <2> QED
      BY <2>2, <2>3, <2>4
  <1>5. CASE LoopbackEnds
    <2>1. /\ step = "lb_close" /\ phase = "done" /\ phase' = "ended"
          /\ \/ successes' = successes
             \/ /\ successes' = successes + 1 /\ match
                /\ rx_total = payload_len /\ payload_len # 0
      BY <1>5 DEF LoopbackEnds, Back
    <2>2. cmd = "uart_loopback"
      BY <2>1 DEF ProgramInv, ProgramOK, LoopbackSteps
    <2> QED
      BY <1>2, <1>3, <2>1, <2>2 DEF Matched
  <1>6. CASE Decide /\ ~ LoopbackTakes /\ ~ LoopbackEnds
    <2>1. UNCHANGED <<rx_total, match, successes>>
      BY <1>6
      DEF Decide, Proceed, Succeed, GiveUp, LoopbackWritten, LoopbackAborts, LoopbackAborted,
          ScanContinues, ScanTimeIsUp, DebugEnds, ReadOrClose, Goto, Exit
    <2> QED
      BY <1>2, <1>3, <2>1 DEF Matched
  <1> QED
    BY <1>4, <1>5, <1>6

\* The other steps of the host.
LEMMA HostLeads ==
  ASSUME ToolInv,
         \/ Run \/ BadArguments \/ DoCall \/ Clock \/ Kill \/ UNCHANGED cliVars
         \/ TransferNotWritten \/ (Transfer /\ (WriteFrame \/ ReadFails \/ NoDevice))
  PROVE  /\ inPipe' \in {inPipe, <<>>} /\ UNCHANGED <<looped, loops, successes>>
         /\ Matched' => Matched
         /\ Taken' => Taken
         /\ Begun' => Begun
  <1> USE DEF ToolInv, BaseInv
  <1>1. CASE Run
    <2>1. /\ rx' = EmptyRx /\ phase' # "done" /\ rx_total' = 0
          /\ inPipe' \in {inPipe, <<>>} /\ UNCHANGED <<looped, loops, successes>>
      BY <1>1 DEF Run, Start, Reopen, portVars
    <2> QED
      BY <2>1, NothingLeads DEF Matched, Taken, Begun
  <1>2. CASE BadArguments
    <2>1. /\ rx' = EmptyRx /\ phase' = "ended"
          /\ inPipe' \in {inPipe, <<>>} /\ UNCHANGED <<looped, loops, successes>>
      BY <1>2 DEF BadArguments, Reopen, portVars, histVars
    <2> QED
      BY <2>1, NothingLeads DEF Matched, Taken, Begun
  <1>3. CASE DoCall
    <2>1. rx' = EmptyRx /\ ret'.result # "OK" /\ inPipe' = inPipe
      BY <1>3, DoCallStep
    <2>2. phase = "do" /\ UNCHANGED <<cmd, match, rx_total, looped, loops, successes>>
      BY <1>3 DEF DoCall, portVars, histVars
    <2> QED
      BY <2>1, <2>2, NothingLeads DEF Matched, Taken, Begun
  <1>4. CASE Clock \/ Kill \/ UNCHANGED cliVars
    <2>1. /\ UNCHANGED <<vars, cmd, step, rx_total, match, looped, loops, successes>>
          /\ phase' = phase \/ phase' = "ended"
      BY <1>4 DEF Clock, Kill, cliVars, progVars, portVars, histVars
    <2>2. UNCHANGED <<rx, ret, inPipe>>
      BY <2>1 DEF vars, hostVars, devVars
    <2> QED
      BY <2>1, <2>2 DEF Matched, Taken, Begun
  <1>5. CASE TransferNotWritten \/ (Transfer /\ (WriteFrame \/ ReadFails \/ NoDevice))
    <2>1. /\ inPipe' = inPipe
          /\ \/ UNCHANGED <<rx, ret>>
             \/ rx' = EmptyRx /\ ret'.frame = NoFrame
      <3>1. CASE WriteFrame
        BY <3>1 DEF WriteFrame, Return
      <3>2. CASE WriteFails
        BY <3>2 DEF WriteFails, Return
      <3>3. CASE ReadFails \/ NoDevice
        BY <3>3 DEF ReadFails, NoDevice, Return, devVars
      <3> QED
        BY <1>5, <3>1, <3>2, <3>3 DEF TransferNotWritten, Transfer
    <2>2. UNCHANGED <<cmd, step, phase, rx_total, match, looped, loops, successes>>
      BY <1>5 DEF TransferNotWritten, Transfer, progVars, portVars, histVars
    <2> QED
      BY <2>1, <2>2, NothingLeads DEF Matched, Taken, Begun
  <1> QED
    BY <1>1, <1>2, <1>3, <1>4, <1>5

\* What the port hands back can begin a text once.
LEMMA TextLeads ==
  ASSUME OtherData, NEW n \in 1 .. MAX_PAYLOAD, n \in Texts, NEW w \in Ways(n)
  PROVE  Count(w, LeadPieces) \in {0, 1}
  <1>1. CASE w = <<n>>
    <2>1. Count(<<n>>, LeadPieces) = Bool(n \in LeadPieces)
      BY CountOne
    <2> QED
      BY <1>1, <2>1 DEF Bool
  <1>2. CASE n > 1 /\ w = <<n - 1, 1>>
    <2>1. ~ Leading(1)
      <3>1. 1 \notin Texts
        BY <1>2 DEF OtherData
      <3>2. Texts \subseteq Nat
        BY CliAssumption
      <3> QED
        BY <3>1, <3>2 DEF Leading, PlaceOf
    <2>2. 1 \notin LeadPieces
      BY <2>1 DEF LeadPieces
    <2>3. w = Append(<<n - 1>>, 1) /\ <<n - 1>> \in Seq(Int)
      BY <1>2
    <2>4. Count(w, LeadPieces) = Count(<<n - 1>>, LeadPieces) + Bool(1 \in LeadPieces)
      <3>1. 1 \in Int
        OBVIOUS
      <3>2. Count(Append(<<n - 1>>, 1), LeadPieces)
              = Count(<<n - 1>>, LeadPieces) + Bool(1 \in LeadPieces)
        BY <2>3, <3>1, CountAppend
      <3> QED
        BY <2>3, <3>2
    <2>5. Bool(1 \in LeadPieces) = 0
      BY <2>2 DEF Bool
    <2>6. Count(<<n - 1>>, LeadPieces) \in {0, 1}
      <3>1. Count(<<n - 1>>, LeadPieces) = Bool(n - 1 \in LeadPieces)
        BY CountOne
      <3> QED
        BY <3>1 DEF Bool
    <2> QED
      BY <2>4, <2>5, <2>6
  <1>3. w \in {<<n>>} \/ (n > 1 /\ w \in {<<n - 1, 1>>})
    <2>1. CASE n > 1
      BY <2>1 DEF Ways
    <2>2. CASE ~ (n > 1)
      BY <2>2 DEF Ways
    <2> QED
      BY <2>1, <2>2
  <1> QED
    BY <1>1, <1>2, <1>3

LEMMA SpontaneousOf ==
  ASSUME NEW kind, NEW channel, NEW len
  PROVE  LET f == Spontaneous(kind, channel, len) IN f.msg_type = kind /\ f.payload_len = len
  BY DEF Spontaneous

\* The device: only a text that goes round through the port brings anything.
LEMMA DeviceLeads ==
  ASSUME ToolInv, OtherData, CliDevice
  PROVE  /\ OnTheWay \in Nat /\ OnTheWay' \in Nat
         /\ \/ OnTheWay' <= OnTheWay /\ loops' = loops
            \/ OnTheWay' <= OnTheWay + 1 /\ loops' = loops + 1
  <1> USE DEF ToolInv, BaseInv
  <1> DEFINE C == Count(inPipe, LeadPackets)
             L == Count(looped, LeadPieces)
  <1>1. inPipe \in Seq(Packet) /\ looped \in Seq(Pieces)
    BY DEF IInv, TypeInv, TypeOK, PortInv
  <1>2. C \in Nat /\ L \in Nat
    BY <1>1, PlacesFinite
  <1>3. OnTheWay = C + L /\ OnTheWay' = C' + L'
    BY DEF OnTheWay, LeadPackets, LeadPieces, Packet, Frame, Pieces, IsLead, Leading, PlaceOf
  <1>4. looped' = looped => L' = L
    BY DEF LeadPieces, Pieces, Leading, PlaceOf
  <1>5. inPipe' = inPipe => C' = C
    BY DEF LeadPackets, Packet, Frame, IsLead, Leading, PlaceOf
  <1>6. CASE CliExecutes \/ CliRefuses
    <2>1. PICK status \in {"OK", "ERR"}, len \in RspLens \cup {0} :
            LET a == Answer(Head(outPipe).frame, status, len)
            IN a \in Frame /\ inPipe' = inPipe \o Packets(a)
      BY <1>6, CliAnswer
    <2>2. Head(outPipe).frame \in Frame
      BY <1>6, CliAnswer DEF OwnRequest
    <2> DEFINE a == Answer(Head(outPipe).frame, status, len)
    <2>3. a \in Frame /\ inPipe' = inPipe \o Packets(a) /\ ~ IsLead(a)
      BY <2>1, <2>2, AnswerOf DEF IsLead
    <2> HIDE DEF a
    <2>4. Count(inPipe', LeadPackets) = C + Bool(IsLead(a)) /\ Bool(IsLead(a)) = 0
      BY <2>3, QueuedLeads DEF Bool
    <2>5. looped' = looped /\ loops' = loops
      BY <1>6 DEF CliExecutes, CliRefuses, portVars, histVars
    <2>6. C' = Count(inPipe', LeadPackets)
      BY DEF LeadPackets, Packet, Frame, IsLead, Leading, PlaceOf
    <2> QED
      BY <1>2, <1>3, <1>4, <2>4, <2>5, <2>6
  <1>7. CASE CliDiscards
    <2>1. inPipe' = inPipe /\ looped' = looped /\ loops' = loops
      BY <1>7 DEF CliDiscards, DeviceDiscards, portVars
    <2> QED
      BY <1>2, <1>3, <1>4, <1>5, <2>1
  <1>8. CASE PortLoops
    <2> DEFINE f == Head(outPipe).frame
    <2>1. /\ outPipe # <<>> /\ f.msg_type = "DATA" /\ f.payload_len # 0
          /\ \E pieces \in Ways(f.payload_len) : looped' = looped \o pieces
          /\ inPipe' = inPipe /\ loops' = loops + 1
      BY <1>8 DEF PortLoops, DeviceDiscards
    <2>2. outPipe[1] \in Written /\ Head(outPipe) = outPipe[1] /\ 1 \in 1 .. Len(outPipe)
      BY <2>1 DEF IInv, TypeInv, TypeOK
    <2>3. f \in Frame
      BY <2>2 DEF Written
    <2>4. f.payload_len \in Texts /\ f.payload_len \in 1 .. MAX_PAYLOAD
      BY <2>1, <2>2, <2>3 DEF PortInv, OutFrames, Frame, MAX_PAYLOAD, MAX_FRAME_LEN, HEADER_LEN
    <2> HIDE DEF f
    <2>5. PICK w \in Ways(f.payload_len) : looped' = looped \o w
      BY <2>1
    <2>6. w \in Seq(1 .. MAX_PAYLOAD)
      BY <2>4, <2>5, WaysPieces
    <2>7. looped \in Seq(1 .. MAX_PAYLOAD)
      <3>1. Pieces \subseteq 1 .. MAX_PAYLOAD
        BY DEF Pieces
      <3> QED
        BY <1>1, <3>1, SubsetSeq
    <2>8. Count(looped', LeadPieces) = L + Count(w, LeadPieces)
      BY <2>5, <2>6, <2>7, CountConcat
    <2>9. Count(w, LeadPieces) \in {0, 1}
      BY <2>4, <2>5, TextLeads
    <2>10. L' = Count(looped', LeadPieces)
      BY DEF LeadPieces, Pieces, Leading, PlaceOf
    <2> QED
      BY <1>2, <1>3, <1>5, <2>1, <2>8, <2>9, <2>10
  <1>9. CASE PortSends
    <2> DEFINE n == Head(looped)
               f == Spontaneous("DATA", port, n)
    <2>1. /\ looped # <<>> /\ looped' = Tail(looped) /\ loops' = loops
          /\ inPipe' = inPipe \o Packets(f)
      BY <1>9 DEF PortSends, Speaks, histVars
    <2>2. n \in Pieces
      BY <1>1, <2>1, SeqParts
    <2>3. f \in Frame
      <3>1. <<"DATA", port, n>> \in Unsolicited
        BY <2>2 DEF Pieces
      <3> QED
        BY <3>1, SpontaneousType DEF IInv
    <2>4. IsLead(f) <=> n \in LeadPieces
      <3>1. f.msg_type = "DATA" /\ f.payload_len = n
        BY SpontaneousOf
      <3> QED
        BY <2>2, <3>1 DEF IsLead, LeadPieces
    <2> HIDE DEF f, n
    <2>5. Count(inPipe', LeadPackets) = C + Bool(IsLead(f))
      BY <2>1, <2>3, QueuedLeads
    <2>6. L = Count(looped', LeadPieces) + Bool(n \in LeadPieces) /\ Count(looped', LeadPieces) \in Nat
      BY <1>1, <2>1, CountTail DEF n
    <2>7. Bool(IsLead(f)) = Bool(n \in LeadPieces) /\ Bool(IsLead(f)) \in {0, 1}
      BY <2>4 DEF Bool
    <2>8. L' = Count(looped', LeadPieces) /\ C' = Count(inPipe', LeadPackets)
      BY DEF LeadPieces, Pieces, LeadPackets, Packet, Frame, IsLead, Leading, PlaceOf
    <2> QED
      BY <1>2, <1>3, <2>1, <2>5, <2>6, <2>7, <2>8
  <1>10. CASE PortDrops
    <2>1. looped # <<>> /\ looped' = Tail(looped) /\ loops' = loops /\ inPipe' = inPipe
      BY <1>10 DEF PortDrops, histVars, vars, devVars
    <2>2. L = Count(looped', LeadPieces) + Bool(Head(looped) \in LeadPieces)
          /\ Count(looped', LeadPieces) \in Nat
      BY <1>1, <2>1, CountTail
    <2>3. Bool(Head(looped) \in LeadPieces) \in {0, 1}
      BY DEF Bool
    <2>4. L' = Count(looped', LeadPieces)
      BY DEF LeadPieces, Pieces, Leading, PlaceOf
    <2> QED
      BY <1>2, <1>3, <1>5, <2>1, <2>2, <2>3, <2>4
  <1>11. CASE CliSpeaks
    <2>1. PICK u \in Unsolicited :
            /\ u[1] = "DATA" => u[3] \in Noise
            /\ inPipe' = inPipe \o Packets(Spontaneous(u[1], u[2], u[3]))
      BY <1>11 DEF CliSpeaks, Speaks
    <2> DEFINE f == Spontaneous(u[1], u[2], u[3])
    <2>2. f \in Frame
      BY SpontaneousType DEF IInv
    <2>3. ~ IsLead(f)
      <3>1. f.msg_type = u[1] /\ f.payload_len = u[3]
        BY SpontaneousOf
      <3> QED
        BY <2>1, <3>1 DEF IsLead, OtherData
    <2>4. inPipe' = inPipe \o Packets(f)
      BY <2>1
    <2> HIDE DEF f
    <2>5. Count(inPipe', LeadPackets) = C + Bool(IsLead(f)) /\ Bool(IsLead(f)) = 0
      BY <2>2, <2>3, <2>4, QueuedLeads DEF Bool
    <2>6. looped' = looped /\ loops' = loops
      BY <1>11 DEF CliSpeaks, portVars, histVars
    <2>7. C' = Count(inPipe', LeadPackets)
      BY DEF LeadPackets, Packet, Frame, IsLead, Leading, PlaceOf
    <2> QED
      BY <1>2, <1>3, <1>4, <2>5, <2>6, <2>7
  <1>12. CASE CliUnplug
    <2>1. inPipe' = <<>> /\ looped' = <<>> /\ loops' = loops
      BY <1>12 DEF CliUnplug, Unplug, histVars
    <2>2. C' = 0 /\ L' = 0
      BY <2>1, CountEmpty DEF LeadPieces, Pieces, LeadPackets, Packet, Frame, IsLead, Leading, PlaceOf
    <2> QED
      BY <1>2, <1>3, <2>1, <2>2
  <1> HIDE DEF C, L
  <1> QED
    BY <1>6, <1>7, <1>8, <1>9, <1>10, <1>11, <1>12 DEF CliDevice

LEMMA NextPaid ==
  ASSUME ToolInv, LocalsInv, OtherData, PaidInv, [CliNext]_cliVars
  PROVE  PaidInv'
  <1> USE DEF ToolInv, BaseInv
  <1> DEFINE C == Count(inPipe, LeadPackets)
             L == Count(looped, LeadPieces)
             M == Bool(Matched)
             T == Bool(Taken)
             B == Bool(Begun)
  <1>1. /\ successes \in Nat /\ loops \in Nat
        /\ C \in Nat /\ L \in Nat /\ C' \in Nat /\ L' \in Nat
    <2>1. ToolInv'
      BY NextTool
    <2>2. inPipe \in Seq(Packet) /\ looped \in Seq(Pieces)
      BY DEF IInv, TypeInv, TypeOK, PortInv
    <2>3. inPipe' \in Seq(Packet) /\ looped' \in Seq(Pieces)
      BY <2>1 DEF IInv, TypeInv, TypeOK, PortInv, Packet, Frame, Pieces
    <2>4. C \in Nat /\ L \in Nat
      BY <2>2, PlacesFinite
    <2>5. Count(inPipe', LeadPackets) \in Nat /\ Count(looped', LeadPieces) \in Nat
      BY <2>3, PlacesFinite
    <2> QED
      BY <2>4, <2>5
      DEF LocalsInv, RunsInv, LeadPieces, Pieces, LeadPackets, Packet, Frame, IsLead, Leading, PlaceOf
  <1>2. /\ InHand = M + T + B /\ InHand' = M' + T' + B'
        /\ OnTheWay = C + L /\ OnTheWay' = C' + L'
    BY DEF InHand, OnTheWay
  <1>3. /\ M \in {0, 1} /\ T \in {0, 1} /\ B \in {0, 1}
        /\ M' \in {0, 1} /\ T' \in {0, 1} /\ B' \in {0, 1}
        /\ Matched => M = 1
        /\ Taken => T = 1
        /\ Begun => B = 1
        /\ ~ Matched' => M' = 0
        /\ ~ Taken' => T' = 0
        /\ ~ Begun' => B' = 0
    BY DEF Bool
  <1>4. successes + M + T + B + C + L <= loops
    BY <1>1, <1>2, <1>3 DEF PaidInv
  <1>5. PICK m \in {0, 1}, t \in {0, 1}, b \in {0, 1}, c \in Nat, l \in Nat :
           M = m /\ T = t /\ B = b /\ C = c /\ L = l
    BY <1>1, <1>3
  <1>6. PICK m2 \in {0, 1}, t2 \in {0, 1}, b2 \in {0, 1}, c2 \in Nat, l2 \in Nat :
           M' = m2 /\ T' = t2 /\ B' = b2 /\ C' = c2 /\ L' = l2
    BY <1>1, <1>3
  <1>7. PICK s \in Nat, k \in Nat : successes = s /\ loops = k
    BY <1>1
  <1>8. s + m + t + b + c + l <= k
    BY <1>4, <1>5, <1>7
  <1>9. ASSUME NEW s2 \in Nat, NEW k2 \in Nat, successes' = s2, loops' = k2,
               s2 + m2 + t2 + b2 + c2 + l2 <= k2
        PROVE  PaidInv'
    <2>1. successes' + InHand' + OnTheWay' = s2 + m2 + t2 + b2 + c2 + l2
      BY <1>2, <1>9, <1>6
    <2> QED
      BY <1>9, <2>1 DEF PaidInv
  <1>10. inPipe' = inPipe => C' = C
    BY DEF LeadPackets, Packet, Frame, IsLead, Leading, PlaceOf
  <1>11. looped' = looped => L' = L
    BY DEF LeadPieces, Pieces, Leading, PlaceOf
  <1>12. inPipe' = <<>> => C' = 0
    BY CountEmpty DEF LeadPackets, Packet, Frame, IsLead, Leading, PlaceOf
  <1>13. rx' = rx => (Begun' => Begun)
    BY DEF Begun
  <1> HIDE DEF C, L, M, T, B
  <1>14. CASE Decide
    <2>1. /\ UNCHANGED <<inPipe, looped, loops, rx>> /\ ~ Taken'
          /\ \/ successes' = successes /\ (Matched' => Matched \/ Taken)
             \/ successes' = successes + 1 /\ Matched /\ ~ Matched'
      BY <1>14, DecideLeads
    <2>2. c2 = c /\ l2 = l /\ b2 <= b /\ t2 = 0
      BY <1>3, <1>10, <1>11, <1>13, <1>5, <1>6, <2>1
    <2>3. \/ successes' = s /\ m2 <= m + t
          \/ successes' = s + 1 /\ m = 1 /\ m2 = 0
      BY <1>3, <1>5, <1>6, <1>7, <2>1
    <2>4. loops' = k
      BY <1>7, <2>1
    <2>5. CASE successes' = s /\ m2 <= m + t
      <3>1. s + m2 + t2 + b2 + c2 + l2 <= k
        BY <1>8, <2>2, <2>5
      <3> QED
        BY <1>9, <2>4, <2>5, <3>1
    <2>6. CASE successes' = s + 1 /\ m = 1 /\ m2 = 0
      <3>1. (s + 1) + m2 + t2 + b2 + c2 + l2 <= k /\ s + 1 \in Nat
        BY <1>8, <2>2, <2>6
      <3> QED
        BY <1>9, <2>4, <2>6, <3>1
    <2> QED
      BY <2>3, <2>5, <2>6
  <1>15. CASE \/ Run \/ BadArguments \/ DoCall \/ Clock \/ Kill \/ UNCHANGED cliVars
              \/ TransferNotWritten \/ (Transfer /\ (WriteFrame \/ ReadFails \/ NoDevice))
    <2>1. /\ inPipe' \in {inPipe, <<>>} /\ UNCHANGED <<looped, loops, successes>>
          /\ Matched' => Matched
          /\ Taken' => Taken
          /\ Begun' => Begun
      BY <1>15, HostLeads
    <2>2. m2 <= m /\ t2 <= t /\ b2 <= b
      BY <1>3, <1>5, <1>6, <2>1
    <2>3. c2 <= c /\ l2 = l
      BY <1>10, <1>11, <1>12, <1>5, <1>6, <2>1
    <2>4. s + m2 + t2 + b2 + c2 + l2 <= k
      BY <1>8, <2>2, <2>3
    <2> QED
      BY <1>9, <1>7, <2>1, <2>4
  <1>16. CASE DebugRead \/ (Transfer /\ step # "dbg_in" /\ ReadPacket)
    <2>1. UNCHANGED <<looped, loops, successes>> /\ (Matched' => Matched)
      BY <1>16, TransferStays DEF Matched, portVars
    <2>2. T' + B' + C' <= T + B + C
      <3>1. C' = Count(inPipe', LeadPackets)
        BY DEF C, LeadPackets, Packet, Frame, IsLead, Leading, PlaceOf
      <3> QED
        BY <1>16, <3>1, ReadLeads DEF T, B, C
    <2>3. t2 + b2 + c2 <= t + b + c
      BY <1>5, <1>6, <2>2
    <2>4. m2 <= m /\ l2 = l
      BY <1>3, <1>11, <1>5, <1>6, <2>1
    <2>5. s + m2 + t2 + b2 + c2 + l2 <= k
      BY <1>8, <2>3, <2>4
    <2> QED
      BY <1>9, <1>7, <2>1, <2>5
  <1>17. CASE CliDevice
    <2>1. \/ OnTheWay' <= OnTheWay /\ loops' = loops
          \/ OnTheWay' <= OnTheWay + 1 /\ loops' = loops + 1
      BY <1>17, DeviceLeads
    <2>2. UNCHANGED <<cmd, step, phase, match, rx_total, rx, ret, successes>>
      BY <1>17, CliDeviceStays DEF progVars, hostVars
    <2>3. M' = M /\ T' = T /\ B' = B
      BY <2>2 DEF M, T, B, Matched, Taken, Begun, IsLead, Leading, PlaceOf
    <2>4. m2 = m /\ t2 = t /\ b2 = b
      BY <1>5, <1>6, <2>3
    <2>5. OnTheWay = c + l /\ OnTheWay' = c2 + l2
      BY <1>2, <1>5, <1>6
    <2>6. CASE c2 + l2 <= c + l /\ loops' = loops
      <3>1. s + m2 + t2 + b2 + c2 + l2 <= k
        BY <1>8, <2>4, <2>6
      <3> QED
        BY <1>9, <1>7, <2>2, <2>6, <3>1
    <2>7. CASE c2 + l2 <= c + l + 1 /\ loops' = loops + 1
      <3>1. s + m2 + t2 + b2 + c2 + l2 <= k + 1 /\ k + 1 \in Nat
        BY <1>8, <2>4, <2>7
      <3> QED
        BY <1>9, <1>7, <2>2, <2>7, <3>1
    <2> QED
      BY <2>1, <2>5, <2>6, <2>7
  <1> QED
    BY <1>14, <1>15, <1>16, <1>17 DEF CliNext, Tool, Transfer

\* "loopback ok" is said no more often than a text came back through the port,
\* when the other data a port receives can be told from a text.
THEOREM LoopbackIsReal == OtherData /\ CliSpec => []LoopbackIsPaid
  <1> SUFFICES ASSUME OtherData PROVE CliSpec => []LoopbackIsPaid
    OBVIOUS
  <1>1. CliInit => PaidInv
    <2> SUFFICES ASSUME CliInit PROVE PaidInv
      OBVIOUS
    <2>1. Count(inPipe, LeadPackets) = 0 /\ Count(looped, LeadPieces) = 0
      BY CountEmpty DEF CliInit, Init
    <2>2. ~ Matched /\ ~ Taken /\ ~ Begun
      BY NothingLeads DEF CliInit, Init, Matched, Taken, Begun
    <2> QED
      BY <2>1, <2>2, HandAmounts DEF PaidInv, InHand, OnTheWay, CliInit
  <1>2. ToolInv /\ LocalsInv /\ PaidInv /\ [CliNext]_cliVars => PaidInv'
    BY NextPaid
  <1>3. ToolInv /\ LocalsInv /\ PaidInv => LoopbackIsPaid
    <2> SUFFICES ASSUME ToolInv, LocalsInv, PaidInv PROVE LoopbackIsPaid
      OBVIOUS
    <2>1. inPipe \in Seq(Packet) /\ looped \in Seq(Pieces)
      BY DEF ToolInv, BaseInv, IInv, TypeInv, TypeOK, PortInv
    <2>2. Count(inPipe, LeadPackets) \in Nat /\ Count(looped, LeadPieces) \in Nat
      BY <2>1, PlacesFinite
    <2> QED
      BY <2>2, HandAmounts DEF PaidInv, InHand, OnTheWay, LoopbackIsPaid, LocalsInv, RunsInv
  <1> QED
    BY <1>1, <1>2, <1>3, LocalsInvariant, PTL DEF CliSpec

-----------------------------------------------------------------------------
(* A run that starts behind.                                               *)
(*                                                                         *)
(* Such a run takes for its own an answer of an earlier run, if it takes   *)
(* any: its own answers stay behind that one in the pipe, and what it has  *)
(* asked for is still owed when it asks again.                             *)

\* Requests of this run, and answers to them.
Asks(f, k)    == f.msg_type = "CMD" /\ f.epoch = epoch /\ f.id = k
Answers(f, k) == f.msg_type = "RSP" /\ f.epoch = epoch /\ f.id = k

\* The answer to the k-th request of this run has not been read.
Owes(k) ==
  \/ \E i \in 1 .. Len(outPipe) : Asks(outPipe[i].frame, k)
  \/ \E i \in 1 .. Len(inPipe) : Answers(inPipe[i].frame, k)

\* Something will come even if nothing more is asked.
Ahead == inPipe # <<>> \/ \E i \in 1 .. Len(outPipe) : outPipe[i].frame.msg_type = "CMD"

\* A read that starts now does not find the answer to the last request.
Behind ==
  rx.offset = 0 =>
    \/ inPipe # <<>> /\ ~ OwnReply(Head(inPipe).frame)
    \/ /\ inPipe = <<>>
       /\ \E i \in 1 .. Len(outPipe) :
            outPipe[i].frame.msg_type = "CMD" /\ ~ Current(outPipe[i].frame)

\* The requests whose answers are owed before a step makes its call, and when
\* the call has succeeded.
KeptBefore(s) ==
  IF s \in {"caps", "scan_param", "lb_write", "lb_read", "lb_close"} THEN {1}
  ELSE IF s \in {"scan_start", "scan_read"} THEN {1, 2} ELSE {}
KeptAfter(s) ==
  IF s \in {"dev_info", "scan_cap", "lb_open", "lb_write", "lb_read"} THEN {1}
  ELSE IF s \in {"scan_param", "scan_start", "scan_read"} THEN {1, 2} ELSE {}

OneOfTwo == Owes(1) \/ Owes(2)
ToAsk  == Ahead /\ (\A k \in KeptBefore(step) : Owes(k)) /\ (step = "scan_stop" => OneOfTwo)
ToRead == \A k \in KeptAfter(step) : Owes(k)

NotOwn == call.fn = "transact" => ~ OwnReply(ret.frame)
LateAsk == phase = "do" \/ (phase = "done" /\ pc = "write") => ToAsk
LateRead == phase = "done" /\ pc = "read" => (call.fn = "transact" => Behind) /\ ToRead
WentOn == ret.result = "OK" \/ (step = "scan_read" /\ ret.result = "ERR_TIMEOUT")
LateDone == phase = "done" /\ pc = "idle" /\ WentOn => ToRead
LateScan == phase = "done" /\ step = "scan_read" => OneOfTwo

LateRun == owed /\ ~ faulty /\ cmd # "debug_xfer" /\ step # "lb_abort"
LateInv == LateRun => NotOwn /\ (plugged => LateAsk /\ LateRead /\ LateDone /\ LateScan)

\* Every answer fits one packet.  The largest the tool asks for has 12 bytes,
\* and the answer to its heartbeat the 4 it has sent.  (A scan whose reads time
\* out could eat longer ones packet by packet, and so catch up.)
ShortAnswers == \A len \in RspLens : len < 40

\* So an answer is read at once or not at all.
ShortInv ==
  /\ \A f \in Incoming : f.msg_type = "RSP" => f.payload_len < 40
  /\ rx.offset # 0 => rx.lead.frame.msg_type # "RSP"

LEMMA OnePacket ==
  ASSUME ToolInv, ShortInv, inPipe # <<>>, Head(inPipe).frame.msg_type = "RSP"
  PROVE  LET p == Head(inPipe)
         IN p \in Packet /\ p.frame \in Incoming /\ p.index = 1 /\ p.len \in Nat /\ p.len >= 24
            /\ p.len = TotalLen(p.frame)
  <1> USE DEF ToolInv, BaseInv
  <1> DEFINE p == Head(inPipe)
  <1>1. inPipe \in Seq(Packet) /\ p = inPipe[1] /\ 1 \in 1 .. Len(inPipe)
    BY DEF IInv, TypeInv, TypeOK
  <1>2. p \in Packet
    BY <1>1
  <1>3. IsPart(p) /\ p.frame \in Incoming
    BY <1>1 DEF PacketInv, Stream, Incoming
  <1> HIDE DEF p
  <1>4. p.frame \in Frame /\ p.frame.payload_len < 40 /\ p.frame.payload_len \in Nat
    <2>1. p.frame \in Frame /\ p.frame.payload_len < 40
      BY <1>3 DEF IsPart, ShortInv, p
    <2> QED
      BY <2>1 DEF Frame
  <1>5. PICK n \in 24 .. 63 : TotalLen(p.frame) = n
    <2>1. TotalLen(p.frame) = 24 + p.frame.payload_len
      BY DEF TotalLen, HEADER_LEN
    <2>2. PICK m \in Nat : p.frame.payload_len = m /\ m < 40
      BY <1>4
    <2>3. 24 + m \in 24 .. 63
      BY <2>2
    <2> QED
      BY <2>1, <2>2, <2>3
  <1>6. PacketCount(p.frame) = 1
    <2>1. n \div 64 + 1 = 1 /\ (n + 64 - 1) \div 64 = 1
      BY <1>5
    <2> QED
      BY <1>5, <2>1 DEF PacketCount, EP_PACKET_SIZE
  <1>7. p.index = 1 /\ p.len = PartLen(p.frame, 1)
    BY <1>3, <1>6 DEF IsPart
  <1>8. p.len = n
    <2>1. ~ (n >= 1 * 64) /\ n - (1 - 1) * 64 = n
      OBVIOUS
    <2>2. PartLen(p.frame, 1) = n
      BY <1>5, <2>1 DEF PartLen
    <2> QED
      BY <1>7, <2>2
  <1> QED
    BY <1>2, <1>3, <1>5, <1>7, <1>8 DEF p

\* Reading an answer ends the read, and hands over that answer or nothing.
LEMMA ReadAnswer ==
  ASSUME ToolInv, ShortInv, ReadPacket, Head(inPipe).frame.msg_type = "RSP"
  PROVE  /\ pc' = "idle" /\ rx' = EmptyRx
         /\ \/ ret'.frame = NoFrame /\ ret'.result \in {"ERR_IO", "ERR_PROTO"}
            \/ /\ rx.offset = 0 /\ ret'.frame = Head(inPipe).frame
               /\ ret'.result = Verdict(call, Head(inPipe).frame)
  <1> USE DEF ToolInv, BaseInv
  <1> DEFINE p == Head(inPipe)
  <1>1. /\ p.index = 1 /\ p.len \in Nat /\ p.len >= 24 /\ p.len = TotalLen(p.frame)
        /\ pc = "read" /\ plugged
    BY OnePacket DEF ReadPacket
  <1>2. CASE rx.offset = 0
    BY <1>1, <1>2, ReadOutcomes DEF Return, IInv
  <1>3. CASE rx.offset # 0
    <2>1. rx.offset \in Nat /\ rx.offset > 0
      BY <1>3 DEF IInv, TypeInv, TypeOK, Received
    <2>2. rx.lead.index # 1
      BY <1>1, <2>1 DEF PacketInv, Reading, ShortInv
    <2>3. ~ (rx.offset + p.len < 24)
      BY <1>1, <2>1
    <2>4. \/ Return("ERR_IO", NoFrame, TRUE)
          \/ Return("ERR_PROTO", NoFrame, TRUE)
      BY <1>3, <2>2, <2>3 DEF ReadPacket, Decodes, HEADER_LEN
    <2> QED
      BY <2>4 DEF Return
  <1> QED
    BY <1>2, <1>3

LEMMA NextShort ==
  ASSUME ToolInv, ShortAnswers, ShortInv, [CliNext]_cliVars
  PROVE  ShortInv'
  <1> USE DEF ToolInv, BaseInv
  <1>1. \A f \in Incoming' : f.msg_type = "RSP" => f.payload_len < 40
    <2>1. CASE ~ CliExecutes /\ ~ CliRefuses
      BY <2>1, OtherMoves DEF ShortInv
    <2>2. CASE CliExecutes \/ CliRefuses
      <3>1. PICK status \in {"OK", "ERR"}, len \in RspLens \cup {0} :
              \A f \in Incoming' : f \in Incoming \/ f = Answer(Head(outPipe).frame, status, len)
        BY <2>2, CliAnswer
      <3>2. Head(outPipe).frame \in Frame
        BY <2>2, CliAnswer DEF OwnRequest
      <3>3. Answer(Head(outPipe).frame, status, len).payload_len = len
        BY <3>2, AnswerOf
      <3>4. len < 40
        BY DEF ShortAnswers
      <3> QED
        BY <3>1, <3>3, <3>4 DEF ShortInv
    <2> QED
      BY <2>1, <2>2
  <1>2. rx'.offset # 0 => rx'.lead.frame.msg_type # "RSP"
    <2>1. CASE ReadPacket
      <3>1. CASE Head(inPipe).frame.msg_type = "RSP"
        BY <2>1, <3>1, ReadAnswer, NothingLeads
      <3>2. CASE Head(inPipe).frame.msg_type # "RSP"
        <4>1. \/ rx' = EmptyRx
              \/ rx'.lead = IF rx.offset = 0 THEN Head(inPipe) ELSE rx.lead
          BY <2>1, ReadOutcomes DEF Return, IInv
        <4> QED
          BY <3>2, <4>1, NothingLeads DEF ShortInv
      <3> QED
        BY <3>1, <3>2
    <2>2. CASE DebugRead
      <3>1. \/ rx' = EmptyRx
            \/ /\ rx'.lead = Head(inPipe) /\ inPipe # <<>>
               /\ Head(inPipe).len < TotalLen(Head(inPipe).frame)
        BY <2>2, DebugOutcomes DEF Return
      <3> QED
        BY <3>1, OnePacket, NothingLeads
    <2>3. CASE ~ ReadPacket /\ ~ DebugRead
      <3>1. rx' \in {rx, EmptyRx}
        <4>1. CASE \E c \in Calls : Transact(c) \/ UartWrite(c) \/ UartRead(c) \/ BleReadEvent(c)
          BY <4>1 DEF Transact, UartWrite, UartRead, BleReadEvent, StartRequest, StartRead, Return
        <4>2. CASE WriteFrame
          BY <4>2 DEF WriteFrame, Return
        <4>3. CASE WriteFails \/ ReadFails \/ NoDevice \/ RejectArguments \/ Reopen
          BY <4>3 DEF WriteFails, ReadFails, NoDevice, RejectArguments, Reopen, Return
        <4>4. CASE Device \/ UNCHANGED vars
          BY <4>4 DEF Device, DeviceExecutes, DeviceRefuses, DeviceDiscards, DeviceSpeaks, Speaks,
                      Unplug, vars, hostVars
        <4> QED
          BY <2>3, <4>1, <4>2, <4>3, <4>4, MuxStep DEF Host, cliVars
      <3> QED
        BY <3>1, NothingLeads DEF ShortInv
    <2> QED
      BY <2>1, <2>2, <2>3
  <1> QED
    BY <1>1, <1>2 DEF ShortInv

\* The pipes: what is owed stays owed until it is read.
OwedStays ==
  /\ \A k : Owes(k) => Owes(k)'
  /\ Ahead => Ahead'
  /\ Behind => Behind'

LEMMA SamePipes ==
  ASSUME UNCHANGED <<outPipe, inPipe, rx, issued, epoch>>
  PROVE  OwedStays
  BY DEF OwedStays, Owes, Ahead, Behind, Asks, Answers, OwnReply, Current

\* A frame that is no command goes.
LEMMA DropOwes ==
  ASSUME ToolInv, outPipe # <<>>, outPipe' = Tail(outPipe), Head(outPipe).frame.msg_type # "CMD",
         UNCHANGED <<inPipe, rx, issued, epoch>>
  PROVE  OwedStays
  <1>1. outPipe \in Seq(Written)
    BY DEF ToolInv, BaseInv, IInv, TypeInv, TypeOK
  <1>2. ASSUME NEW i \in 1 .. Len(outPipe), outPipe[i].frame.msg_type = "CMD"
        PROVE  \E j \in 1 .. Len(outPipe') : outPipe'[j] = outPipe[i]
    <2>1. Head(outPipe) = outPipe[1] /\ Len(outPipe) \in Nat
      BY <1>1
    <2>2. i # 1
      BY <1>2, <2>1
    <2>3. i - 1 \in 1 .. Len(outPipe') /\ outPipe'[i - 1] = outPipe[i]
      BY <1>1, <2>1, <2>2
    <2> QED
      BY <2>3
  <1>3. \A k : Owes(k) => Owes(k)'
    BY <1>2 DEF Owes, Asks, Answers
  <1>4. Ahead => Ahead'
    BY <1>2 DEF Ahead
  <1>5. Behind => Behind'
    BY <1>2 DEF Behind, OwnReply, Current
  <1> QED
    BY <1>3, <1>4, <1>5 DEF OwedStays

\* A frame comes in behind the others.
LEMMA ComesBehind ==
  ASSUME ToolInv, NEW f \in Frame, inPipe' = inPipe \o Packets(f)
  PROVE  /\ inPipe' # <<>>
         /\ \A i \in 1 .. Len(inPipe) : i \in 1 .. Len(inPipe') /\ inPipe'[i] = inPipe[i]
         /\ Len(inPipe) + 1 \in 1 .. Len(inPipe') /\ inPipe'[Len(inPipe) + 1].frame = f
         /\ inPipe = <<>> => Head(inPipe').frame = f
         /\ inPipe # <<>> => Head(inPipe') = Head(inPipe)
  <1> DEFINE q == Packets(f)
             n == PacketCount(f)
  <1>1. inPipe \in Seq(Packet)
    BY DEF ToolInv, BaseInv, IInv, TypeInv, TypeOK
  <1>2. q \in Seq(Packet) /\ Len(q) \in Nat /\ Len(q) >= 1
    BY FramePackets
  <1>3. q[1].frame = f
    <2>1. 1 \in 1 .. Len(q)
      BY <1>2
    <2> QED
      BY <2>1, PacketsType
  <1> HIDE DEF q
  <1>4. /\ \A i \in 1 .. Len(inPipe) : i \in 1 .. Len(inPipe') /\ inPipe'[i] = inPipe[i]
        /\ Len(inPipe) + 1 \in 1 .. Len(inPipe') /\ inPipe'[Len(inPipe) + 1] = q[1]
        /\ inPipe' # <<>>
    BY <1>1, <1>2 DEF q
  <1>5. inPipe = <<>> => Head(inPipe') = q[1]
    BY <1>1, <1>2 DEF q
  <1>6. inPipe # <<>> => Head(inPipe') = Head(inPipe)
    BY <1>1, <1>2 DEF q
  <1> QED
    BY <1>3, <1>4, <1>5, <1>6

LEMMA SpeakOwes ==
  ASSUME ToolInv, NEW f \in Frame, f.msg_type # "RSP", inPipe' = inPipe \o Packets(f),
         UNCHANGED <<outPipe, rx, issued, epoch>>
  PROVE  OwedStays
  <1>1. \A k : Owes(k) => Owes(k)'
    BY ComesBehind DEF Owes, Asks, Answers
  <1>2. Ahead'
    BY ComesBehind DEF Ahead
  <1>3. Behind => Behind'
    BY ComesBehind DEF Behind, OwnReply, Current
  <1> QED
    BY <1>1, <1>2, <1>3 DEF OwedStays

LEMMA AnswerOwes ==
  ASSUME ToolInv, CliExecutes
  PROVE  OwedStays
  <1> USE DEF ToolInv, BaseInv
  <1> DEFINE req == Head(outPipe).frame
  <1>1. /\ outPipe # <<>> /\ outPipe' = Tail(outPipe) /\ req \in Frame
        /\ Head(outPipe) = outPipe[1] /\ outPipe \in Seq(Written)
        /\ UNCHANGED <<rx, issued, epoch>>
    BY CliAnswer DEF OwnRequest, hostVars, IInv, TypeInv, TypeOK
  <1>2. PICK status \in {"OK", "ERR"}, len \in RspLens \cup {0} :
          LET a == Answer(req, status, len) IN a \in Frame /\ inPipe' = inPipe \o Packets(a)
    BY CliAnswer
  <1>3. PICK a \in Frame :
          /\ inPipe' = inPipe \o Packets(a)
          /\ a.msg_type = "RSP" /\ a.id = req.id /\ a.epoch = req.epoch
    <2>1. LET a == Answer(req, status, len)
          IN a.msg_type = "RSP" /\ a.id = req.id /\ a.epoch = req.epoch
      BY <1>1, AnswerOf
    <2> QED
      BY <1>2, <2>1
  <1>4. /\ inPipe' # <<>>
        /\ \A i \in 1 .. Len(inPipe) : i \in 1 .. Len(inPipe') /\ inPipe'[i] = inPipe[i]
        /\ Len(inPipe) + 1 \in 1 .. Len(inPipe') /\ inPipe'[Len(inPipe) + 1].frame = a
        /\ inPipe = <<>> => Head(inPipe').frame = a
        /\ inPipe # <<>> => Head(inPipe') = Head(inPipe)
    BY <1>3, ComesBehind
  <1>5. ASSUME NEW i \in 1 .. Len(outPipe), i # 1
        PROVE  \E j \in 1 .. Len(outPipe') : outPipe'[j] = outPipe[i]
    <2>1. i - 1 \in 1 .. Len(outPipe') /\ outPipe'[i - 1] = outPipe[i]
      BY <1>1, <1>5
    <2> QED
      BY <2>1
  <1>6. ASSUME NEW k, Owes(k) PROVE Owes(k)'
    <2>1. CASE \E i \in 1 .. Len(inPipe) : Answers(inPipe[i].frame, k)
      BY <1>1, <1>4, <2>1 DEF Owes, Answers
    <2>2. CASE \E i \in 1 .. Len(outPipe) : Asks(outPipe[i].frame, k)
      <3>1. PICK i \in 1 .. Len(outPipe) : Asks(outPipe[i].frame, k)
        BY <2>2
      <3>2. CASE i = 1
        <4>1. Answers(a, k)'
          BY <1>1, <1>3, <3>1, <3>2 DEF Asks, Answers
        <4> QED
          BY <1>4, <4>1 DEF Owes, Answers
      <3>3. CASE i # 1
        BY <1>1, <1>5, <3>1, <3>3 DEF Owes, Asks
      <3> QED
        BY <3>2, <3>3
    <2> QED
      BY <1>6, <2>1, <2>2 DEF Owes
  <1>7. ASSUME Behind, rx.offset = 0 PROVE Behind'
    <2>1. CASE inPipe # <<>>
      BY <1>1, <1>4, <1>7, <2>1 DEF Behind, OwnReply, Current
    <2>2. CASE inPipe = <<>>
      <3>1. PICK i \in 1 .. Len(outPipe) : ~ Current(outPipe[i].frame)
        BY <1>7, <2>2 DEF Behind
      <3>2. ~ Current(req)
        <4>1. SUFFICES ASSUME Current(req) PROVE FALSE
          OBVIOUS
        <4>2. Tail(outPipe) = <<>>
          BY <1>1, <4>1, CurrentIsLast
        <4>3. i = 1
          <5>1. Len(Tail(outPipe)) = Len(outPipe) - 1 /\ Len(outPipe) \in Nat
            BY <1>1
          <5>2. Len(Tail(outPipe)) = 0
            <6>1. Len(<<>>) = 0
              OBVIOUS
            <6> QED
              BY <4>2, <6>1, Zenon
          <5>3. Len(outPipe) = 1
            BY <5>1, <5>2
          <5> QED
            BY <5>3
        <4> QED
          BY <1>1, <3>1, <4>1, <4>3
      <3>3. ~ OwnReply(a)'
        BY <1>1, <1>3, <3>2 DEF OwnReply, Current
      <3> QED
        BY <1>4, <2>2, <3>3 DEF Behind, OwnReply, Current
    <2> QED
      BY <2>1, <2>2
  <1> QED
    BY <1>1, <1>4, <1>6, <1>7 DEF OwedStays, Ahead, Behind

LEMMA DeviceOwes ==
  ASSUME ToolInv, CliDevice, plugged', ~ faulty'
  PROVE  OwedStays
  <1> USE DEF ToolInv, BaseInv
  <1>1. UNCHANGED <<rx, issued, epoch>>
    BY CliDeviceStays DEF hostVars
  <1>2. CASE CliExecutes
    BY <1>2, AnswerOwes
  <1>3. CASE CliDiscards \/ PortLoops
    <2>1. /\ outPipe # <<>> /\ outPipe' = Tail(outPipe) /\ inPipe' = inPipe
          /\ Head(outPipe).frame.msg_type # "CMD"
      BY <1>3 DEF CliDiscards, PortLoops, DeviceDiscards
    <2> QED
      BY <1>1, <2>1, DropOwes
  <1>4. CASE PortSends
    <2> DEFINE f == Spontaneous("DATA", port, Head(looped))
    <2>1. looped # <<>> /\ inPipe' = inPipe \o Packets(f) /\ outPipe' = outPipe
      BY <1>4 DEF PortSends, Speaks
    <2>2. Head(looped) \in Pieces
      BY <2>1, SeqParts DEF PortInv
    <2>3. f \in Frame
      <3>1. <<"DATA", port, Head(looped)>> \in Unsolicited
        BY <2>2 DEF Pieces
      <3> QED
        BY <3>1, SpontaneousType DEF IInv
    <2>4. f.msg_type # "RSP"
      BY SpontaneousOf
    <2> HIDE DEF f
    <2> QED
      BY <1>1, <2>1, <2>3, <2>4, SpeakOwes
  <1>5. CASE CliSpeaks
    <2>1. PICK u \in Unsolicited : inPipe' = inPipe \o Packets(Spontaneous(u[1], u[2], u[3]))
      BY <1>5 DEF CliSpeaks, Speaks
    <2> DEFINE f == Spontaneous(u[1], u[2], u[3])
    <2>2. f \in Frame
      BY SpontaneousType DEF IInv
    <2>3. f.msg_type # "RSP"
      <3>1. f.msg_type = u[1] /\ u[1] \in {"EVT", "DATA"}
        BY SpontaneousOf, MuxAssumption
      <3> QED
        BY <3>1
    <2>4. inPipe' = inPipe \o Packets(f) /\ outPipe' = outPipe
      BY <1>5, <2>1 DEF CliSpeaks, Speaks
    <2> HIDE DEF f
    <2> QED
      BY <1>1, <2>2, <2>3, <2>4, SpeakOwes
  <1>6. CASE PortDrops
    <2>1. UNCHANGED <<outPipe, inPipe>>
      BY <1>6 DEF PortDrops, vars, devVars
    <2> QED
      BY <1>1, <2>1, SamePipes
  <1>7. CASE CliRefuses \/ CliUnplug
    BY <1>7 DEF CliRefuses, CliUnplug, Unplug
  <1> QED
    BY <1>2, <1>3, <1>4, <1>5, <1>6, <1>7 DEF CliDevice

LEMMA OwedAhead == ASSUME NEW k, Owes(k) PROVE Ahead
  BY DEF Owes, Ahead, Asks, Answers

LEMMA LateStart ==
  ASSUME ToolInv, LateInv, Run \/ BadArguments
  PROVE  LateInv'
  <1>1. ret'.frame.msg_type # "RSP"
    BY NoFrameIsNoReply DEF Run, Start, BadArguments, Reopen, NoRet
  <1>2. NotOwn'
    BY <1>1 DEF NotOwn, OwnReply
  <1>3. CASE BadArguments
    <2>1. phase' = "ended"
      BY <1>3 DEF BadArguments
    <2> QED
      BY <1>2, <2>1 DEF LateInv, LateAsk, LateRead, LateDone, LateScan
  <1>4. CASE Run
    <2>1. PICK c \in Commands : step' = FirstStep[c]
      BY <1>4 DEF Run, Start
    <2>2. step' \in {"dev_info", "heartbeat", "port_cap", "open", "lb_open", "close", "scan_cap", "dbg_in"}
      BY <2>1, CliAssumption DEF FirstStep
    <2>3. phase' # "done"
      BY <1>4 DEF Run, Start
    <2>6. owed' => Ahead'
      <3>1. owed' = (inPipe' # <<>> \/ \E i \in DOMAIN outPipe' : outPipe'[i].frame.msg_type = "CMD")
        BY <1>4, Zenon DEF Run, Start
      <3>2. outPipe' \in {outPipe, <<>>} /\ outPipe \in Seq(Written)
        BY <1>4 DEF Run, Start, Reopen, ToolInv, BaseInv, IInv, TypeInv, TypeOK
      <3>3. DOMAIN outPipe' = 1 .. Len(outPipe')
        BY <3>2
      <3> QED
        BY <3>1, <3>3, Zenon DEF Ahead
    <2>4. KeptBefore(step') = {} /\ step' # "scan_stop"
      BY <2>2 DEF KeptBefore
    <2>5. owed' => ToAsk'
      BY <2>4, <2>6 DEF ToAsk
    <2> QED
      BY <1>2, <2>3, <2>5 DEF LateInv, LateRun, LateAsk, LateRead, LateDone, LateScan
  <1> QED
    BY <1>3, <1>4

LEMMA LateCall ==
  ASSUME ToolInv, LateInv, DoCall
  PROVE  LateInv'
  <1> USE DEF ToolInv, BaseInv
  <1>1. /\ rx' = EmptyRx /\ ret'.frame = NoFrame /\ ret'.result # "OK"
        /\ UNCHANGED <<outPipe, inPipe, plugged, epoch>>
    BY DoCallStep
  <1>2. /\ phase = "do" /\ phase' = "done" /\ UNCHANGED <<cmd, step, owed, faulty>>
    BY DEF DoCall, histVars
  <1>3. NotOwn'
    BY <1>1, NoFrameIsNoReply DEF NotOwn, OwnReply
  <1>4. \A k : Owes(k)' = Owes(k)
    BY <1>1 DEF Owes, Asks, Answers
  <1>5. Ahead' = Ahead
    BY <1>1 DEF Ahead
  <1>6. SUFFICES ASSUME LateRun, plugged PROVE LateAsk' /\ LateRead' /\ LateDone' /\ LateScan'
    BY <1>1, <1>2, <1>3 DEF LateInv, LateRun
  <1>7. Ahead /\ (\A k \in KeptBefore(step) : Owes(k)) /\ (step = "scan_stop" => OneOfTwo)
    BY <1>2, <1>6 DEF LateInv, LateAsk, ToAsk
  <1>8. LateAsk'
    BY <1>2, <1>4, <1>5, <1>7 DEF LateAsk, ToAsk, OneOfTwo
  <1>9. step = "scan_read" => ret'.result # "ERR_TIMEOUT"
    <2>1. CallOf("scan_read").fn = "ble_read_event"
      BY OtherCalls DEF CallOf
    <2>2. step = "scan_read" => StartRead(CallOf(step))
      BY <2>1 DEF DoCall, Transact, UartWrite, UartRead, BleReadEvent
    <2> QED
      BY <2>2 DEF StartRead, NoRet
  <1>10. LateDone'
    BY <1>1, <1>2, <1>9 DEF LateDone, WentOn
  <1>11. LateScan'
    BY <1>2, <1>4, <1>7 DEF LateScan, OneOfTwo, KeptBefore
  <1>12. LateRead'
    <2>1. SUFFICES ASSUME pc' = "read" PROVE (call'.fn = "transact" => Behind') /\ ToRead'
      BY DEF LateRead
    <2>2. StartRead(CallOf(step)) /\ CallOf(step).fn \in {"uart_read", "ble_read_event"}
      BY <2>1 DEF DoCall, Transact, UartWrite, UartRead, BleReadEvent, StartRequest, Return
    <2>3. step \in {"lb_read", "scan_read"}
      <3>1. CallOf(step) = MadeBy(step) /\ step \in Steps
        BY CallIsKnown, <1>2 DEF ProgramInv, ProgramOK
      <3>2. step = "lb_write" => MadeBy(step).fn = "uart_write"
        BY StepCalls, OtherCalls
      <3>3. step \notin {"lb_write", "lb_read", "scan_read"} => MadeBy(step).fn = "transact"
        BY <3>1, CommandSteps DEF IsCommand
      <3> QED
        BY <2>2, <3>1, <3>2, <3>3
    <2>4. call'.fn # "transact"
      BY <2>2 DEF StartRead
    <2>5. KeptAfter(step) = KeptBefore(step)
      BY <2>3 DEF KeptAfter, KeptBefore
    <2> QED
      BY <1>2, <1>4, <1>7, <2>4, <2>5 DEF ToRead
  <1> QED
    BY <1>8, <1>10, <1>11, <1>12

LEMMA LateDecide ==
  ASSUME ToolInv, LateInv, Decide
  PROVE  LateInv'
  <1> USE DEF ToolInv, BaseInv
  <1>1. /\ GoesOn \/ Finishes
        /\ UNCHANGED <<vars, cmd, owed, faulty>> /\ pc = "idle"
    BY DecideMoves
  <1>2. UNCHANGED <<outPipe, inPipe, plugged, epoch, issued, call, ret>>
    BY <1>1 DEF vars, hostVars, devVars
  <1>3. step = "lb_abort" => step' = "lb_abort"
    BY <1>1, NextSteps DEF GoesOn, Finishes
  <1>4. NotOwn' = NotOwn
    BY <1>2 DEF NotOwn, OwnReply, Current
  <1>5. \A k : Owes(k)' = Owes(k)
    BY <1>2 DEF Owes, Asks, Answers
  <1>6. Ahead' = Ahead
    BY <1>2 DEF Ahead
  <1>7. SUFFICES ASSUME LateRun, LateRun', plugged, phase' = "do", GoesOn PROVE ToAsk'
    <2>1. phase' \in {"do", "ended"} /\ (phase' = "do" => GoesOn)
      BY <1>1 DEF GoesOn, Finishes
    <2>2. LateRun' => LateRun
      BY <1>1, <1>3 DEF LateRun
    <2> QED
      BY <1>2, <1>4, <2>1, <2>2, <1>7 DEF LateInv, LateAsk, LateRead, LateDone, LateScan
  <1>8. SUFFICES (\A k \in KeptBefore(step') : Owes(k)) /\ (step' = "scan_stop" => OneOfTwo)
                   /\ (Owes(1) \/ Owes(2))
    BY <1>5, <1>6, OwedAhead DEF ToAsk, OneOfTwo
  <1>9. phase = "done" /\ WentOn => \A k \in KeptAfter(step) : Owes(k)
    BY <1>1, <1>7 DEF LateInv, LateDone, ToRead
  <1>10. CASE phase = "done" /\ Ok /\ step \in DOMAIN NextStep /\ step' = NextStep[step]
    <2>1. \/ step = "dev_info" /\ step' = "caps"
          \/ step = "lb_open" /\ step' = "lb_write"
          \/ step = "scan_cap" /\ step' = "scan_param"
          \/ step = "scan_param" /\ step' = "scan_start"
          \/ step = "scan_start" /\ step' = "scan_read"
      BY <1>10 DEF NextStep
    <2>2. \A k \in KeptAfter(step) : Owes(k)
      BY <1>9, <1>10 DEF Ok, WentOn
    <2> QED
      BY <2>1, <2>2 DEF KeptAfter, KeptBefore
  <1>11. CASE phase = "done" /\ Ok /\ step \in {"lb_write", "lb_read"}
              /\ step' \in {"lb_read", "lb_close"}
    <2>1. \A k \in KeptAfter(step) : Owes(k)
      BY <1>9, <1>11 DEF Ok, WentOn
    <2> QED
      BY <1>11, <2>1 DEF KeptAfter, KeptBefore
  <1>12. CASE /\ phase = "done" /\ ret.result \in {"OK", "ERR_TIMEOUT"}
              /\ step = "scan_read" /\ step' = "scan_read"
    <2>1. \A k \in KeptAfter(step) : Owes(k)
      BY <1>9, <1>12 DEF WentOn
    <2> QED
      BY <1>12, <2>1 DEF KeptAfter, KeptBefore
  <1>13. CASE step = "scan_read" /\ step' = "scan_stop"
    <2>1. OneOfTwo
      <3>1. CASE phase = "do"
        <4>1. \A k \in KeptBefore(step) : Owes(k)
          BY <1>7, <3>1 DEF LateInv, LateAsk, ToAsk
        <4> QED
          BY <1>13, <4>1 DEF KeptBefore, OneOfTwo
      <3>2. CASE phase = "done"
        BY <1>7, <1>13, <3>2 DEF LateInv, LateScan
      <3> QED
        BY <1>7, <3>1, <3>2 DEF GoesOn, ProgramInv, ProgramOK
    <2> QED
      BY <1>13, <2>1 DEF KeptBefore, OneOfTwo
  <1>14. step' # "lb_abort"
    BY <1>7 DEF LateRun
  <1> QED
    BY <1>7, <1>10, <1>11, <1>12, <1>13, <1>14 DEF GoesOn

LEMMA LateWrites ==
  ASSUME ToolInv, LateInv, WriteFrame, Transfer
  PROVE  LateInv'
  <1> USE DEF ToolInv, BaseInv
  <1>1. /\ phase = "done" /\ phase' = phase /\ pc = "write" /\ step' = step
        /\ UNCHANGED <<cmd, owed, faulty, call, inPipe, plugged, issued, epoch>>
        /\ outPipe' = Append(outPipe, [frame |-> Request, whole |-> TRUE])
        /\ IF call.fn = "transact" THEN pc' = "read" /\ UNCHANGED <<rx, ret>>
           ELSE Return("OK", NoFrame, TRUE)
    BY TransferStays DEF Transfer, WriteFrame, Sent, progVars, histVars
  <1>2. outPipe \in Seq(Written)
    BY DEF IInv, TypeInv, TypeOK
  <1>3. NotOwn => NotOwn'
    BY <1>1 DEF NotOwn, OwnReply, Current
  <1>4. /\ \A i \in 1 .. Len(outPipe) : i \in 1 .. Len(outPipe') /\ outPipe'[i] = outPipe[i]
        /\ Len(outPipe) + 1 \in 1 .. Len(outPipe')
        /\ outPipe'[Len(outPipe) + 1] = [frame |-> Request, whole |-> TRUE]
    BY <1>1, <1>2
  <1>5. outPipe'[Len(outPipe) + 1].frame = Request
    BY <1>4
  <1>6. \A k : Owes(k) => Owes(k)'
    BY <1>1, <1>4 DEF Owes, Asks, Answers
  <1>7. SUFFICES ASSUME LateRun, plugged PROVE LateAsk' /\ LateRead' /\ LateDone' /\ LateScan'
    BY <1>1, <1>3 DEF LateInv, LateRun
  <1>8. Ahead /\ (\A k \in KeptBefore(step) : Owes(k))
    BY <1>1, <1>7 DEF LateInv, LateAsk, ToAsk
  <1>9. pc' # "write" /\ LateAsk'
    BY <1>1 DEF Return, LateAsk
  <1>10. call = MadeBy(step) /\ step \in Steps /\ issued = DrawnAfter(step)
    BY <1>1 DEF ProgramInv, ProgramOK, PhaseOK, CallMade
  <1>11. step # "scan_read" /\ step # "lb_read"
    BY <1>1, <1>10, StepCalls, OtherCalls DEF IInv, TypeInv, CallOK
  <1>12. LateScan'
    BY <1>1, <1>11 DEF LateScan
  <1>13. CASE call.fn = "transact"
    <2>1. Request.msg_type = "CMD" /\ Request.epoch = epoch /\ Request.id = issued
      BY <1>1, <1>13, RequestOfStep DEF Request
    <2>2. Owes(issued)'
      BY <1>1, <1>4, <1>5, <2>1 DEF Owes, Asks
    <2>3. ToRead'
      <3>1. step # "lb_write"
        BY <1>10, <1>13, StepCalls, OtherCalls
      <3>2. \A k \in KeptAfter(step) : k \in KeptBefore(step) \/ k = issued
        BY <1>10, <1>11, <3>1 DEF KeptAfter, KeptBefore, DrawnAfter, DrawnBefore
      <3> QED
        BY <1>1, <1>6, <1>8, <2>2, <3>2 DEF ToRead
    <2>4. Behind'
      <3>1. CASE inPipe # <<>>
        <4>1. Head(inPipe).frame \in Incoming
          BY <3>1 DEF Incoming, IInv, TypeInv, TypeOK
        <4>2. ~ OwnReply(Head(inPipe).frame)
          BY <1>1, <4>1 DEF PipesInv, Unsent
        <4> QED
          BY <1>1, <3>1, <4>2 DEF Behind, OwnReply, Current
      <3>2. CASE inPipe = <<>>
        <4>1. PICK i \in 1 .. Len(outPipe) : outPipe[i].frame.msg_type = "CMD"
          BY <1>8, <3>2 DEF Ahead
        <4>2. ~ Current(outPipe[i].frame)
          BY <1>1 DEF PipesInv, Unsent
        <4> QED
          BY <1>1, <1>4, <3>2, <4>1, <4>2 DEF Behind, Current
      <3> QED
        BY <3>1, <3>2
    <2> QED
      BY <1>1, <1>9, <1>12, <1>13, <2>3, <2>4 DEF LateRead, LateDone
  <1>14. CASE call.fn # "transact"
    <2>1. step = "lb_write"
      BY <1>10, <1>11, <1>14, CommandSteps DEF IsCommand
    <2>2. ToRead'
      BY <1>1, <1>6, <1>8, <2>1 DEF ToRead, KeptAfter, KeptBefore
    <2> QED
      BY <1>1, <1>9, <1>12, <1>14, <2>2 DEF Return, LateRead, LateDone
  <1> QED
    BY <1>13, <1>14

LEMMA LateFails ==
  ASSUME ToolInv, LateInv, TransferNotWritten \/ (Transfer /\ (ReadFails \/ NoDevice))
  PROVE  LateInv'
  <1> USE DEF ToolInv, BaseInv
  <1>1. CASE TransferNotWritten
    BY <1>1 DEF TransferNotWritten, LateInv, LateRun
  <1>2. CASE Transfer /\ (ReadFails \/ NoDevice)
    <2>1. /\ phase = "done" /\ phase' = phase /\ step' = step /\ pc' = "idle"
          /\ UNCHANGED <<cmd, owed, faulty, call, outPipe, inPipe, plugged, epoch>>
          /\ ret'.frame = NoFrame /\ ret'.result # "OK"
          /\ (plugged => pc = "read")
      <3>1. ReadFails \/ NoDevice => /\ UNCHANGED <<outPipe, inPipe, plugged, epoch>>
                                     /\ pc' = "idle"
                                     /\ (plugged => pc = "read")
                                     /\ ret'.frame = NoFrame /\ ret'.result # "OK"
        BY EmptyFramesOwn DEF ReadFails, NoDevice, Return, TransferErrors, devVars
      <3> QED
        BY <1>2, <3>1, TransferStays DEF Transfer, progVars, histVars
    <2>2. NotOwn'
      BY <2>1, NoFrameIsNoReply DEF NotOwn, OwnReply
    <2>3. \A k : Owes(k)' = Owes(k)
      BY <2>1 DEF Owes, Asks, Answers
    <2>4. LateRun' = LateRun
      BY <2>1 DEF LateRun
    <2>5. ASSUME LateRun, plugged PROVE LateAsk' /\ LateRead' /\ LateDone' /\ LateScan'
      <3>1. LateRead /\ LateScan
        BY <2>5 DEF LateInv
      <3>2. ToRead'
        BY <2>1, <2>3, <2>5, <3>1 DEF LateRead, ToRead
      <3> QED
        BY <2>1, <2>3, <3>1, <3>2 DEF LateAsk, LateRead, LateDone, LateScan, OneOfTwo
    <2> QED
      BY <2>1, <2>2, <2>4, <2>5 DEF LateInv
  <1> QED
    BY <1>1, <1>2

LEMMA LateDevice ==
  ASSUME ToolInv, LateInv, CliDevice
  PROVE  LateInv'
  <1>1. /\ UNCHANGED <<cmd, step, phase, pc, call, ret, issued, epoch, owed>>
        /\ faulty => faulty'
        /\ plugged' => plugged
    BY CliDeviceStays DEF progVars, hostVars
  <1>2. NotOwn' = NotOwn
    BY <1>1 DEF NotOwn, OwnReply, Current
  <1>3. LateRun' => LateRun
    BY <1>1 DEF LateRun
  <1>4. ASSUME LateRun', plugged' PROVE LateAsk' /\ LateRead' /\ LateDone' /\ LateScan'
    <2>1. OwedStays
      BY <1>4, DeviceOwes DEF LateRun
    <2>2. LateAsk /\ LateRead /\ LateDone /\ LateScan
      BY <1>1, <1>3, <1>4 DEF LateInv
    <2>3. (ToAsk => ToAsk') /\ (ToRead => ToRead') /\ (OneOfTwo => OneOfTwo') /\ (Behind => Behind')
      BY <1>1, <2>1 DEF OwedStays, ToAsk, ToRead, OneOfTwo
    <2> QED
      BY <1>1, <2>2, <2>3 DEF LateAsk, LateRead, LateDone, LateScan, WentOn
  <1> QED
    BY <1>2, <1>3, <1>4 DEF LateInv

LEMMA LateRest ==
  ASSUME ToolInv, LateInv, Clock \/ Kill \/ DebugRead \/ UNCHANGED cliVars
  PROVE  LateInv'
  <1>1. CASE DebugRead
    <2>1. cmd = "debug_xfer" /\ cmd' = cmd
      BY <1>1, TransferStays, DebugOutcomes DEF ToolInv, BaseInv
    <2> QED
      BY <2>1 DEF LateInv, LateRun
  <1>2. CASE Clock \/ Kill \/ UNCHANGED cliVars
    <2>1. UNCHANGED <<vars, cmd, step, owed, faulty>> /\ phase' \in {phase, "ended"}
      BY <1>2 DEF Clock, Kill, cliVars, progVars, histVars
    <2>2. UNCHANGED <<pc, call, ret, rx, outPipe, inPipe, plugged, epoch, issued>>
      BY <2>1 DEF vars, hostVars, devVars
    <2>3. NotOwn' = NotOwn /\ LateRun' = LateRun
      BY <2>1, <2>2 DEF NotOwn, OwnReply, Current, LateRun
    <2>4. (ToAsk => ToAsk') /\ (ToRead => ToRead') /\ (OneOfTwo => OneOfTwo') /\ (Behind => Behind')
      BY <2>1, <2>2, SamePipes DEF OwedStays, ToAsk, ToRead, OneOfTwo
    <2>5. LateAsk /\ LateRead /\ LateDone /\ LateScan => LateAsk' /\ LateRead' /\ LateDone' /\ LateScan'
      BY <2>1, <2>2, <2>4 DEF LateAsk, LateRead, LateDone, LateScan, WentOn
    <2> QED
      BY <2>2, <2>3, <2>5 DEF LateInv
  <1> QED
    BY <1>1, <1>2

\* A read takes the head of the pipe, and with it at most one answer.
LEMMA ReadOwes ==
  ASSUME ToolInv, ReadPacket
  PROVE  \A k : Owes(k) => Owes(k)' \/ Answers(Head(inPipe).frame, k)
  <1>1. /\ inPipe \in Seq(Packet) /\ inPipe # <<>> /\ inPipe' = Tail(inPipe)
        /\ UNCHANGED <<outPipe, epoch>>
    BY DEF ReadPacket, ToolInv, BaseInv, IInv, TypeInv, TypeOK
  <1>2. ASSUME NEW i \in 1 .. Len(inPipe), i # 1
        PROVE  i - 1 \in 1 .. Len(inPipe') /\ inPipe'[i - 1] = inPipe[i]
    BY <1>1, <1>2
  <1>3. Head(inPipe) = inPipe[1]
    BY <1>1
  <1>4. ASSUME NEW k, NEW i \in 1 .. Len(inPipe), Answers(inPipe[i].frame, k)
        PROVE  Owes(k)' \/ Answers(Head(inPipe).frame, k)
    <2>1. CASE i = 1
      BY <1>3, <1>4, <2>1
    <2>2. CASE i # 1
      BY <1>1, <1>2, <1>4, <2>2 DEF Owes, Answers
    <2> QED
      BY <2>1, <2>2
  <1> QED
    BY <1>1, <1>4 DEF Owes, Asks

\* OwnHere of the state after a step.
LEMMA OwnNext ==
  (ToolInv /\ cmd # "debug_xfer" /\ CallMade /\ call.fn = "transact" /\ ret.result = "OK"
    /\ ret.frame.epoch = epoch)' => OwnReply(ret.frame)'
  <1>1. ToolInv /\ cmd # "debug_xfer" /\ CallMade /\ call.fn = "transact" /\ ret.result = "OK"
          /\ ret.frame.epoch = epoch => OwnReply(ret.frame)
    BY OwnHere
  <1> QED
    BY <1>1, PTL

LEMMA LateReads ==
  ASSUME ToolInv, ToolInv', ShortInv, LateInv, ReadPacket, Transfer
  PROVE  LateInv'
  <1> USE DEF ToolInv, BaseInv
  <1> DEFINE p == Head(inPipe)
  <1>1. /\ phase = "done" /\ phase' = phase /\ step' = step /\ pc = "read" /\ plugged
        /\ UNCHANGED <<cmd, owed, faulty, call, issued, epoch, plugged, payload_len>>
        /\ inPipe # <<>> /\ pc' \in {"read", "idle"}
    BY TransferStays DEF Transfer, ReadPacket, progVars, histVars
  <1>2. SUFFICES ASSUME LateRun
                 PROVE  NotOwn' /\ LateAsk' /\ LateRead' /\ LateDone' /\ LateScan'
    BY <1>1 DEF LateInv, LateRun
  <1>3. NotOwn /\ ToRead /\ (call.fn = "transact" => Behind)
    BY <1>1, <1>2 DEF LateInv, LateRead
  <1>4. \A f : OwnReply(f)' = OwnReply(f)
    BY <1>1 DEF OwnReply, Current
  <1>5. LateAsk'
    BY <1>1 DEF LateAsk
  <1>6. step = "scan_read" => OneOfTwo'
    <2>1. SUFFICES ASSUME step = "scan_read" PROVE OneOfTwo'
      OBVIOUS
    <2>2. Owes(1) /\ Owes(2)
      BY <1>3, <2>1 DEF ToRead, KeptAfter
    <2>3. ~ (Answers(p.frame, 1) /\ Answers(p.frame, 2))
      BY DEF Answers
    <2> QED
      BY <2>2, <2>3, ReadOwes DEF OneOfTwo
  <1>7. LateScan'
    BY <1>1, <1>6 DEF LateScan
  <1>8. CASE p.frame.msg_type = "RSP"
    <2>1. /\ pc' = "idle"
          /\ \/ ret'.frame = NoFrame /\ ret'.result \in {"ERR_IO", "ERR_PROTO"}
             \/ /\ rx.offset = 0 /\ ret'.frame = p.frame
                /\ ret'.result = Verdict(call, p.frame)
      BY <1>8, ReadAnswer
    <2>2. NotOwn'
      <3>1. CASE ret'.frame = NoFrame
        BY <1>4, <3>1, NoFrameIsNoReply DEF NotOwn, OwnReply
      <3>2. CASE rx.offset = 0 /\ ret'.frame = p.frame
        <4>1. call.fn = "transact" => ~ OwnReply(p.frame)
          BY <1>1, <1>3, <3>2 DEF Behind
        <4>2. NotOwn' = (call.fn = "transact" => ~ OwnReply(ret'.frame))
          BY <1>1 DEF NotOwn, OwnReply, Current
        <4> QED
          BY <3>2, <4>1, <4>2
      <3> QED
        BY <2>1, <3>1, <3>2
    <2>3. LateDone'
      <3>1. SUFFICES ASSUME WentOn' PROVE ToRead'
        BY DEF LateDone
      <3>2. ret'.frame = p.frame /\ ret'.result = Verdict(call, p.frame)
            /\ ret'.result \in {"OK", "ERR_TIMEOUT"}
        BY <2>1, <3>1 DEF WentOn
      <3>3. call = MadeBy(step) /\ step \in Steps /\ CallMade'
        BY <1>1 DEF ProgramInv, ProgramOK, PhaseOK, CallMade
      <3>4. call.fn \in {"transact", "uart_read", "ble_read_event"}
        BY <1>1 DEF IInv, TypeInv, CallOK
      <3>5. call.fn = "transact" /\ ret'.result = "OK"
        BY <1>8, <3>2, <3>4 DEF Verdict, TakeResponse, TakeData, TakeEvent
      <3>6. cmd' # "debug_xfer"
        BY <1>1, <1>2 DEF LateRun
      <3>7. ret'.frame.epoch = epoch' => OwnReply(ret.frame)'
        BY <1>1, <3>3, <3>5, <3>6, OwnNext
      <3>8. p.frame.epoch # epoch
        BY <1>1, <2>2, <3>2, <3>5, <3>7 DEF NotOwn
      <3>9. \A k : ~ Answers(p.frame, k)
        BY <3>8 DEF Answers
      <3> QED
        BY <1>1, <1>3, <3>9, ReadOwes DEF ToRead
    <2> QED
      BY <1>5, <1>7, <2>1, <2>2, <2>3 DEF LateRead
  <1>9. CASE p.frame.msg_type # "RSP"
    <2>1. ToRead'
      <3>1. \A k : ~ Answers(p.frame, k)
        BY <1>9 DEF Answers
      <3> QED
        BY <1>1, <1>3, <3>1, ReadOwes DEF ToRead
    <2>2. \/ /\ rx'.offset = rx.offset + p.len /\ p.len # 0
             /\ pc' = pc /\ ret' = ret
          \/ pc' = "idle" /\ ret'.frame = NoFrame
          \/ pc' = "idle" /\ ret'.frame = (IF rx.offset = 0 THEN p ELSE rx.lead).frame
      BY ReadOutcomes DEF IInv, Return
    <2>3. NotOwn'
      <3>1. CASE ret' = ret
        BY <1>1, <1>3, <3>1 DEF NotOwn, OwnReply, Current
      <3>2. CASE ret'.frame.msg_type # "RSP"
        BY <3>2 DEF NotOwn, OwnReply
      <3> QED
        BY <1>9, <2>2, <3>1, <3>2, NoFrameIsNoReply DEF ShortInv
    <2>4. pc' = "read" => Behind'
      <3>1. p.len \in Nat /\ rx.offset \in Nat
        <4>1. inPipe \in Seq(Packet) /\ rx \in Received
          BY DEF IInv, TypeInv, TypeOK
        <4>2. p \in Packet
          BY <1>1, <4>1
        <4> QED
          BY <4>1, <4>2 DEF Packet, Received
      <3>2. pc' = "read" => rx'.offset # 0
        BY <2>2, <3>1
      <3> QED
        BY <3>2 DEF Behind
    <2> QED
      BY <1>5, <1>7, <2>1, <2>3, <2>4 DEF LateRead, LateDone
  <1> QED
    BY <1>8, <1>9

LEMMA NextLate ==
  ASSUME ToolInv, ShortInv, LateInv, [CliNext]_cliVars
  PROVE  LateInv'
  <1>1. ToolInv'
    BY NextTool
  <1>2. CASE Transfer
    BY <1>1, <1>2, LateWrites, LateReads, LateFails DEF Transfer
  <1> QED
    BY <1>2, LateStart, LateCall, LateDecide, LateFails, LateDevice, LateRest DEF CliNext, Tool

\* A run that starts with an answer or a packet still on its way never ends
\* well, that is on an own answer, unless a request is refused, lost or not
\* written: however many stale answers its commands accept, its own stay behind
\* them, and the command that comes upon the first of these is a later one and
\* fails the match.
THEOREM LateRunsFail == ShortAnswers /\ CliSpec => []BehindStaysBehind
  <1> SUFFICES ASSUME ShortAnswers PROVE CliSpec => []BehindStaysBehind
    OBVIOUS
  <1>1. CliInit => ShortInv /\ LateInv
    <2> SUFFICES ASSUME CliInit PROVE ShortInv /\ LateInv
      OBVIOUS
    <2>1. ~ owed
      BY DEF CliInit
    <2>2. ShortInv
      BY NothingLeads, NoFrameIsNoReply DEF CliInit, Init, ShortInv, Incoming, NoRet, EmptyRx
    <2> QED
      BY <2>1, <2>2 DEF LateInv, LateRun
  <1>2. ToolInv /\ ShortInv /\ LateInv /\ [CliNext]_cliVars => ShortInv' /\ LateInv'
    BY NextShort, NextLate
  <1>3. ToolInv /\ LateInv => BehindStaysBehind
    <2> SUFFICES ASSUME ToolInv, LateInv, owed, ~ faulty, cmd # "debug_xfer", EndedWell
                 PROVE  FALSE
      BY DEF BehindStaysBehind
    <2>1. OwnReply(ret.frame) /\ call.fn = "transact" /\ step \in LastSteps \cup {"lb_close"}
      BY EndedOwn
    <2>2. step # "lb_abort"
      BY <2>1 DEF LastSteps
    <2> QED
      BY <2>1, <2>2 DEF LateInv, LateRun, NotOwn
  <1> QED
    BY <1>1, <1>2, <1>3, ToolInvariant, PTL DEF CliSpec
=============================================================================
