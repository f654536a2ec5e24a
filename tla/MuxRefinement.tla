--------------------------- MODULE MuxRefinement ---------------------------
(***************************************************************************)
(* MuxTransact keeps the promise of RemoteCall, in one session and as long *)
(* as the numbers have not gone round.  Data written to a port and frames  *)
(* that are only read are none of RemoteCall's business.                   *)
(***************************************************************************)
EXTENDS MuxTransact

\* One session, less than a whole round of numbers.
OneRound == MaxEpoch = 0 /\ MaxIssued <= SeqMax

\* What a command does to the ports.
KindOf(ch_type, opcode) ==
  IF ch_type = "UART_CTRL" /\ opcode = 3 THEN "open"
  ELSE IF ch_type = "UART_CTRL" /\ opcode = 4 THEN "close"
  ELSE "other"

CommandIn(f) == [kind |-> KindOf(f.ch_type, f.opcode), port |-> f.ch_id]

IsCommand == call.fn = "transact"

PhaseNow ==
  IF ~ IsCommand THEN "idle"
  ELSE IF pc = "write" THEN "begun"
  ELSE IF pc = "read" THEN "sent" ELSE "idle"

\* The whole commands in the pipe to the device.
Asks(w) == w.whole /\ w.frame.msg_type = "CMD"

Entry(w) == [id |-> w.frame.id, command |-> CommandIn(w.frame)]

CommandsPending == {Entry(outPipe[i]) : i \in {j \in 1 .. Len(outPipe) : Asks(outPipe[j])}}

\* The head of an answer to the last request, in the pipe or just read.
Answers(p) == p.index = 1 /\ p.frame.msg_type = "RSP" /\ p.frame.id = issued

Heads == {inPipe[i] : i \in 1 .. Len(inPipe)} \cup {rx.lead}

AnswersSeen == {p.frame.status : p \in {q \in Heads : Answers(q)}}

OutcomeNow ==
  IF ~ IsCommand \/ ret.result = "NONE" THEN "none"
  ELSE IF ret.result = "OK" THEN "ok"
  ELSE IF ret.result = "ERR_DEVICE_STATUS" THEN "refused"
  ELSE "failed"

Abs == INSTANCE RemoteCall WITH
  Ports   <- Nat,
  number  <- issued,
  command <- CommandIn(call),
  phase   <- PhaseNow,
  pending <- CommandsPending,
  answers <- AnswersSeen,
  outcome <- OutcomeNow,
  ports   <- openPorts,
  present <- plugged

\* Every step of the library and the device is one that RemoteCall allows.
KeepsItsPromise == Abs!Spec
=============================================================================
