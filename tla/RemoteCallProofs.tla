-------------------------- MODULE RemoteCallProofs --------------------------
(***************************************************************************)
(* RemoteCall's rules are enough: a client that is told "ok" can rely on   *)
(* the effect of its command, until the device goes.                       *)
(***************************************************************************)
EXTENDS RemoteCall, TLAPS

\* The ports are as the last command wanted them, and nothing is under way.
Done ==
  /\ pending = {}
  /\ command.kind = "open"  => command.port \in ports
  /\ command.kind = "close" => command.port \notin ports

\* While the last command is under way, at most one of the pending ones bears
\* its number, and it is the command itself.
Promised ==
  /\ number \in Nat
  /\ \A x \in pending : x.id \in Nat /\ x.id <= number
  /\ phase = "begun" => answers = {} /\ \A x \in pending : x.id < number
  /\ phase = "sent"  => \A x \in pending : x.id = number => x = Mine
  /\ phase = "sent" /\ present /\ "OK" \in answers => Done
  /\ outcome = "ok" => phase = "idle" /\ (present => Done)

LEMMA DeviceAnswers ==
  ASSUME Promised, NEW x \in pending, Execute(x) \/ Refuse(x) \/ Lose(x)
  PROVE  Promised'
  <1>1. /\ UNCHANGED <<number, command, phase, outcome, present>>
        /\ pending' = pending \ {x} /\ \A y \in pending : x.id <= y.id
    BY DEF Execute, Refuse, Lose, Oldest
  <1>2. phase = "begun" => x.id < number
    BY DEF Promised
  <1>3. x.id # number => answers' = answers
    BY DEF Execute, Refuse, Lose, Answered
  <1>4. phase = "begun" => answers' = {}
    BY <1>2, <1>3 DEF Promised
  <1>5. outcome = "ok" => ~ present
    BY DEF Promised, Done
  <1>6. ASSUME phase = "sent", present, "OK" \in answers'
        PROVE  Done'
    <2>1. x.id = number /\ Execute(x)
      <3>1. "OK" \notin answers
        BY <1>6 DEF Promised, Done
      <3>2. x.id = number
        BY <1>3, <1>6, <3>1
      <3>3. ~ Lose(x)
        BY <1>6, <3>1 DEF Lose
      <3>4. Refuse(x) => answers' = answers \cup {"ERR"}
        BY <3>2 DEF Refuse, Answered
      <3>5. ~ Refuse(x)
        BY <1>6, <3>1, <3>4
      <3> QED
        BY <3>2, <3>3, <3>5
    <2>2. x = Mine
      BY <1>6, <2>1 DEF Promised
    <2>3. \A y \in pending : y = x
      BY <1>1, <1>6, <2>1, <2>2 DEF Promised
    <2>4. pending' = {} /\ command' = command /\ x.command = command
      BY <1>1, <2>2, <2>3 DEF Mine
    <2>5. ports' = CASE command.kind = "open"  -> ports \cup {command.port}
                     [] command.kind = "close" -> ports \ {command.port}
                     [] OTHER -> ports
      BY <2>1, <2>4 DEF Execute
    <2> QED
      BY <2>4, <2>5 DEF Done
  <1> QED
    BY <1>1, <1>4, <1>5, <1>6 DEF Promised, Mine

LEMMA PromisedStep ==
  ASSUME Promised, [Next]_vars
  PROVE  Promised'
  <1>1. CASE Begin
    BY <1>1 DEF Begin, Promised
  <1>2. CASE Other
    BY <1>2 DEF Other, Promised
  <1>3. CASE Send
    BY <1>3 DEF Send, Promised, Mine
  <1>4. CASE Return
    BY <1>4 DEF Return, Promised, Done
  <1>5. CASE Fail
    BY <1>5 DEF Fail, Promised, Mine
  <1>6. CASE \E x \in pending : Execute(x) \/ Refuse(x) \/ Lose(x)
    BY <1>6, DeviceAnswers
  <1>7. CASE Fade
    BY <1>7 DEF Fade, Promised, Done, Mine
  <1>8. CASE Leave
    BY <1>8 DEF Leave, Promised
  <1>9. CASE UNCHANGED vars
    BY <1>9 DEF vars, Promised, Done, Mine
  <1> QED
    BY <1>1, <1>2, <1>3, <1>4, <1>5, <1>6, <1>7, <1>8, <1>9 DEF Next

\* What the abstract specification grants the client: a call that returned "ok"
\* has had its effect and nothing is left that could undo it.
THEOREM PromiseHolds == Spec => []Promise
  <1>1. Init => Promised
    BY DEF Init, Promised
  <1>2. Promised /\ [Next]_vars => Promised'
    BY PromisedStep
  <1>3. Promised => Promise
    BY DEF Promised, Done, Promise
  <1> QED
    BY <1>1, <1>2, <1>3, PTL DEF Spec
=============================================================================
