----------------------------- MODULE RemoteCall -----------------------------
(***************************************************************************)
(* What the library promises a client that sends commands to the device    *)
(* over one session, with no word of frames, packets or numbers that wrap: *)
(*                                                                         *)
(*  - a command is carried out at most once, and after those sent before;  *)
(*  - a call returns "ok" only if the device has carried out this very     *)
(*    command, and "refused" only if it has refused it;                    *)
(*  - a call may fail at any time, and then the command may still be       *)
(*    carried out later;                                                   *)
(*  - an answer that comes too late for its call has no effect.            *)
(***************************************************************************)
EXTENDS Naturals

CONSTANT Ports  \* the ports commands open and close

VARIABLES
  number,   \* commands issued
  command,  \* the last of them
  phase,    \* "idle", or its call has "begun", or it is "sent"
  pending,  \* commands sent that the device has not looked at
  answers,  \* what the device has answered to the last one
  outcome,  \* what its call returned
  ports,    \* open ports
  present   \* the device is there

vars == <<number, command, phase, pending, answers, outcome, ports, present>>

Command == [kind : {"open", "close", "other"}, port : Ports]

Mine == [id |-> number, command |-> command]

Init ==
  /\ number = 0 /\ command \in Command
  /\ phase = "idle" /\ outcome = "none"
  /\ pending = {} /\ answers = {}
  /\ ports = {} /\ present = TRUE

-----------------------------------------------------------------------------
(* The client.                                                             *)

\* A call begins, or is over at once.
Begin ==
  /\ phase = "idle"
  /\ number' = number + 1
  /\ command' \in Command
  /\ \/ phase' = "begun" /\ outcome' = "none"
     \/ phase' = "idle" /\ outcome' \in {"none", "failed"}
  /\ answers' = {}
  /\ UNCHANGED <<pending, ports, present>>

\* The client does something else, and forgets what the last call returned.
Other ==
  /\ phase = "idle"
  /\ outcome' = "none"
  /\ command' \in Command
  /\ UNCHANGED <<number, phase, pending, answers, ports, present>>

Send ==
  /\ phase = "begun" /\ present
  /\ phase' = "sent"
  /\ pending' = pending \cup {Mine}
  /\ UNCHANGED <<number, command, answers, outcome, ports, present>>

\* The call returns with the device's answer.
Return ==
  /\ phase = "sent" /\ present
  /\ phase' = "idle"
  /\ \/ "OK" \in answers /\ outcome' = "ok"
     \/ "ERR" \in answers /\ outcome' = "refused"
  /\ answers' \in SUBSET answers
  /\ UNCHANGED <<number, command, pending, ports, present>>

\* The call fails.  The command may have reached the device, or reach it yet.
Fail ==
  /\ phase # "idle"
  /\ phase' = "idle"
  /\ outcome' = "failed"
  /\ pending' \in {pending} \cup (IF phase = "begun" THEN {pending \cup {Mine}} ELSE {})
  /\ answers' \in SUBSET answers
  /\ UNCHANGED <<number, command, ports, present>>

-----------------------------------------------------------------------------
(* The device.                                                             *)

\* The oldest command.
Oldest(x) == x \in pending /\ \A y \in pending : x.id <= y.id

Answered(x, status) ==
  answers' = IF x.id = number THEN answers \cup {status} ELSE answers

Execute(x) ==
  /\ Oldest(x)
  /\ pending' = pending \ {x}
  /\ Answered(x, "OK")
  /\ ports' = CASE x.command.kind = "open"  -> ports \cup {x.command.port}
                [] x.command.kind = "close" -> ports \ {x.command.port}
                [] OTHER -> ports
  /\ UNCHANGED <<number, command, phase, outcome, present>>

Refuse(x) ==
  /\ Oldest(x)
  /\ pending' = pending \ {x}
  /\ Answered(x, "ERR")
  /\ UNCHANGED <<number, command, phase, outcome, ports, present>>

Lose(x) ==
  /\ Oldest(x)
  /\ pending' = pending \ {x}
  /\ UNCHANGED <<number, command, phase, answers, outcome, ports, present>>

\* An answer is lost.
Fade ==
  /\ answers' \in SUBSET answers
  /\ UNCHANGED <<number, command, phase, pending, outcome, ports, present>>

Leave ==
  /\ present' = FALSE
  /\ pending' = {} /\ ports' = {}
  /\ answers' \in SUBSET answers
  /\ UNCHANGED <<number, command, phase, outcome>>

Next ==
  \/ Begin \/ Other \/ Send \/ Return \/ Fail
  \/ \E x \in pending : Execute(x) \/ Refuse(x) \/ Lose(x)
  \/ Fade \/ Leave

Spec == Init /\ [][Next]_vars

-----------------------------------------------------------------------------

\* A call that returned "ok" has had its effect, and nothing sent before it is
\* left that could undo it.
Promise ==
  outcome = "ok" /\ present =>
    /\ pending = {}
    /\ command.kind = "open"  => command.port \in ports
    /\ command.kind = "close" => command.port \notin ports
=============================================================================
