------------------------------- MODULE MCWire -------------------------------
(***************************************************************************)
(* Small instances of MuxWire.                                             *)
(***************************************************************************)
EXTENDS MuxWire

Blank == [f \in DOMAIN HeaderLayout |-> 0]

\* A request without payload, and a header with every bit of its carried
\* fields set but those that keep it in bounds.
SomeHeaders ==
  {[Blank EXCEPT !.seq = 1, !.ch_type = 1, !.msg_type = 1, !.opcode = 2],
   [Blank EXCEPT !.seq = 65535, !.ref_seq = 258, !.ch_type = 255, !.ch_id = 7,
                 !.msg_type = 2, !.opcode = 129, !.flags = 32769, !.status = 48,
                 !.payload_len = 488, !.reserved = 43981]}
=============================================================================
