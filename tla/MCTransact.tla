---------------------------- MODULE MCTransact ----------------------------
(***************************************************************************)
(* Small instances of MuxTransact.                                         *)
(***************************************************************************)
EXTENDS MuxRefinement

\* Port commands and a heartbeat, with late answers in plenty.
CommandCalls == {uart_open(0), uart_close(0), sys_get_caps}

\* Commands of two sessions, and a call that only reads.
SessionCalls == {uart_open(0), sys_get_caps, uart_read(0, 64)}

\* Commands, events and data on the same endpoint, and calls that are
\* refused when the frame is built.
MixedCalls == {uart_open(0), uart_close(0), uart_write(0, 4), uart_read(0, 64),
               ble_read_event(64, TRUE), sys_heartbeat(489, 8, FALSE)}

\* A short event, an event of 64 + 8 bytes, data of 64 bytes and none.
Unwanted == {<<"EVT", 0, 8>>, <<"EVT", 0, 48>>, <<"DATA", 0, 40>>}

\* The fewest calls that block in each transfer.
BlockingCalls == {uart_open(0), uart_write(0, 4), uart_read(0, 64)}
Data == {<<"DATA", 0, 48>>}
=============================================================================
