------------------------------- MODULE MuxApi -------------------------------
(***************************************************************************)
(* The frame constants of proto.h and the table of library calls.          *)
(*                                                                         *)
(* Every public function of uart.c and ble.c that talks to the device is   *)
(* a thin wrapper: it fixes the channel, the opcode, the payload length    *)
(* and the response buffer, and hands them to transact() or to             *)
(* write_frame()/read_frame().  A call is therefore a record of those      *)
(* choices, and the wrappers are the constants defined here.  Payload      *)
(* bytes are abstracted to their length.                                   *)
(***************************************************************************)
EXTENDS Naturals

\* proto.h: sizes in bytes.
HEADER_LEN     == 24
MAX_FRAME_LEN  == 512
EP_PACKET_SIZE == 64
MAX_PAYLOAD    == MAX_FRAME_LEN - HEADER_LEN

ChTypes  == {"SYS", "UART_CTRL", "UART_DATA", "BLE_MGMT"}
MsgTypes == {"CMD", "RSP", "EVT", "DATA"}

\* What a call may return (ch32mux_result_t).
Results == {"OK", "ERR_ARG", "ERR_PROTO", "ERR_TIMEOUT", "ERR_IO",
            "ERR_NOT_FOUND", "ERR_DEVICE_STATUS", "ERR_OVERFLOW"}

\* fn       which of the four call shapes it is; transact() alone sends a CMD
\* len      payload bytes of the request
\* capacity bytes of the caller's response buffer
\* buf      the response buffer is not NULL
\* exact    the wrapper insists that the response fills the buffer exactly
Call ==
  {c \in [fn : {"transact", "uart_write", "uart_read", "ble_read_event"},
          ch_type : ChTypes, ch_id : Nat, msg_type : MsgTypes, opcode : Nat,
          len : Nat, capacity : Nat, buf : BOOLEAN, exact : BOOLEAN] :
     c.fn = "transact" <=> c.msg_type = "CMD"}

\* A command whose wrapper parses a response of a fixed size.
Query(ch_type, ch_id, opcode, size) ==
  [fn |-> "transact", ch_type |-> ch_type, ch_id |-> ch_id, msg_type |-> "CMD",
   opcode |-> opcode, len |-> 0, capacity |-> size, buf |-> TRUE, exact |-> TRUE]

\* A command answered by a bare status: NULL response buffer of size 0.
Order(ch_type, ch_id, opcode, len) ==
  [fn |-> "transact", ch_type |-> ch_type, ch_id |-> ch_id, msg_type |-> "CMD",
   opcode |-> opcode, len |-> len, capacity |-> 0, buf |-> FALSE, exact |-> FALSE]

sys_get_dev_info        == Query("SYS", 0, 1, 8)
sys_get_caps            == Query("SYS", 0, 2, 8)
uart_get_port_cap(port) == Query("UART_CTRL", port, 1, 12)
uart_get_stats(port)    == Query("UART_CTRL", port, 12, 20)
ble_get_cap             == Query("BLE_MGMT", 0, 1, 8)

uart_open(port)         == Order("UART_CTRL", port, 3, 8)
uart_close(port)        == Order("UART_CTRL", port, 4, 0)
ble_set_scan_param      == Order("BLE_MGMT", 0, 2, 9)
ble_scan_start          == Order("BLE_MGMT", 0, 3, 0)
ble_scan_stop           == Order("BLE_MGMT", 0, 4, 0)

\* The caller of the heartbeat chooses the payload and the response buffer.
sys_heartbeat(len, capacity, buf) ==
  [Order("SYS", 0, 7, len) EXCEPT !.capacity = capacity, !.buf = buf]

\* The one command whose payload pointer comes from the caller.
CallersPayload(c) == c.fn = "transact" /\ c.ch_type = "SYS" /\ c.opcode = 7

\* A DATA frame to a port: written, never answered.
uart_write(port, len) ==
  [fn |-> "uart_write", ch_type |-> "UART_DATA", ch_id |-> port, msg_type |-> "DATA",
   opcode |-> 0, len |-> len, capacity |-> 0, buf |-> FALSE, exact |-> FALSE]

\* The two calls that only read a frame.
uart_read(port, capacity) ==
  [fn |-> "uart_read", ch_type |-> "UART_DATA", ch_id |-> port, msg_type |-> "DATA",
   opcode |-> 0, len |-> 0, capacity |-> capacity, buf |-> TRUE, exact |-> FALSE]

ble_read_event(capacity, buf) ==
  [fn |-> "ble_read_event", ch_type |-> "BLE_MGMT", ch_id |-> 0, msg_type |-> "EVT",
   opcode |-> 0, len |-> 0, capacity |-> capacity, buf |-> buf, exact |-> FALSE]

\* The commands that change a UART port of the device.
OpensPort(c)  == c.fn = "transact" /\ c.ch_type = "UART_CTRL" /\ c.opcode = 3
ClosesPort(c) == c.fn = "transact" /\ c.ch_type = "UART_CTRL" /\ c.opcode = 4
=============================================================================
