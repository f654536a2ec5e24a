----------------------------- MODULE MuxReceive -----------------------------
(***************************************************************************)
(* One call of ch32mux_read_frame(), byte counts exact, and what its       *)
(* callers do with the frame: transact(), ch32mux_uart_read() and          *)
(* ch32mux_ble_read_event() all decode it a second time, with the length   *)
(* read_frame() reports, and copy the payload out.                         *)
(*                                                                         *)
(* The bytes come from outside: any header may be on the wire, and USB     *)
(* may cut the bytes into transfers in any way.                            *)
(***************************************************************************)
EXTENDS MuxCodec

CONSTANTS
  Wires,           \* the headers the first 24 bytes received may form
  FrameCapacities, \* sizes of the frame buffer; 512 in every caller of the library
  Capacities       \* sizes of the buffer the payload is copied to

ASSUME ReceiveAssumption ==
  /\ Wires \subseteq Header
  /\ FrameCapacities \subseteq Nat
  /\ Capacities \subseteq Nat

VARIABLES
  pc,             \* "call", "read", "decode" or "done"
  wire,           \* the header on the wire
  frame_capacity, \* read_frame()'s parameter
  rsp_capacity,   \* the caller's buffer
  offset,         \* bytes received
  target_len,     \* bytes wanted, as far as known
  frame_len,      \* what read_frame() reports
  copied,         \* payload bytes handed to the caller
  result,         \* what the caller returns
  stage           \* history: the check that refused the frame

vars == <<pc, wire, frame_capacity, rsp_capacity, offset, target_len, frame_len,
          copied, result, stage>>

input == <<wire, frame_capacity, rsp_capacity>>

-----------------------------------------------------------------------------

Init ==
  /\ pc = "call"
  /\ wire \in Wires
  /\ frame_capacity \in FrameCapacities
  /\ rsp_capacity \in Capacities
  /\ offset = 0 /\ target_len = HEADER_LEN /\ frame_len = 0 /\ copied = 0
  /\ result = "NONE" /\ stage = "none"

Done(res) == pc' = "done" /\ result' = res

\* A buffer too small for a header is refused.
Enter ==
  /\ pc = "call"
  /\ IF frame_capacity < HEADER_LEN
       THEN Done("ERR_OVERFLOW")
       ELSE pc' = "read" /\ UNCHANGED result
  /\ UNCHANGED <<input, offset, target_len, frame_len, copied, stage>>

RoomUnchecked == EP_PACKET_SIZE                                    \* mutant
\* The most the next transfer may bring: a packet, or what is left of the buffer.
Room ==
  IF frame_capacity - offset > EP_PACKET_SIZE THEN EP_PACKET_SIZE
  ELSE frame_capacity - offset

ContinueRemaining(target) ==                                       \* mutant
  /\ target_len' = target - offset'
  /\ IF offset' < target
       THEN pc' = "read" /\ UNCHANGED frame_len
       ELSE pc' = "decode" /\ frame_len' = target
  /\ UNCHANGED <<result, stage>>
\* The loop has what it wants: one more turn, or the end of read_frame().
Continue(target) ==
  /\ target_len' = target
  /\ IF offset' < target
       THEN pc' = "read" /\ UNCHANGED frame_len
       ELSE pc' = "decode" /\ frame_len' = target
  /\ UNCHANGED <<result, stage>>

Refuse(res, at) ==
  /\ Done(res) /\ stage' = at
  /\ UNCHANGED <<target_len, frame_len>>

GotLast(n) == n                                                    \* mutant
\* Bytes received once the transfer in hand has brought n.
Got(n) == offset + n

HeaderAtOnce(n) == target_len = HEADER_LEN                         \* mutant
\* They are the first to hold a whole header, as far as the code can tell.
HeaderComplete(n) == target_len = HEADER_LEN /\ Got(n) >= HEADER_LEN

\* A transfer brings n bytes.  Once there are 24 of them the header tells how
\* many there should be.
Transfer(n) ==
  /\ pc = "read"
  /\ n \in 1 .. Room
  /\ offset' = Got(n)
  /\ IF HeaderComplete(n)
       THEN IF decode_header(wire, Got(n)) # "OK"
              THEN Refuse(decode_header(wire, Got(n)), decode_stage(wire, Got(n)))
            ELSE IF wire.total_len > frame_capacity
              THEN Refuse("ERR_OVERFLOW", "too_long")
            ELSE Continue(wire.total_len)
       ELSE Continue(target_len)
  /\ UNCHANGED <<input, copied>>

\* The transfer fails, or succeeds with nothing in it; none is tried when the
\* buffer is full.
TransferFails ==
  /\ pc = "read"
  /\ \E e \in IF Room <= 0 THEN {"ERR_OVERFLOW"}
             ELSE {"ERR_TIMEOUT", "ERR_IO", "ERR_NOT_FOUND"} : Done(e)
  /\ UNCHANGED <<input, offset, target_len, frame_len, copied, stage>>

DecodesAtAnyLength ==                                              \* mutant
  /\ pc = "decode"
  /\ IF decode_header(wire, HEADER_LEN) # "OK"
       THEN Done(decode_header(wire, HEADER_LEN)) /\ UNCHANGED copied
     ELSE IF wire.payload_len > rsp_capacity
       THEN Done("ERR_OVERFLOW") /\ UNCHANGED copied
     ELSE Done("OK") /\ copied' = wire.payload_len
  /\ UNCHANGED <<input, offset, target_len, frame_len, stage>>
\* The caller decodes again.  It may then refuse the frame for a field the codec
\* only carries (channel, type, number, status), or for want of room or of a
\* buffer, and else copies the payload.
CallerDecodes ==
  /\ pc = "decode"
  /\ \/ /\ decode_header(wire, frame_len) # "OK"
        /\ Done(decode_header(wire, frame_len))
        /\ stage' = decode_stage(wire, frame_len)
        /\ UNCHANGED copied
     \/ /\ decode_header(wire, frame_len) = "OK"
        /\ \E e \in {"ERR_PROTO", "ERR_DEVICE_STATUS"} : Done(e)
        /\ stage' = "caller"
        /\ UNCHANGED copied
     \/ /\ decode_header(wire, frame_len) = "OK"
        /\ \/ wire.payload_len > rsp_capacity /\ Done("ERR_OVERFLOW")
           \/ wire.payload_len \in 1 .. rsp_capacity /\ Done("ERR_ARG")
        /\ UNCHANGED <<copied, stage>>
     \/ /\ decode_header(wire, frame_len) = "OK"
        /\ wire.payload_len <= rsp_capacity
        /\ Done("OK")
        /\ copied' = wire.payload_len
        /\ UNCHANGED stage
  /\ UNCHANGED <<input, offset, target_len, frame_len>>

ReadFrame ==
  \/ Enter \/ TransferFails
  \/ \E n \in 1 .. EP_PACKET_SIZE : Transfer(n)

Next == ReadFrame \/ CallerDecodes

Spec == Init /\ [][Next]_vars

\* The call goes on until it returns: every transfer ends, if timeout_ms is
\* not 0.
FairSpec == Spec /\ WF_vars(Next)

-----------------------------------------------------------------------------
(* Properties.                                                             *)

TypeOK ==
  /\ pc \in {"call", "read", "decode", "done"}
  /\ wire \in Header
  /\ frame_capacity \in Nat /\ rsp_capacity \in Nat
  /\ offset \in Nat /\ target_len \in U16 /\ frame_len \in U16 /\ copied \in U16
  /\ result \in Results \cup {"NONE"}
  /\ stage \in {"none", "short", "magic", "version", "header_len", "total_len",
                "too_long", "crc", "caller"}

\* However the bytes are cut, read_frame() never receives past its buffer, and
\* never has to give up because it is full: device.c:204 does not happen.
BufferInBounds ==
  /\ offset <= frame_capacity
  /\ pc = "read" => offset < frame_capacity

\* A payload handed to the caller was received: the copy of uart.c:104,
\* uart.c:412, ble.c:89 and ble.c:229 stays within the bytes of this frame, and
\* within both buffers, although the lengths are compared in 16 bits.
CopyInBounds ==
  result = "OK" =>
    /\ HEADER_LEN + copied <= offset
    /\ HEADER_LEN + copied <= frame_capacity
    /\ copied <= rsp_capacity

\* A payload length that makes the sum of proto.c:90 wrap gets as far as the
\* end of read_frame() and no further: the second decode refuses it.
WrapIsRefused ==
  wire.payload_len > MAX_PAYLOAD =>
    /\ result # "OK"
    /\ pc = "decode" => frame_len < HEADER_LEN

\* A frame that build_frame() made is never refused as malformed, however its
\* bytes are cut into transfers: what refuses it is the caller's match.
BuiltIsUnderstood == wire \in Built /\ result = "ERR_PROTO" => stage = "caller"

\* The call ends.
Returns == <>(pc = "done")

\* tests/test_proto.c:53 and docs/USERSPACE_DRIVER.md:54: flipping the lowest
\* bit of the first byte of a good frame is an error of the header checksum,
\* and that is what refuses the frame.
TestFrame(h) == [h EXCEPT !.magic = MAGIC + 1]
BadCrcIsFoundByCrc ==
  result = "ERR_PROTO" /\ (\E h \in Built : wire = TestFrame(h)) => stage = "crc"
=============================================================================
