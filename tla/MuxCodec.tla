------------------------------ MODULE MuxCodec ------------------------------
(***************************************************************************)
(* The frame header of proto.c: how it is encoded, and how a received one  *)
(* is checked.  The length arithmetic is that of the code, in 16 bits.     *)
(* Fields that the codec only carries (numbers, channel, opcode, flags,    *)
(* status) are one value, rest; the checksum is a parameter.               *)
(***************************************************************************)
EXTENDS MuxApi, Integers

CONSTANTS
  Rest,   \* what the fields that are only carried may hold
  Crc(_)  \* ch32mux_crc16() of the 24 bytes of a header: any function of them

MAGIC   == 165 * 256 + 90  \* 0xA55A
VERSION == 1

RANGE16 == 256 * 256
U8  == 0 .. 255
U16 == 0 .. RANGE16 - 1
Uint16(n) == n % RANGE16

\* ch32mux_header_t.
Header ==
  [magic : U16, version : U8, header_len : U8, total_len : U16,
   payload_len : U16, rest : Rest, header_crc16 : U16]

\* The checksum of the bytes of a header whose checksum field reads 0.
ChecksumOf(h) == Crc([h EXCEPT !.header_crc16 = 0])

-----------------------------------------------------------------------------
(* Encoding.                                                               *)

\* ch32mux_encode_header() on a header with these carried fields and length.
Unsealed(rest, payload_len) ==
  [magic |-> MAGIC, version |-> VERSION, header_len |-> HEADER_LEN,
   total_len |-> Uint16(HEADER_LEN + payload_len), payload_len |-> payload_len,
   rest |-> rest, header_crc16 |-> 0]

encode_header(rest, payload_len) ==
  [Unsealed(rest, payload_len) EXCEPT
     !.header_crc16 = ChecksumOf(Unsealed(rest, payload_len))]

\* ch32mux_build_frame(): what it returns for a destination of dst_len bytes.
build_result(payload_len, dst_len) ==
  IF payload_len > MAX_PAYLOAD \/ dst_len < HEADER_LEN + payload_len
  THEN "ERR_OVERFLOW" ELSE "OK"

\* The headers of all the frames it can build.
Built ==
  {encode_header(rest, n) : rest \in Rest,
                            n \in {m \in U16 : build_result(m, MAX_FRAME_LEN) = "OK"}}

-----------------------------------------------------------------------------
(* Decoding.                                                               *)

\* check_header_shape(): the sum is cut to 16 bits before it is compared.
LengthsAgree(h) == h.total_len = Uint16(h.header_len + h.payload_len)

\* Which check of ch32mux_decode_header() refuses the header, if any does.
decode_stage(h, src_len) ==
  IF src_len < HEADER_LEN THEN "short"
  ELSE IF h.magic # MAGIC THEN "magic"
  ELSE IF h.version # VERSION THEN "version"
  ELSE IF h.header_len # HEADER_LEN THEN "header_len"
  ELSE IF ~ LengthsAgree(h) THEN "total_len"
  ELSE IF h.total_len > MAX_FRAME_LEN THEN "too_long"
  ELSE IF ChecksumOf(h) # h.header_crc16 THEN "crc"
  ELSE "accepted"

\* What it returns then.
ResultOf(stage) ==
  CASE stage = "accepted" -> "OK"
    [] stage = "too_long" -> "ERR_OVERFLOW"
    [] OTHER -> "ERR_PROTO"

decode_header(h, src_len) == ResultOf(decode_stage(h, src_len))
=============================================================================
