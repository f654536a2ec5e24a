------------------------------ MODULE MuxWire ------------------------------
(***************************************************************************)
(* The bytes that travel: the layout of the frame header, of a hint and of *)
(* a scan report, the checksum, and a wire that turns some bits of a       *)
(* header or brings fewer bytes than were sent.  MuxCodec takes the        *)
(* checksum as any function of the header; here it is the one of the code. *)
(*                                                                         *)
(* A number is the set of its bits that are 1, so exclusive or is the      *)
(* symmetric difference.  What is on the wire is such a set too: bit i of  *)
(* byte n is 8 * n + i, the order in which USB sends them.                 *)
(***************************************************************************)
EXTENDS MuxApi, Integers, FiniteSets, FiniteSetsExt

CONSTANTS
  Headers,   \* headers that are sent, before they are encoded
  MaxFlips,  \* bound: bits turned anywhere in a header
  MaxBurst   \* bound: bits in a row of which any may be turned

VARIABLES
  message,  \* what is sent: a header, a hint or a scan report
  wire,     \* its bits on the wire
  flips,    \* the bits turned so far
  got       \* bytes of it received; behind them the buffer holds anything

vars == <<message, wire, flips, got>>

-----------------------------------------------------------------------------
(* Numbers and layouts.                                                    *)

BitsOf(n) == {i \in 0 .. 15 : (n \div 2^i) % 2 = 1}
NumberOf(bits) == SumSet({2^i : i \in bits})

\* The first byte of each field of a header and its length in bytes.
HeaderLayout ==
  [magic |-> <<0, 2>>, version |-> <<2, 1>>, header_len |-> <<3, 1>>,
   total_len |-> <<4, 2>>, seq |-> <<6, 2>>, ref_seq |-> <<8, 2>>,
   ch_type |-> <<10, 1>>, ch_id |-> <<11, 1>>, msg_type |-> <<12, 1>>,
   opcode |-> <<13, 1>>, flags |-> <<14, 2>>, status |-> <<16, 2>>,
   payload_len |-> <<18, 2>>, header_crc16 |-> <<20, 2>>, reserved |-> <<22, 2>>]

\* ch32mux_parse_irq_hint() and ch32mux_ble_parse_scan_result().
HintLayout ==
  [version |-> <<0, 1>>, urgent_flags |-> <<1, 1>>, pending_bitmap |-> <<2, 2>>,
   dropped_bitmap |-> <<4, 2>>, reserved |-> <<6, 2>>]

ScanLayout ==
  [addr_type |-> <<0, 1>>, event_type |-> <<1, 1>>, rssi |-> <<2, 1>>,
   adv_len |-> <<3, 1>>, addr |-> <<4, 6>>, adv_prefix |-> <<10, 6>>]

BytesRead(layout) ==
  UNION {layout[f][1] .. layout[f][1] + layout[f][2] - 1 : f \in DOMAIN layout}

\* write_le16() and read_le16(): the low byte first.
Spread(n, offset) == {8 * offset + i : i \in BitsOf(n)}
Gather(w, offset, size) == NumberOf({i \in 0 .. 8 * size - 1 : 8 * offset + i \in w})

serialize_header(h) ==
  UNION {Spread(h[f], HeaderLayout[f][1]) : f \in DOMAIN HeaderLayout}

deserialize_header(w) ==
  [f \in DOMAIN HeaderLayout |-> Gather(w, HeaderLayout[f][1], HeaderLayout[f][2])]

-----------------------------------------------------------------------------
(* ch32mux_crc16().                                                        *)

POLYNOMIAL == {0, 5, 12}  \* 0x1021

ShiftsThenTests(crc) ==                                            \* mutant
  LET shifted == {i + 1 : i \in crc \ {15}}
  IN IF 15 \in shifted THEN SymDiff(shifted, POLYNOMIAL) ELSE shifted
\* One turn of the inner loop.
ShiftOut(crc) ==
  LET shifted == {i + 1 : i \in crc \ {15}}
  IN IF 15 \in crc THEN SymDiff(shifted, POLYNOMIAL) ELSE shifted

\* The inner loop: eight turns.  (A set of one element makes TLC compute the
\* register before it goes on.)
EightTurns(start) ==
  LET crc[bit \in 0 .. 8] ==
        IF bit = 0 THEN start ELSE UNION {ShiftOut(c) : c \in {crc[bit - 1]}}
  IN crc[8]

\* All ones at first; each byte is added to the high bits.
crc16(w, len) ==
  LET Byte(n) == {i + 8 : i \in {j \in 0 .. 7 : 8 * n + j \in w}}
      crc[n \in 0 .. len] ==
        IF n = 0 THEN 0 .. 15
        ELSE UNION {EightTurns(SymDiff(c, Byte(n - 1))) : c \in {crc[n - 1]}}
  IN crc[len]

-----------------------------------------------------------------------------
(* Encoding and decoding.  The checks and their order are MuxCodec's.      *)

\* The fields MuxCodec only carries along, and its view of a header.
Carried == {"seq", "ref_seq", "ch_type", "ch_id", "msg_type", "opcode", "flags",
            "status", "reserved"}

Abstract(h) ==
  [magic |-> h.magic, version |-> h.version, header_len |-> h.header_len,
   total_len |-> h.total_len, payload_len |-> h.payload_len,
   rest |-> [f \in Carried |-> h[f]], header_crc16 |-> h.header_crc16]

Concrete(a) == [f \in DOMAIN HeaderLayout |-> IF f \in Carried THEN a.rest[f] ELSE a[f]]

Codec == INSTANCE MuxCodec WITH
  Rest <- {[f \in Carried |-> h[f]] : h \in Headers},
  Crc  <- LAMBDA a : NumberOf(crc16(serialize_header(Concrete(a)), HEADER_LEN))

EncodeShortSum(h) ==                                               \* mutant
  LET plain == [h EXCEPT !.magic = Codec!MAGIC, !.version = Codec!VERSION,
                         !.header_len = HEADER_LEN,
                         !.total_len = Codec!Uint16(HEADER_LEN + h.payload_len),
                         !.header_crc16 = 0]
  IN serialize_header([plain EXCEPT !.header_crc16 =
                         NumberOf(crc16(serialize_header(plain), HEADER_LEN - 4))])
\* ch32mux_encode_header(): the bytes.
encode_header(h) ==
  LET plain == [h EXCEPT !.magic = Codec!MAGIC, !.version = Codec!VERSION,
                         !.header_len = HEADER_LEN,
                         !.total_len = Codec!Uint16(HEADER_LEN + h.payload_len),
                         !.header_crc16 = 0]
  IN serialize_header([plain EXCEPT !.header_crc16 =
                         NumberOf(crc16(serialize_header(plain), HEADER_LEN))])

\* The headers are ch32mux_header_t of frames that ch32mux_build_frame() builds.
ASSUME HeadersAssumption ==
  \A h \in Headers :
    /\ h = [f \in DOMAIN HeaderLayout |-> h[f]]
    /\ \A f \in DOMAIN HeaderLayout : h[f] \in 0 .. 256^HeaderLayout[f][2] - 1
    /\ h.payload_len <= MAX_PAYLOAD

\* So few bits that the checksum finds them wherever they are, and so many in a
\* row that they lie within two bytes wherever they start.
ASSUME DamageAssumption == MaxFlips \in 0 .. 3 /\ MaxBurst \in 0 .. 9

CrcBits == 8 * HeaderLayout.header_crc16[1] .. 8 * HeaderLayout.header_crc16[1] + 15

LowCrcByteAgrees(w, h) ==                                          \* mutant
  NumberOf(crc16(w \ CrcBits, HEADER_LEN)) % 256 = h.header_crc16 % 256
ChecksumOfAll(w, h) ==                                             \* mutant
  NumberOf(crc16(w, HEADER_LEN)) = h.header_crc16
\* The checksum of the bytes as they came, the field itself read as 0.
ChecksumAgrees(w, h) == NumberOf(crc16(w \ CrcBits, HEADER_LEN)) = h.header_crc16

\* ch32mux_decode_header() of the first src_len bytes.
decode_header(w, src_len) ==
  LET h == deserialize_header(w)
  IN IF src_len < HEADER_LEN THEN "ERR_PROTO"
     ELSE IF h.magic # Codec!MAGIC \/ h.version # Codec!VERSION
             \/ h.header_len # HEADER_LEN \/ ~ Codec!LengthsAgree(h) THEN "ERR_PROTO"
     ELSE IF h.total_len > MAX_FRAME_LEN THEN "ERR_OVERFLOW"
     ELSE IF ~ ChecksumAgrees(w, h) THEN "ERR_PROTO"
     ELSE "OK"

-----------------------------------------------------------------------------
(* Hints and scan reports.                                                 *)

IRQ_HINT_VERSION == 1
EP_HINT_SIZE     == 8

ReadHintTrusting(w, transferred) ==                                \* mutant
  IF Gather(w, 0, 1) # IRQ_HINT_VERSION THEN "ERR_PROTO" ELSE "OK"
\* ch32mux_read_hint(): the parser is given the size of the buffer, not what
\* was received.
read_hint(w, transferred) ==
  IF transferred # EP_HINT_SIZE THEN "ERR_PROTO"
  ELSE IF Gather(w, 0, 1) # IRQ_HINT_VERSION THEN "ERR_PROTO"
  ELSE "OK"

ble_parse_scan_result(payload_len) == IF payload_len < 16 THEN "ERR_PROTO" ELSE "OK"

-----------------------------------------------------------------------------
(* The wire.                                                               *)

Hint   == [kind |-> "hint"]
Report == [kind |-> "report"]
Sent(h) == [kind |-> "header", header |-> h]

\* A sender has put a message on the wire; of a hint the version matters.
Init ==
  /\ flips = {}
  /\ \/ \E h \in Headers :
          message = Sent(h) /\ wire = encode_header(h) /\ got = HEADER_LEN
     \/ /\ message = Hint
        /\ wire \in {Spread(n, 0) : n \in {0, 1, 2}}
        /\ got = EP_HINT_SIZE
     \/ message = Report /\ wire = {} /\ got = 16

\* A bit of a header is turned, the lowest first.
Turn(b) ==
  /\ message.kind = "header" /\ got = HEADER_LEN
  /\ \A a \in flips : a < b
  /\ \/ Cardinality(flips) < MaxFlips
     \/ \A a \in flips : b - a < MaxBurst
  /\ flips' = flips \cup {b}
  /\ wire' = SymDiff(wire, {b})
  /\ UNCHANGED <<message, got>>

\* Fewer bytes arrive.
Shorten ==
  /\ flips = {} /\ got > 0
  /\ got' = got - 1
  /\ UNCHANGED <<message, wire, flips>>

Next == (\E b \in 0 .. 8 * HEADER_LEN - 1 : Turn(b)) \/ Shorten

Spec == Init /\ [][Next]_vars

-----------------------------------------------------------------------------
(* Properties.                                                             *)

\* A header with a few bits turned anywhere, or any within a short distance, is
\* never accepted, wherever they are: in a field, in the checksum itself, or in
\* both (proto.c:185).
DamageIsRefused ==
  message.kind = "header" /\ flips # {} => decode_header(wire, got) # "OK"

\* A header that arrives whole is accepted and is the one that was sent,
\* field by field (proto.c:34 and proto.c:53).
WholeIsUnderstood ==
  message.kind = "header" /\ flips = {} /\ got = HEADER_LEN =>
    /\ decode_header(wire, got) = "OK"
    /\ \A f \in Carried \cup {"payload_len"} :
         deserialize_header(wire)[f] = message.header[f]

\* CRC16-CCITT by its definition: the remainder of the polynomial whose
\* coefficients are the bits, high bits of a byte first, the first sixteen
\* inverted, times x^16, on division by x^16 + x^12 + x^5 + 1.
DivideOut(r, d) ==
  IF d \in r THEN SymDiff(r, {d - 16 + k : k \in {0, 5, 12, 16}}) ELSE r

\* The degrees top to top - 7, one after the other.
DivideByte(start, top) ==
  LET rest[n \in 0 .. 8] ==
        IF n = 0 THEN start ELSE UNION {DivideOut(r, top + 1 - n) : r \in {rest[n - 1]}}
  IN rest[8]

Remainder(w, bytes) ==
  LET top      == 8 * bytes + 15
      dividend == SymDiff({top - (8 * (p \div 8) + 7 - (p % 8)) : p \in w}, top - 15 .. top)
      rest[n \in 0 .. bytes] ==
        IF n = 0 THEN dividend
        ELSE UNION {DivideByte(r, top - 8 * (n - 1)) : r \in {rest[n - 1]}}
  IN rest[bytes]

\* The loop of proto.c:110 computes it, for every message (README.md:42).
CrcIsCcitt == message.kind = "header" => crc16(wire, HEADER_LEN) = Remainder(wire, HEADER_LEN)

\* Working on a copy of the bytes decides as working on the fields does, so
\* what is shown of MuxCodec for any checksum holds of the code's.
CodecAgrees ==
  message.kind = "header" =>
    /\ decode_header(wire, got) = Codec!decode_header(Abstract(deserialize_header(wire)), got)
    /\ flips = {} => Abstract(deserialize_header(wire)) =
                       Codec!encode_header([f \in Carried |-> message.header[f]],
                                           message.header.payload_len)

\* Nothing that is handed out was read from behind the bytes received: the
\* buffers are not initialised (device.c:251, ble-scan's payload).
OnlyReceivedBytes ==
  LET received == 0 .. got - 1
  IN /\ message.kind = "header" /\ decode_header(wire, got) = "OK" =>
          BytesRead(HeaderLayout) \subseteq received
     /\ message.kind = "hint" /\ read_hint(wire, got) = "OK" =>
          BytesRead(HintLayout) \subseteq received
     /\ message.kind = "report" /\ ble_parse_scan_result(got) = "OK" =>
          BytesRead(ScanLayout) \subseteq received
=============================================================================
