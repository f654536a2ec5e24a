-------------------------- MODULE MuxReceiveProofs --------------------------
(***************************************************************************)
(* read_frame() and its callers stay within their buffers, for every size  *)
(* of the buffers, every header, every checksum and every way the bytes    *)
(* are cut.                                                                *)
(***************************************************************************)
EXTENDS MuxReceive, TLAPS

USE DEF HEADER_LEN, MAX_FRAME_LEN, EP_PACKET_SIZE, MAX_PAYLOAD

\* The checks of decode_header() that matter here.
Acceptable(h) ==
  /\ h.header_len = HEADER_LEN
  /\ h.total_len = Uint16(HEADER_LEN + h.payload_len)
  /\ h.total_len <= MAX_FRAME_LEN

\* What holds at the head of the loop of read_frame() and after it.
LoopInv ==
  /\ offset <= frame_capacity
  /\ pc = "call" => offset = 0 /\ target_len = HEADER_LEN /\ frame_len = 0
  /\ pc = "read" =>
       /\ offset < target_len /\ target_len <= frame_capacity
       /\ HEADER_LEN <= frame_capacity
       /\ target_len # HEADER_LEN =>
            HEADER_LEN <= offset /\ Acceptable(wire) /\ target_len = wire.total_len
  /\ pc = "decode" =>
       /\ HEADER_LEN <= offset /\ frame_len <= offset
       /\ Acceptable(wire) /\ frame_len = wire.total_len
  /\ result = "OK" =>
       /\ pc = "done"
       /\ wire.payload_len <= MAX_PAYLOAD
       /\ copied = wire.payload_len /\ copied <= rsp_capacity
       /\ HEADER_LEN + copied <= offset

IInv == TypeOK /\ LoopInv

-----------------------------------------------------------------------------

LEMMA RangeIsLarge == RANGE16 \in Nat /\ RANGE16 > 1000
  BY DEF RANGE16

LEMMA TotalIsInt == \A h \in Header : h.total_len \in U16 /\ h.total_len \in Nat
  BY RangeIsLarge DEF Header, U16

\* What decode_header() accepts.
LEMMA Accepted ==
  ASSUME NEW h \in Header, NEW n, decode_header(h, n) = "OK"
  PROVE  Acceptable(h) /\ ~ (n < HEADER_LEN)
  <1>1. decode_stage(h, n) = "accepted"
    BY DEF decode_header, ResultOf
  <1> QED
    <2>1. h.header_len = HEADER_LEN /\ LengthsAgree(h)
      BY <1>1 DEF decode_stage
    <2>2. ~ (h.total_len > MAX_FRAME_LEN) /\ ~ (n < HEADER_LEN)
      BY <1>1 DEF decode_stage
    <2> QED
      BY <2>1, <2>2, TotalIsInt DEF LengthsAgree, Acceptable

LEMMA DecodeTypes ==
  ASSUME NEW h, NEW n
  PROVE  /\ decode_header(h, n) \in Results
         /\ decode_header(h, n) # "OK" =>
              decode_stage(h, n) \in {"short", "magic", "version", "header_len",
                                      "total_len", "too_long", "crc"}
  <1>1. decode_stage(h, n) \in {"short", "magic", "version", "header_len",
                                "total_len", "too_long", "crc", "accepted"}
    BY DEF decode_stage
  <1> QED
    BY <1>1 DEF decode_header, ResultOf, Results

\* Cutting to 16 bits a sum that wraps at most once.
LEMMA CutOnce ==
  ASSUME NEW m \in Nat, m > 0, NEW k \in 0 .. m + m - 1
  PROVE  k % m = IF k < m THEN k ELSE k - m
  <1>1. CASE k < m
    BY <1>1
  <1>2. CASE k >= m
    BY <1>2
  <1> QED
    BY <1>1, <1>2

\* The arithmetic of proto.c:90.  A sum that was cut is less than a header.
LEMMA CutOrExact ==
  ASSUME NEW h \in Header, Acceptable(h)
  PROVE  \/ h.payload_len <= MAX_PAYLOAD /\ h.total_len = HEADER_LEN + h.payload_len
         \/ h.payload_len > MAX_PAYLOAD /\ h.total_len < HEADER_LEN
  <1> DEFINE k == HEADER_LEN + h.payload_len
  <1>1. h.payload_len \in 0 .. RANGE16 - 1
    BY DEF Header, U16
  <1>2. k \in 0 .. RANGE16 + RANGE16 - 1
    BY <1>1, RangeIsLarge
  <1>3. h.total_len = IF k < RANGE16 THEN k ELSE k - RANGE16
    <2> HIDE DEF k
    <2>1. k % RANGE16 = IF k < RANGE16 THEN k ELSE k - RANGE16
      BY <1>2, RangeIsLarge, CutOnce
    <2>2. h.total_len = k % RANGE16
      BY DEF Acceptable, Uint16, k
    <2> QED
      BY <2>1, <2>2
  <1>4. h.total_len <= MAX_FRAME_LEN
    BY DEF Acceptable
  <1> QED
    BY <1>1, <1>3, <1>4, RangeIsLarge

LEMMA InitOK == Init => IInv
  <1> SUFFICES ASSUME Init PROVE IInv
    OBVIOUS
  <1>1. wire \in Header /\ frame_capacity \in Nat /\ rsp_capacity \in Nat
    BY ReceiveAssumption DEF Init
  <1> QED
    BY <1>1, RangeIsLarge DEF Init, IInv, TypeOK, LoopInv, U16

LEMMA EnterOK ==
  ASSUME IInv, Enter
  PROVE  IInv'
  BY DEF Enter, Done, input, IInv, TypeOK, LoopInv, Results

LEMMA TransferFailsOK ==
  ASSUME IInv, TransferFails
  PROVE  IInv'
  <1>1. PICK e \in {"ERR_OVERFLOW", "ERR_TIMEOUT", "ERR_IO", "ERR_NOT_FOUND"} : Done(e)
    BY DEF TransferFails
  <1> QED
    BY <1>1 DEF TransferFails, Done, input, IInv, TypeOK, LoopInv, Results

\* One more transfer, with a length that is known to be right.
LEMMA ContinueOK ==
  ASSUME IInv, pc = "read", NEW n \in 1 .. Room, offset' = offset + n,
         NEW t \in U16, Continue(t), UNCHANGED <<input, copied>>,
         t <= frame_capacity,
         t # HEADER_LEN \/ offset' >= HEADER_LEN => Acceptable(wire) /\ t = wire.total_len,
         t # HEADER_LEN => offset' >= HEADER_LEN
  PROVE  IInv'
  <1>1. /\ offset \in Nat /\ frame_capacity \in Nat /\ n \in Nat
        /\ offset + n <= frame_capacity
    BY DEF Room, IInv, TypeOK, LoopInv
  <1>2. TypeOK'
    BY <1>1 DEF Continue, input, IInv, TypeOK
  <1>3. result' # "OK"
    BY DEF Continue, IInv, LoopInv
  <1>4. UNCHANGED <<wire, frame_capacity, rsp_capacity>> /\ target_len' = t
    BY DEF Continue, input
  <1>5. t \in Nat /\ HEADER_LEN <= frame_capacity
    BY RangeIsLarge DEF U16, IInv, LoopInv
  <1>6. CASE offset' < t
    <2>1. pc' = "read" /\ result' = result
      BY <1>6 DEF Continue
    <2>2. t # HEADER_LEN =>
            HEADER_LEN <= offset' /\ Acceptable(wire) /\ t = wire.total_len
      BY <1>1
    <2> QED
      BY <1>1, <1>2, <1>3, <1>4, <1>5, <1>6, <2>1, <2>2 DEF IInv, LoopInv, Acceptable
  <1>7. CASE ~ (offset' < t)
    <2>1. pc' = "decode" /\ result' = result /\ frame_len' = t
      BY <1>7 DEF Continue
    <2>2. t <= offset' /\ HEADER_LEN <= offset' /\ Acceptable(wire) /\ t = wire.total_len
      BY <1>1, <1>5, <1>7
    <2> QED
      BY <1>1, <1>2, <1>3, <1>4, <1>5, <2>1, <2>2 DEF IInv, LoopInv, Acceptable
  <1> QED
    BY <1>6, <1>7

LEMMA TransferOK ==
  ASSUME IInv, NEW n \in 1 .. EP_PACKET_SIZE, Transfer(n)
  PROVE  IInv'
  <1>1. /\ pc = "read" /\ n \in 1 .. Room /\ offset' = offset + n
        /\ UNCHANGED <<input, copied>>
    BY DEF Transfer, Got
  <1>2. /\ offset \in Nat /\ frame_capacity \in Nat /\ offset + n <= frame_capacity
        /\ wire \in Header /\ wire.total_len \in U16 /\ target_len \in U16
        /\ target_len <= frame_capacity /\ offset < target_len
    BY <1>1 DEF Room, IInv, TypeOK, LoopInv, Header
  <1>3. CASE HeaderComplete(n)
    <2>1. target_len = HEADER_LEN /\ offset + n >= HEADER_LEN
      BY <1>3 DEF HeaderComplete, Got
    <2>2. CASE decode_header(wire, offset + n) # "OK"
      <3>1. Refuse(decode_header(wire, offset + n), decode_stage(wire, offset + n))
        BY <1>3, <2>2 DEF Transfer, Got
      <3> QED
        BY <1>1, <1>2, <2>2, <3>1, DecodeTypes
        DEF Refuse, Done, input, IInv, TypeOK, LoopInv
    <2>3. CASE decode_header(wire, offset + n) = "OK" /\ wire.total_len > frame_capacity
      <3>1. Refuse("ERR_OVERFLOW", "too_long")
        BY <1>3, <2>3 DEF Transfer, Got
      <3> QED
        BY <1>1, <1>2, <3>1 DEF Refuse, Done, input, IInv, TypeOK, LoopInv, Results
    <2>4. CASE decode_header(wire, offset + n) = "OK" /\ ~ (wire.total_len > frame_capacity)
      <3>1. Continue(wire.total_len)
        BY <1>3, <2>4 DEF Transfer, Got
      <3>2. Acceptable(wire)
        BY <1>2, <2>4, Accepted
      <3>3. wire.total_len <= frame_capacity
        BY <1>2, <2>4, TotalIsInt
      <3> QED
        BY <1>1, <1>2, <2>1, <3>1, <3>2, <3>3, ContinueOK
    <2> QED
      BY <2>2, <2>3, <2>4
  <1>4. CASE ~ HeaderComplete(n)
    <2>1. target_len # HEADER_LEN \/ ~ (offset + n >= HEADER_LEN)
      BY <1>4 DEF HeaderComplete, Got
    <2>2. Continue(target_len)
      BY <1>4 DEF Transfer
    <2>3. target_len # HEADER_LEN \/ offset' >= HEADER_LEN =>
            Acceptable(wire) /\ target_len = wire.total_len
      BY <1>1, <2>1 DEF IInv, LoopInv
    <2>4. target_len # HEADER_LEN => offset' >= HEADER_LEN
      BY <1>1, <1>2, <2>1 DEF IInv, LoopInv
    <2> QED
      BY <1>1, <1>2, <2>2, <2>3, <2>4, ContinueOK
  <1> QED
    BY <1>3, <1>4

\* The second decode_header() is the one that catches a sum that was cut: the
\* frame length it is given is then less than a header.
LEMMA CallerDecodesOK ==
  ASSUME IInv, CallerDecodes
  PROVE  IInv'
  <1>1. /\ pc = "decode" /\ pc' = "done"
        /\ UNCHANGED <<wire, frame_capacity, rsp_capacity, offset, target_len, frame_len>>
    BY DEF CallerDecodes, Done, input
  <1>2. /\ wire \in Header /\ Acceptable(wire) /\ frame_len = wire.total_len
        /\ frame_len <= offset /\ rsp_capacity \in Nat /\ offset \in Nat
        /\ wire.payload_len \in U16 /\ wire.payload_len \in Nat
    BY <1>1, RangeIsLarge DEF IInv, TypeOK, LoopInv, Header, U16
  <1>3. CASE decode_header(wire, frame_len) # "OK"
    <2>1. /\ result' = decode_header(wire, frame_len)
          /\ stage' = decode_stage(wire, frame_len) /\ copied' = copied
      BY <1>3 DEF CallerDecodes, Done
    <2> QED
      BY <1>1, <1>3, <2>1, DecodeTypes DEF IInv, TypeOK, LoopInv
  <1>4. CASE /\ result' \in {"ERR_PROTO", "ERR_DEVICE_STATUS", "ERR_OVERFLOW", "ERR_ARG"}
             /\ stage' \in {stage, "caller"}
             /\ UNCHANGED copied
    BY <1>1, <1>4 DEF IInv, TypeOK, LoopInv, Results
  <1>5. CASE /\ decode_header(wire, frame_len) = "OK" /\ wire.payload_len <= rsp_capacity
             /\ result' = "OK" /\ copied' = wire.payload_len /\ stage' = stage
    <2>1. result' = "OK" /\ copied' = wire.payload_len /\ stage' = stage
      BY <1>5
    <2>2. ~ (wire.total_len < HEADER_LEN)
      BY <1>2, <1>5, Accepted
    <2>3. wire.payload_len <= MAX_PAYLOAD /\ wire.total_len = HEADER_LEN + wire.payload_len
      BY <1>2, <2>2, CutOrExact
    <2>4. HEADER_LEN + copied' <= offset /\ copied' <= rsp_capacity
      BY <1>2, <1>5, <2>1, <2>3
    <2>5. TypeOK'
      BY <1>1, <1>2, <2>1 DEF IInv, TypeOK, Results
    <2> QED
      BY <1>1, <2>1, <2>3, <2>4, <2>5 DEF IInv, LoopInv
  <1>6. decode_header(wire, frame_len) = "OK" =>
          \/ /\ result' \in {"ERR_PROTO", "ERR_DEVICE_STATUS", "ERR_OVERFLOW", "ERR_ARG"}
             /\ stage' \in {stage, "caller"}
             /\ UNCHANGED copied
          \/ /\ wire.payload_len <= rsp_capacity
             /\ result' = "OK" /\ copied' = wire.payload_len /\ stage' = stage
    BY DEF CallerDecodes, Done
  <1> QED
    BY <1>3, <1>4, <1>5, <1>6

\* The invariant the theorems about lengths and buffers rest on.
THEOREM InductiveInvariant == Spec => []IInv
  <1>1. Init => IInv
    BY InitOK
  <1>2. IInv /\ [Next]_vars => IInv'
    <2>1. IInv /\ UNCHANGED vars => IInv'
      BY DEF vars, IInv, TypeOK, LoopInv, Acceptable
    <2> QED
      BY <2>1, EnterOK, TransferOK, TransferFailsOK, CallerDecodesOK DEF Next, ReadFrame
  <1> QED
    BY <1>1, <1>2, PTL DEF Spec

\* Every variable keeps its type: target_len and frame_len fit a uint16_t, and
\* copied is one.
THEOREM TypeCorrect == Spec => []TypeOK
  <1>1. IInv => TypeOK
    BY DEF IInv
  <1> QED
    BY <1>1, InductiveInvariant, PTL

\* read_frame() stays within a buffer of any size, and the full-buffer check of
\* device.c:204 is never the one that ends it.
THEOREM ReceivesInBounds == Spec => []BufferInBounds
  <1>1. IInv => BufferInBounds
    BY RangeIsLarge DEF IInv, TypeOK, LoopInv, BufferInBounds, U16
  <1> QED
    BY <1>1, InductiveInvariant, PTL

\* The payload handed over lies within the bytes received and both buffers.
THEOREM CopiesInBounds == Spec => []CopyInBounds
  <1>1. IInv => CopyInBounds
    <2> SUFFICES ASSUME IInv, result = "OK"
                 PROVE  /\ HEADER_LEN + copied <= offset
                        /\ HEADER_LEN + copied <= frame_capacity
                        /\ copied <= rsp_capacity
      BY DEF CopyInBounds
    <2>1. copied \in Nat /\ offset \in Nat /\ frame_capacity \in Nat
      BY RangeIsLarge DEF IInv, TypeOK, U16
    <2> QED
      BY <2>1 DEF IInv, LoopInv
  <1> QED
    BY <1>1, InductiveInvariant, PTL

\* A frame whose length sum wraps in 16 bits is never accepted.
THEOREM WrapsAreRefused == Spec => []WrapIsRefused
  <1>1. IInv => WrapIsRefused
    <2> SUFFICES ASSUME IInv, wire.payload_len > MAX_PAYLOAD
                 PROVE  result # "OK" /\ (pc = "decode" => frame_len < HEADER_LEN)
      BY DEF WrapIsRefused
    <2>1. wire \in Header /\ wire.payload_len \in Nat
      BY RangeIsLarge DEF IInv, TypeOK, Header, U16
    <2>2. result # "OK"
      BY <2>1 DEF IInv, LoopInv
    <2>3. ASSUME pc = "decode" PROVE frame_len < HEADER_LEN
      BY <2>1, <2>3, CutOrExact DEF IInv, LoopInv
    <2> QED
      BY <2>2, <2>3
  <1> QED
    BY <1>1, InductiveInvariant, PTL

-----------------------------------------------------------------------------
(* A frame that was built is understood.                                   *)

\* Encoding and decoding agree, whatever the checksum: the second computation
\* sees the bytes that the first one saw.
LEMMA RoundTrip ==
  ASSUME NEW h \in Built, NEW n \in Nat, n >= HEADER_LEN
  PROVE  decode_header(h, n) = "OK" /\ h.total_len \in Nat /\ h.total_len >= HEADER_LEN
  <1>1. PICK rest \in Rest, m \in U16 :
          h = encode_header(rest, m) /\ m <= MAX_PAYLOAD
    <2>1. PICK rest \in Rest, m \in U16 :
            h = encode_header(rest, m) /\ build_result(m, MAX_FRAME_LEN) = "OK"
      BY DEF Built
    <2>2. m \in Nat
      BY RangeIsLarge DEF U16
    <2>3. m <= MAX_PAYLOAD
      BY <2>1, <2>2 DEF build_result
    <2> QED
      BY <2>1, <2>3
  <1>2. /\ h.magic = MAGIC /\ h.version = VERSION /\ h.header_len = HEADER_LEN
        /\ h.total_len = Uint16(HEADER_LEN + m) /\ h.payload_len = m
        /\ h.header_crc16 = ChecksumOf(Unsealed(rest, m))
        /\ [h EXCEPT !.header_crc16 = 0] = Unsealed(rest, m)
    <2> DEFINE c == ChecksumOf(Unsealed(rest, m))
    <2>1. h = [Unsealed(rest, m) EXCEPT !.header_crc16 = c]
      BY <1>1 DEF encode_header
    <2> HIDE DEF c
    <2>2. h = [magic |-> MAGIC, version |-> VERSION, header_len |-> HEADER_LEN,
               total_len |-> Uint16(HEADER_LEN + m), payload_len |-> m,
               rest |-> rest, header_crc16 |-> c]
      BY <2>1 DEF Unsealed
    <2>3. [h EXCEPT !.header_crc16 = 0] = Unsealed(rest, m)
      BY <2>2 DEF Unsealed
    <2> QED
      BY <2>2, <2>3 DEF c
  <1>3. ChecksumOf(h) = h.header_crc16
    <2>1. [Unsealed(rest, m) EXCEPT !.header_crc16 = 0] = Unsealed(rest, m)
      BY DEF Unsealed
    <2> QED
      BY <1>2, <2>1 DEF ChecksumOf
  <1>4. h.total_len = HEADER_LEN + m
    <2>1. m \in Nat /\ HEADER_LEN + m \in 0 .. RANGE16 + RANGE16 - 1
      BY <1>1, RangeIsLarge DEF U16
    <2>2. (HEADER_LEN + m) % RANGE16 = HEADER_LEN + m
      BY <1>1, <2>1, RangeIsLarge, CutOnce
    <2> QED
      BY <1>2, <2>2 DEF Uint16
  <1>5. m \in Nat
    BY RangeIsLarge DEF U16
  <1>6. LengthsAgree(h)
    BY <1>2 DEF LengthsAgree
  <1>7. decode_stage(h, n) = "accepted"
    BY <1>1, <1>2, <1>3, <1>4, <1>5, <1>6 DEF decode_stage
  <1> QED
    BY <1>4, <1>5, <1>7 DEF decode_header, ResultOf

LEMMA UnderstoodStep ==
  ASSUME IInv, BuiltIsUnderstood, [Next]_vars
  PROVE  BuiltIsUnderstood'
  <1> DEFINE Understood == result = "ERR_PROTO" => stage = "caller"
  <1> SUFFICES ASSUME wire' \in Built PROVE Understood'
    BY DEF BuiltIsUnderstood
  <1>1. wire' = wire /\ wire \in Built /\ Understood
    BY DEF Next, ReadFrame, Enter, Transfer, TransferFails, CallerDecodes, input, vars,
           BuiltIsUnderstood
  <1>2. offset \in Nat
    BY DEF IInv, TypeOK
  <1>3. CASE Enter \/ TransferFails \/ UNCHANGED vars
    BY <1>1, <1>3 DEF Enter, TransferFails, Done, vars
  <1>4. ASSUME NEW n \in 1 .. EP_PACKET_SIZE, Transfer(n) PROVE Understood'
    <2>1. CASE HeaderComplete(n)
      <3>1. decode_header(wire, offset + n) = "OK"
        BY <1>1, <1>2, <2>1, RoundTrip DEF HeaderComplete, Got
      <3> QED
        BY <1>1, <1>4, <2>1, <3>1 DEF Transfer, Got, Refuse, Done, Continue
    <2>2. CASE ~ HeaderComplete(n)
      BY <1>1, <1>4, <2>2 DEF Transfer, Continue
    <2> QED
      BY <2>1, <2>2
  <1>5. CASE CallerDecodes
    <2>1. frame_len = wire.total_len
      BY <1>5 DEF CallerDecodes, IInv, LoopInv
    <2>2. HEADER_LEN \in Nat /\ HEADER_LEN >= HEADER_LEN
      OBVIOUS
    <2>3. wire.total_len \in Nat /\ wire.total_len >= HEADER_LEN
      BY <1>1, <2>2, RoundTrip
    <2>4. decode_header(wire, frame_len) = "OK"
      BY <1>1, <2>1, <2>3, RoundTrip
    <2> QED
      BY <1>5, <2>4 DEF CallerDecodes, Done
  <1> QED
    BY <1>3, <1>4, <1>5 DEF Next, ReadFrame

\* However its bytes are cut into transfers, a frame that build_frame() made is
\* never refused as malformed.
THEOREM BuiltAreUnderstood == Spec => []BuiltIsUnderstood
  <1>1. Init => BuiltIsUnderstood
    BY DEF Init, BuiltIsUnderstood
  <1>2. IInv /\ BuiltIsUnderstood /\ [Next]_vars => BuiltIsUnderstood'
    BY UnderstoodStep
  <1> QED
    BY <1>1, <1>2, InductiveInvariant, PTL DEF Spec
=============================================================================
