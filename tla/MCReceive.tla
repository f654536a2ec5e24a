----------------------------- MODULE MCReceive -----------------------------
(***************************************************************************)
(* Small instances of MuxReceive.                                          *)
(***************************************************************************)
EXTENDS MuxReceive

\* Any function of the header that is not constant in its lengths will do.
Sum(h) == (h.magic + h.version + h.total_len + h.payload_len) % 65536

\* Lengths at every edge: empty, one packet, the longest frame, the first too
\* long, the first and the last whose sum with the header is cut.
Lengths == {0, 39, 40, 41, 488, 489, 65511, 65512, 65535}

\* Whatever a peer may send, with the lengths in agreement or not.
Sealed ==
  {[h EXCEPT !.header_crc16 = ChecksumOf(h)] :
     h \in {[Unsealed("r", n) EXCEPT !.total_len = total] :
              n \in Lengths, total \in {0, 23, 24, 64, 512, 513}}}

Bent ==
  {[encode_header("r", 3) EXCEPT !.version = 2],
   [encode_header("r", 3) EXCEPT !.header_len = 25]}

PeerWires == Sealed \cup Bent \cup {Unsealed("r", 3)} \cup {encode_header("r", n) : n \in {0, 39, 40, 41, 488}}

\* The frame of test_decode_rejects_bad_crc.
TestWires == {TestFrame(encode_header("r", 0))}
=============================================================================
