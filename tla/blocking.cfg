SPECIFICATION FairSpec
CONSTANTS
  SeqMax = 2
  Calls <- BlockingCalls
  timeout_ms = 0
  Unsolicited <- Data
  RspLens = {0}
  zero_packets = FALSE
  MaxIssued = 2
  MaxEpoch = 0
  OutCap = 1
  InCap = 2
PROPERTIES
  ReturnsOrSilence
