SPECIFICATION FairSpec
CONSTANTS
  SeqMax = 2
  Calls <- SessionCalls
  timeout_ms = 1000
  Unsolicited <- Data
  RspLens = {0, 8}
  zero_packets = FALSE
  MaxIssued = 3
  MaxEpoch = 1
  OutCap = 2
  InCap = 2
INVARIANTS
  AnswersCoincide
PROPERTIES
  CallReturns
