SPECIFICATION Spec
CONSTANTS
  SeqMax = 3
  Calls <- MixedCalls
  timeout_ms = 1000
  Unsolicited <- Unwanted
  RspLens = {0, 40}
  zero_packets = TRUE
  MaxIssued = 3
  MaxEpoch = 0
  OutCap = 2
  InCap = 4
INVARIANTS
  QuietLineMatches BacklogFails NeverSpliced
PROPERTIES
  KeepsItsPromise
