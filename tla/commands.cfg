SPECIFICATION Spec
CONSTANTS
  SeqMax = 2
  Calls <- CommandCalls
  timeout_ms = 1000
  Unsolicited = {}
  RspLens = {0, 8}
  zero_packets = FALSE
  MaxIssued = 4
  MaxEpoch = 0
  OutCap = 2
  InCap = 2
INVARIANTS
  TypeOK AnswerIsOwn OkMeansDone
