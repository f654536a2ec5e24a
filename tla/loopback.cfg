SPECIFICATION CliSpec
CONSTANTS
  SeqMax = 4
  Calls <- ToolCalls
  timeout_ms = 1000
  Unsolicited <- PortData
  RspLens = {0}
  zero_packets = FALSE
  MaxIssued = 3
  MaxEpoch = 3
  OutCap = 2
  InCap = 2
  Commands = {"uart_loopback"}
  port = 0
  Texts = {4}
  Noise = {2}
INVARIANTS
  LoopbackIsPaid LoopbackCloses
\* All the runs have ended and the device is at rest.
CHECK_DEADLOCK FALSE
