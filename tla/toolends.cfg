SPECIFICATION CliFairSpec
CONSTANTS
  SeqMax = 4
  Calls <- ToolCalls
  timeout_ms = 1000
  Unsolicited <- EverythingEmpty
  RspLens = {0, 8}
  zero_packets = FALSE
  MaxIssued = 4
  MaxEpoch = 1
  OutCap = 1
  InCap = 2
  Commands = {"probe", "uart_loopback", "ble_scan", "debug_xfer"}
  port = 0
  Texts = {2}
  Noise = {0}
PROPERTIES
  CommandEnds
\* All the runs have ended and the device is at rest.
CHECK_DEADLOCK FALSE
