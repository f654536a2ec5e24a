SPECIFICATION CliSpec
CONSTANTS
  SeqMax = 4
  Calls <- ToolCalls
  timeout_ms = 1000
  Unsolicited <- Everything
  RspLens = {0, 8}
  zero_packets = FALSE
  MaxIssued = 4
  MaxEpoch = 2
  OutCap = 2
  InCap = 2
  Commands = {"probe", "heartbeat", "uart_cap", "uart_open", "uart_close", "uart_loopback",
              "ble_scan", "debug_xfer"}
  port = 0
  Texts = {0, 4, 489}
  Noise = {2}
INVARIANTS
  CliTypeOK ExitZeroIsDone BehindStaysBehind ScanStops BusyScanFails
\* All the runs have ended and the device is at rest.
CHECK_DEADLOCK FALSE
