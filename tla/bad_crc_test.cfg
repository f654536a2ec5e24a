SPECIFICATION Spec
CONSTANTS
  Rest = {"r"}
  Crc <- Sum
  Wires <- TestWires
  FrameCapacities = {512}
  Capacities = {0}
INVARIANTS
  BadCrcIsFoundByCrc
\* The call has returned.
CHECK_DEADLOCK FALSE
