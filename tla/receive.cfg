SPECIFICATION FairSpec
CONSTANTS
  Rest = {"r"}
  Crc <- Sum
  Wires <- PeerWires
  FrameCapacities = {10, 24, 63, 512, 600}
  Capacities = {0, 8, 488, 65535}
INVARIANTS
  TypeOK BufferInBounds CopyInBounds WrapIsRefused BuiltIsUnderstood
PROPERTIES
  Returns
\* The call has returned.
CHECK_DEADLOCK FALSE
