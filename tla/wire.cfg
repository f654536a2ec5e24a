SPECIFICATION Spec
CONSTANTS
  Headers <- SomeHeaders
  MaxFlips = 2
  MaxBurst = 6
INVARIANTS
  DamageIsRefused WholeIsUnderstood CrcIsCcitt CodecAgrees OnlyReceivedBytes
\* No more bits are turned and nothing more arrives.
CHECK_DEADLOCK FALSE
