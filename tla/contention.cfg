SPECIFICATION Spec
CONSTANTS
  Procs = {p1, p2, p3}
  Nobody = nobody
  DetachOptions = {TRUE, FALSE}
  HasDriver = TRUE
  Faults = FALSE
  MaxPlug = 2
SYMMETRY Alike
INVARIANTS
  TypeOK Exclusive OneDebtor DriverOwed ErrorHasReason
