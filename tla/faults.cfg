SPECIFICATION FairSpec
CONSTANTS
  Procs = {p1, p2}
  Nobody = nobody
  DetachOptions = {TRUE}
  HasDriver = TRUE
  Faults = TRUE
  MaxPlug = 2
INVARIANTS
  NothingLeaks DriverOwed
PROPERTIES
  DriverReturns
