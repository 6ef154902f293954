SPECIFICATION FairSpec
CONSTANTS
  Invoices = {i1, i2}
  None = none
  MaxCalls = 2
  MaxLoads = 2
  MaxFaults = 1
CHECK_DEADLOCK FALSE
INVARIANTS
  ShownIsKnown
PROPERTIES
  CreatesWhenDone
  PaidIsAnnounced
