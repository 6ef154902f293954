SPECIFICATION Spec
CONSTANTS
  Streams = {"GRAM", "USDT"}
  Workers = {g1, u1}
  StreamOf <- MCStreamOf
  NoOwner = none
  Gone = gone
  g1 = g1
  g2 = g2
  u1 = u1
  u2 = u2
  PageSize = 1
  MaxPages = 2
  Lease = 2
  Retry = 1
  Interval = 1
  Overlap = 1
  Ahead = 1
  Horizon = 2
  Lag = 1
  MaxTransfers = 2
  MaxFaults = 0
  QuietFrom = 3
  MaxTime = 4
CHECK_DEADLOCK FALSE
INVARIANTS
  TypeOK
  HorizonSound
  SettledInOrder
