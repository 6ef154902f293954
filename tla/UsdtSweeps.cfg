SPECIFICATION FairSpec
CONSTANTS
  Jobs = {j1, j2, j3}
  Deposits = {d1, d2}
  j1 = j1
  j2 = j2
  j3 = j3
  d1 = d1
  d2 = d2
  DepositOf <- MCDepositOf
  Funds <- MCFunds
  Planned = {j1}
  Workers = {w1, w2}
  Nobody = nobody
  Gone = gone
  Target = 2
  Reserve = 1
  MaxAttempts = 2
  MaxEvents = 1
CHECK_DEADLOCK FALSE
INVARIANTS
  TypeOK
  PlannedFirst
PROPERTIES
  ReserveIsRestored
  KeepsPromise
