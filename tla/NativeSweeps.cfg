SPECIFICATION FairSpec
CONSTANTS
  Transfers = {1, 2, 3}
  Payment <- MCPayment
  Obligation = 9
  GramDiscount = 2
  MaxSweeps = 2
  TriggerBps = 9000
  MinFiat = 3
  Reserve = 1
  Workers = {w1, w2}
  MinSweep = 3
  MaxFaults = 1
CHECK_DEADLOCK FALSE
INVARIANTS
  TypeOK
  SweptOnce
  PlannedFirst
  ReserveKept
  PaidOrderIsSwept
PROPERTIES
  JobsAdvance
