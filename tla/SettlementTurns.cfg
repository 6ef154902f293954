SPECIFICATION FairSpec
CONSTANTS
  MaxTime = 1
  MaxAge = 0
  CacheTime = 2
  Lags = {0}
  Interval = 1
  Deposits = {1, 2}
  Movements = {1, 2, 3, 4}
  DepositOf <- MCDepositOf
  AssetOf <- MCAssetOf
  Broken = {1}
  Workers = {w1}
  Limit = 1
  Retry = 1
  Ttl = 0
  MaxLag = 1
  MaxOverdue = 1
  MaxFaults = 1
CHECK_DEADLOCK FALSE
INVARIANTS
  RatesAreOfTheirTime
PROPERTIES
  DepositsAreServed
