SPECIFICATION FairSpec
CONSTANTS
  Events = {e1}
  Workers = {w1, w2}
  NoWorker = none
  BatchLimit = 2
  MaxDelay = 1
  Lease = 2
  BaseRetry = 1
  MaxRetry = 2
  MaxFaults = 3
CHECK_DEADLOCK FALSE
INVARIANTS
  TypeOK
  OutcomeMatchesJournal
  LeaseCoversDelivery
  RepeatsAreCaused
PROPERTIES
  AtLeastOnce
