SPECIFICATION Spec
CONSTANTS
  Attempts = {a1, a2}
  Transfers = {t1, t2, t3}
  a1 = a1
  a2 = a2
  t1 = t1
  t2 = t2
  t3 = t3
  TransferOf <- MCTransferOf
  Callers = {c1, c2}
  Modes = {"compare", "ledger"}
  Amount = 2
  InvoiceTtl = 0
  PartialTtl = 1
  Rollout = 1
  MaxTime = 2
  MaxEvents = 1
SYMMETRY Symmetry
CHECK_DEADLOCK FALSE
INVARIANTS
  OneAttemptIsActive
  OrderMatchesAttempts
  PaidOrderIsPaid
  ExpiryIsDeserved
