SPECIFICATION Spec
CONSTANTS
  Movements = {1, 2, 3}
  Invoices = {"i1"}
  FirstInvoice = "i1"
  MaxTime = 2
  TransferKinds <- OneAttemptTransfers
  CheckoutAssets = {"GRAM", "USDT"}
  RateTimes <- MCRateTimes
  Price <- MCPrice
  PriceScale = 2
  MaxRateAge = 2
  Obligation = 4
  Threshold = 2
  GramDiscount = 1
  InvoiceTtl = 1
  PartialTtl = 1
  Mainnet = FALSE
  Horizon = 0
  Rejectable = {2}
  Reversible = {1}
  ValidationCodes = {"SCANNER", "ADMIN"}
CHECK_DEADLOCK FALSE
INVARIANTS
  TypeOK
  AccountingBacked
  PaidIsCovered
  DiscountIsEarned
  SetAsideIsListed
PROPERTIES
  CreditsFollowChain
  SettlementIsFinal
