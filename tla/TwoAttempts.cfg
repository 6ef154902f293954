SPECIFICATION Spec
CONSTANTS
  Movements = {1, 2, 3}
  Invoices = {"i1", "i2"}
  FirstInvoice = "i1"
  MaxTime = 2
  TransferKinds <- TwoAttemptTransfers
  CheckoutAssets = {"GRAM"}
  RateTimes <- MCRateTimes
  Price <- MCPrice
  PriceScale = 2
  MaxRateAge = 2
  Obligation = 4
  Threshold = 2
  GramDiscount = 1
  InvoiceTtl = 0
  PartialTtl = 1
  Mainnet = FALSE
  Horizon = 0
  Rejectable = {}
  Reversible = {}
  ValidationCodes = {"SCANNER"}
CHECK_DEADLOCK FALSE
INVARIANTS
  SingleGramRate
  OneActiveAttempt
  CreditsMatchEvidence
