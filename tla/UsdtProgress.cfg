SPECIFICATION FairSpec
CONSTANTS
  Movements = {1, 2, 3}
  Invoices = {"i1"}
  FirstInvoice = "i1"
  MaxTime = 1
  TransferKinds <- UsdtTransfers
  CheckoutAssets = {"GRAM"}
  RateTimes <- LateRateTimes
  Price <- MCPrice
  PriceScale = 2
  MaxRateAge = 0
  Obligation = 4
  Threshold = 2
  GramDiscount = 1
  InvoiceTtl = 0
  PartialTtl = 1
  Mainnet = FALSE
  Horizon = 0
  Rejectable = {3}
  Reversible = {}
  ValidationCodes = {"SCANNER"}
CHECK_DEADLOCK FALSE
PROPERTIES
  EveryTransferSurfaces
