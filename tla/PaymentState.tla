--------------------------- MODULE PaymentState ---------------------------
(***************************************************************************)
(* The rows of one order that the settlement code reads and writes: the    *)
(* order itself, its payment attempts (invoices, each with a deposit       *)
(* wallet of its own), the journal of incoming movements, the append-only  *)
(* allocations and adjustments, the rate snapshots and the scan cursors of *)
(* its deposits.  Every settlement transaction locks the order row first,  *)
(* so orders do not interact and one order is the whole state space.       *)
(*                                                                         *)
(* MovementLedger and OrderAttempts give the transactions that change      *)
(* these rows; PaymentOrder composes them.                                 *)
(***************************************************************************)
EXTENDS Integers, FiniteSets, Functions

CONSTANTS
  Movements,       \* identifiers 1..n of the incoming transfers of a run
  Invoices,        \* identifiers of the payment attempts of the order
  FirstInvoice,    \* the attempt the order is created with
  MaxTime,         \* bound on the clock
  TransferKinds,   \* what payers may send: records [asset, invoice, amount]
  CheckoutAssets,  \* assets the checkout page lets the payer select
  RateTimes,       \* RateTimes[a]: the times a quote of asset a is published
  Price,           \* Price[a][t]: the quote of asset a published at time t
  PriceScale,      \* atomic units per whole unit of an asset
  MaxRateAge,      \* maxRateAgeMs
  Obligation,      \* fiatAmountMicros of the order
  Threshold,       \* activationThresholdFiatMicros of its invoices
  GramDiscount,    \* discountFiatMicros of the GRAM quote
  InvoiceTtl,      \* time from creation to expiresAt of an attempt
  PartialTtl,      \* partialPaymentTtlHours
  Mainnet,         \* whether the invoices are on mainnet
  Horizon          \* scannerSettlementHorizonMs

VARIABLES
  now,          \* the wall clock
  chain,        \* chain[m]: the blockchain transfer m, or NoTransfer
  snapshots,    \* snapshots[a]: observedAt of the stored rate snapshots of a
  movements,    \* the TonhubPaymentMovement rows
  allocations,  \* the TonhubMovementAllocation rows
  adjustments,  \* the TonhubOrderAdjustment rows
  order,        \* the TonhubPaymentOrder row
  invoices,     \* the TonhubPaymentInvoice rows
  cases,        \* the TonhubRecoveryCase rows
  cursors,      \* the TonhubScanCursor rows, per deposit and asset
  overdue,      \* attempts that a caller of markInvoiceExpired found past their deadline
  checkout,     \* createPendingInvoice: "IDLE", or "CHECKED" between its halves
  expiry        \* markInvoiceExpired: NoExpiry, or what its first half has read

attempts == <<checkout, expiry>>
others   == <<cursors, overdue, checkout, expiry>>
rows     == <<movements, allocations, adjustments, order, invoices, cases>>
world    == <<now, chain, snapshots>>

Assets == {"GRAM", "USDT"}
Times  == 0..MaxTime
NoTime == -1
NoTransfer == [asset |-> "NONE"]
Transfers  == [asset: Assets, invoice: Invoices, amount: Nat \ {0}, at: Times]

MovementStatuses == {"UNSEEN", "OBSERVED", "RATE_PENDING", "RECOVERY",
                     "HELD_UNDER_MINIMUM", "CREDITED", "REJECTED"}
Codes == {"NONE", "SCANNER", "ADMIN"}
OrderStatuses   == {"PENDING", "PARTIAL", "PAID", "EXPIRED", "RECOVERY"}
InvoiceStatuses == {"ABSENT", "PENDING", "PARTIAL", "PAID", "EXPIRED", "FAILED"}
ActiveStatuses  == {"PENDING", "PARTIAL"}
Reasons == {"REJECTED", "OUT_OF_ORDER_RATE_LOCK", "PAYMENT_BELOW_ACCOUNTING_PRECISION",
            "INITIAL_PAYMENT_UNDER_MINIMUM", "OUT_OF_ORDER_MOVEMENT",
            "POST_PAID_MOVEMENT", "LATE_MOVEMENT", "MULTIPLE_FUNDED_DEPOSIT_MOVEMENT",
            "TERMINAL_OR_CONFLICTING_ATTEMPT_MOVEMENT", "ALLOCATION_REVERSED"}

ASSUME StateAssumption ==
  /\ Movements \subseteq Nat
  /\ IsFiniteSet(Invoices) /\ FirstInvoice \in Invoices
  /\ MaxTime \in Nat
  /\ TransferKinds \subseteq [asset: Assets, invoice: Invoices, amount: Nat \ {0}]
  /\ CheckoutAssets \subseteq Assets
  /\ RateTimes \in [Assets -> SUBSET Times]
  /\ Price \in [Assets -> [Times -> Nat]]
  /\ PriceScale \in Nat \ {0}
  /\ MaxRateAge \in Nat
  /\ Obligation \in Nat \ {0}
  /\ Threshold \in 0..Obligation
  /\ GramDiscount \in 0..(Obligation - 1)
  /\ InvoiceTtl \in Nat
  /\ PartialTtl \in Nat \ {0}
  /\ Mainnet \in BOOLEAN
  /\ Horizon \in Nat
-----------------------------------------------------------------------------
(* Facts of a movement: copied from the chain when it is journaled and      *)
(* immutable from then on.                                                  *)
Asset(m)   == chain[m].asset
Invoice(m) == chain[m].invoice
At(m)      == chain[m].at
Sent       == {m \in Movements : chain[m] # NoTransfer}

\* compareMovementChronology: block time first, then logical time.  Transfers
\* reach the chain in the order of their identifiers, which stand for the lt.
Before(m, k) == At(m) < At(k) \/ (At(m) = At(k) /\ m < k)
Earliest(S)  == CHOOSE m \in S : \A k \in S \ {m} : Before(m, k)
Latest(S)    == CHOOSE m \in S : \A k \in S \ {m} : Before(k, m)

\* calculateMovementFiatMicros: the floor of amount times price.
Fiat(m, t) == (chain[m].amount * Price[Asset(m)][t]) \div PriceScale
-----------------------------------------------------------------------------
(* The append-only tables.                                                  *)
Allocations == [kind: {"CREDIT", "REVERSAL"}, movement: Movements,
                invoice: Invoices, fiat: Nat]
Adjustments == [kind: {"DISCOUNT", "REVERSAL"}, invoice: Invoices, fiat: Nat]

Reversal(r) == [r EXCEPT !.kind = "REVERSAL"]

ActiveCredits(allocs) ==
  {r \in allocs : r.kind = "CREDIT" /\ Reversal(r) \notin allocs}
CreditsOf(allocs, i)  == {r \in ActiveCredits(allocs) : r.invoice = i}
ActiveDiscounts(adjs) ==
  {r \in adjs : r.kind = "DISCOUNT" /\ Reversal(r) \notin adjs}

MovementsOf(credits) == {r.movement : r \in credits}
Total(credits)    == SumFunction([r \in credits |-> r.fiat])
NetCredit(allocs) == Total(ActiveCredits(allocs))
NetDiscount(adjs) == Total(ActiveDiscounts(adjs))

\* The movement whose credit, in chronological order, covers `due`.
CoveringMovements(credits, due) ==
  {m \in MovementsOf(credits) :
     Total({r \in credits : r.movement = m \/ Before(r.movement, m)}) >= due}
-----------------------------------------------------------------------------
Active(i) == invoices[i].status \in ActiveStatuses

InvoiceRows == [status: InvoiceStatuses, credited: Nat, firstAt: Times \cup {NoTime},
                partialExpiresAt: Nat \cup {NoTime}, expiresAt: Nat,
                asset: Assets, lockedAsset: Assets \cup {"NONE"}]

\* The deadline by which the ledger calls a movement late.
Deadline(i) ==
  IF invoices[i].partialExpiresAt # NoTime THEN invoices[i].partialExpiresAt
  ELSE IF invoices[i].firstAt # NoTime THEN invoices[i].firstAt + PartialTtl
  ELSE invoices[i].expiresAt

NewInvoice(asset, at) ==
  [status |-> "PENDING", credited |-> 0, firstAt |-> NoTime,
   partialExpiresAt |-> NoTime, expiresAt |-> at + InvoiceTtl,
   asset |-> asset, lockedAsset |-> "NONE"]
NoInvoice == [NewInvoice("GRAM", 0) EXCEPT !.status = "ABSENT"]

NoExpiry == [invoice |-> "NONE"]
Expiries == [invoice: Invoices, row: InvoiceRows, credits: SUBSET Allocations,
             status: {"EXPIRED", "RECOVERY"}, credited: Nat, paidAt: Times \cup {NoTime}]

\* createRecoveryCase: at most one case per movement and reason.
OpenCaseOncePerOrder(cs, m, reason) ==
  IF \E c \in cs : c.reason = reason THEN cs
  ELSE cs \cup {[movement |-> m, reason |-> reason, open |-> TRUE]}
OpenCase(cs, m, reason) ==
  IF \E c \in cs : c.movement = m /\ c.reason = reason THEN cs
  ELSE cs \cup {[movement |-> m, reason |-> reason, open |-> TRUE]}
-----------------------------------------------------------------------------
\* The evidence about movements, which the rest is derived from.
JournalTypeOK ==
  /\ now \in Times
  /\ chain \in [Movements -> Transfers \cup {NoTransfer}]
  /\ snapshots \in [Assets -> SUBSET Times]
  /\ movements \in [Movements -> [status: MovementStatuses, code: Codes,
                                  rate: Times \cup {NoTime},
                                  fiat: Nat \cup {NoTime}]]
  /\ allocations \subseteq Allocations
  /\ cases \subseteq [movement: Movements, reason: Reasons, open: BOOLEAN]

TypeOK ==
  /\ JournalTypeOK
  /\ adjustments \subseteq Adjustments
  /\ order \in [status: OrderStatuses, credited: Nat, overpayment: Nat,
                discount: Nat, paidAt: Times \cup {NoTime}]
  /\ invoices \in [Invoices -> InvoiceRows]
  /\ overdue \subseteq Invoices
  /\ checkout \in {"IDLE", "CHECKED"}
  /\ expiry \in Expiries \cup {NoExpiry}

\* One createPendingInvoice call creates the order with its first attempt; its
\* persisted quotes reference a snapshot of each asset.
Init ==
  /\ now = 0
  /\ chain = [m \in Movements |-> NoTransfer]
  /\ snapshots = [a \in Assets |-> {0}]
  /\ movements = [m \in Movements |->
       [status |-> "UNSEEN", code |-> "NONE", rate |-> NoTime, fiat |-> NoTime]]
  /\ allocations = {}
  /\ adjustments = {}
  /\ order = [status |-> "PENDING", credited |-> 0, overpayment |-> 0,
              discount |-> 0, paidAt |-> NoTime]
  /\ \E a \in CheckoutAssets :
       invoices = [i \in Invoices |->
                     IF i = FirstInvoice THEN NewInvoice(a, 0) ELSE NoInvoice]
  /\ cases = {}
  /\ cursors = [i \in Invoices |-> [a \in Assets |->
       [through |-> NoTime, owner |-> "NONE", leaseExpiresAt |-> NoTime]]]
  /\ overdue = {}
  /\ checkout = "IDLE"
  /\ expiry = NoExpiry
-----------------------------------------------------------------------------
(* The environment.                                                         *)
Tick ==
  /\ now < MaxTime
  /\ now' = now + 1
  /\ UNCHANGED <<chain, snapshots, rows, others>>

\* A payer funds the deposit wallet of an attempt that has been shown to them.
Transfer(k) ==
  /\ invoices[k.invoice].status # "ABSENT"
  /\ \E m \in Movements \ Sent :
       /\ \A n \in Movements \ Sent : m <= n
       /\ chain' = [chain EXCEPT ![m] =
            [asset |-> k.asset, invoice |-> k.invoice, amount |-> k.amount, at |-> now]]
  /\ UNCHANGED <<now, snapshots, rows, others>>

\* The rate worker stores a published quote, however late it gets to it.
RecordRate(a) ==
  /\ \E t \in RateTimes[a] :
       /\ t <= now
       /\ t \notin snapshots[a]
       /\ snapshots' = [snapshots EXCEPT ![a] = @ \cup {t}]
  /\ UNCHANGED <<now, chain, rows, others>>

Environment ==
  \/ Tick
  \/ \E k \in TransferKinds : Transfer(k)
  \/ \E a \in Assets : RecordRate(a)
=============================================================================
