-------------------------- MODULE MovementLedger --------------------------
(***************************************************************************)
(* The transactions of backend/src/movement-ledger.ts: recordObserved,     *)
(* recordRejected, creditMovement and reverseAllocation, with the database *)
(* guards that abort them.  Each takes the order row FOR UPDATE, so each   *)
(* is one atomic action.  creditMovement is split by outcome; an error it  *)
(* throws, or a trigger that raises, rolls the transaction back, so it is  *)
(* an outcome that is not enabled.                                         *)
(***************************************************************************)
EXTENDS PaymentState

CONSTANTS
  Rejectable,  \* movements the scanner finds not to be payments
  Reversible   \* movements whose credit an operator may reverse

ASSUME LedgerAssumption == Rejectable \subseteq Movements /\ Reversible \subseteq Movements

Journaled  == {m \in Sent : movements[m].status # "UNSEEN"}
Unresolved == {m \in Sent : movements[m].status \in
                  {"OBSERVED", "RATE_PENDING", "RECOVERY"}}

\* Orders in these states are reopened by no credit.
HardTerminalForgotten == {"CANCELLED", "FAILED"}
HardTerminal == {"CANCELLED", "FAILED", "RECOVERY"}

\* lockInvoicePaymentSelection: the first movement freezes the selected asset.
LockSelection(i) ==
  [invoices EXCEPT ![i].lockedAsset = IF @ = "NONE" THEN invoices[i].asset ELSE @]

-----------------------------------------------------------------------------
(* Journaling.                                                              *)

\* recordObserved.  Journaling a known fingerprint again changes nothing; a
\* rejected one throws.
RecordObserved(m) ==
  /\ m \in Sent \ Rejectable
  /\ movements[m].status = "UNSEEN"
  /\ movements' = [movements EXCEPT ![m].status = "OBSERVED"]
  /\ invoices' = LockSelection(Invoice(m))
  /\ UNCHANGED <<world, allocations, adjustments, order, cases, others>>

\* recordRejected: the scanner found the transfer not to be a payment.
RecordRejected(m) ==
  /\ m \in Sent \cap Rejectable
  /\ movements[m].status = "UNSEEN"
  /\ movements' = [movements EXCEPT ![m].status = "REJECTED", ![m].code = "SCANNER"]
  /\ cases' = OpenCase(cases, m, "REJECTED")
  /\ UNCHANGED <<world, allocations, adjustments, order, invoices, others>>
-----------------------------------------------------------------------------
(* What creditMovement reads before it decides.                             *)

\* assertOrderAccountingBaseline, without which every ledger call throws.
Baseline ==
  /\ NetCredit(allocations) = order.credited + order.overpayment
  /\ NetDiscount(adjustments) = order.discount

Accepts(m, code) ==
  /\ m \in Journaled
  /\ movements[m].status # "REJECTED"
  /\ movements[m].code \in {"NONE", code}
  /\ Baseline

CreditedMovements == MovementsOf(ActiveCredits(allocations))
\* A movement waits for the earlier unresolved ones of the order.
BlockedByAny(m) == Unresolved \ {m} # {}
Blocked(m) == \E k \in Unresolved \ {m} : m \notin Unresolved \/ Before(k, m)

\* mainnetScannerHorizonReady: both scanners have completed a scan that began
\* at least the horizon after the movement, and neither is scanning now.
CursorReady(c, m) ==
  /\ c.through # NoTime /\ c.through >= At(m) + Horizon
  /\ c.owner # "NONE" => c.leaseExpiresAt <= now
HorizonReady(m) ==
  (Mainnet /\ Threshold > 0) =>
     \A a \in Assets : CursorReady(cursors[Invoice(m)][a], m)

OutOfOrderIgnored(m) == FALSE
OutOfOrder(m) == \E k \in CreditedMovements : Before(m, k)
PostPaid(m) ==
  /\ order.status = "PAID"
  /\ LET covering == CoveringMovements(ActiveCredits(allocations), Obligation)
     IN  covering # {} => Before(Earliest(covering), m)
Late(m) == At(m) > Deadline(Invoice(m))
ConflictingAttemptIgnored(m) == FALSE
ConflictingAttempt(m) ==
  ~Active(Invoice(m)) /\ \E i \in Invoices \ {Invoice(m)} : Active(i)
MultipleFundedDeposits(m) ==
  \E r \in ActiveCredits(allocations) : r.invoice # Invoice(m)
ForceRecovery(m) ==
  \/ Late(m) \/ PostPaid(m) \/ OutOfOrder(m) \/ ConflictingAttempt(m)
  \/ MultipleFundedDeposits(m)
  \/ order.status \in HardTerminal

RecoveryReason(m) ==
  IF OutOfOrder(m) THEN "OUT_OF_ORDER_MOVEMENT"
  ELSE IF PostPaid(m) THEN "POST_PAID_MOVEMENT"
  ELSE IF Late(m) THEN "LATE_MOVEMENT"
  ELSE IF MultipleFundedDeposits(m) THEN "MULTIPLE_FUNDED_DEPOSIT_MOVEMENT"
  ELSE "TERMINAL_OR_CONFLICTING_ATTEMPT_MOVEMENT"
-----------------------------------------------------------------------------
(* Valuation.                                                               *)

\* findLockedGramRate: the rate of the first GRAM credit of the order.  The
\* trigger tonhub_enforce_gram_rate_lock keeps every later one at that rate,
\* so which of them is the first does not matter.
GramRates(allocs) ==
  {movements[r.movement].rate :
     r \in {c \in allocs : c.kind = "CREDIT" /\ Asset(c.movement) = "GRAM"}}
RateLocked(m) == Asset(m) = "GRAM" /\ GramRates(allocations) # {}
LockedRate    == CHOOSE t \in GramRates(allocations) : TRUE

KnownRates(m) == {t \in snapshots[Asset(m)] : t <= At(m)}
LatestRate(m) == CHOOSE t \in KnownRates(m) : \A u \in KnownRates(m) : u <= t

IsHeld(m) == movements[m].status = "HELD_UNDER_MINIMUM"
LockPredates(m) == RateLocked(m) /\ LockedRate > At(m)
RatePends(m) ==
  /\ ~IsHeld(m) /\ ~RateLocked(m)
  /\ KnownRates(m) = {} \/ At(m) - LatestRate(m) > MaxRateAge

OwnRate(m) == IF IsHeld(m) THEN movements[m].rate
              ELSE IF RateLocked(m) THEN LockedRate ELSE LatestRate(m)

\* The held movements that are valued together with m, at the rate of the
\* earliest GRAM movement among them.
HeldOfOrder(m) == {k \in Sent \ {m} : IsHeld(k) /\ movements[k].fiat > 0}
Held(m) == {k \in Sent \ {m} : /\ IsHeld(k)
                               /\ Invoice(k) = Invoice(m)
                               /\ movements[k].fiat > 0}
Group(m)     == Held(m) \cup {m}
GramGroup(m) == {k \in Group(m) : Asset(k) = "GRAM"}
BaseRate(m, k) == IF k = m THEN OwnRate(m) ELSE movements[k].rate
GroupRate(m, k) ==
  IF Asset(k) = "GRAM" THEN BaseRate(m, Earliest(GramGroup(m))) ELSE BaseRate(m, k)
GroupFiat(m, k) == Fiat(k, GroupRate(m, k))
Activating(m) == SumFunction([k \in Group(m) |-> GroupFiat(m, k)])

UnderMinimum(m) ==
  /\ ~ForceRecovery(m)
  /\ NetCredit(allocations) = 0
  /\ Activating(m) < Obligation
  /\ Activating(m) < Threshold

\* tonhub_guard_payment_movement: rate and fiat evidence is attached once.
KeepsEvidence(k, rate, fiat) ==
  /\ movements[k].rate \in {NoTime, rate}
  /\ movements[k].fiat \in {NoTime, fiat}

\* tonhub_enforce_gram_rate_lock.  The triggers that only repeat what the code
\* has checked itself are left out.
KeepsAnyGramRate(m) == TRUE
KeepsGramRate(m) ==
  \A k \in GramGroup(m) :
    GramRates(allocations) # {} => GroupRate(m, k) \in GramRates(allocations)

CreditsAllowed(m) ==
  /\ \A k \in Group(m) : /\ KeepsEvidence(k, GroupRate(m, k), GroupFiat(m, k))
                         /\ GroupRate(m, k) <= At(k)
  /\ KeepsGramRate(m)
-----------------------------------------------------------------------------
(* What a settled transaction writes.                                       *)

\* applyEligibleGramOnlyDiscount: only GRAM was credited, and it covers the
\* discounted price of the quote.
EarnsDiscountAnyAsset(allocs, adjs) ==
  /\ ActiveDiscounts(adjs) = {}
  /\ NetCredit(allocs) \in (Obligation - GramDiscount)..(Obligation - 1)
EarnsDiscount(allocs, adjs) ==
  /\ ActiveCredits(allocs) # {}
  /\ \A k \in MovementsOf(ActiveCredits(allocs)) : Asset(k) = "GRAM"
  /\ ActiveDiscounts(adjs) = {}
  /\ GramDiscount > 0
  /\ NetCredit(allocs) \in (Obligation - GramDiscount)..(Obligation - 1)

Discounted(i, allocs, adjs) ==
  adjs \cup {[kind |-> "DISCOUNT", invoice |-> i, fiat |-> Obligation - NetCredit(allocs)]}
ReverseNoDiscount(adjs) == adjs
ReverseDiscounts(adjs) == adjs \cup {Reversal(d) : d \in ActiveDiscounts(adjs)}

OverpaidUnchecked(net) == net - Obligation
OverpaidIgnored(net)   == 0
Overpaid(net) == IF net > Obligation THEN net - Obligation ELSE 0

\* The movement that closed the order, in the order of the blockchain.
PaidByFirst(credits) == Earliest(MovementsOf(credits))
PaidBy(credits) ==
  LET covering == CoveringMovements(credits, Obligation)
  IN  IF covering # {} THEN Earliest(covering) ELSE Latest(MovementsOf(credits))

\* syncOrderAccounting.
SyncedOrder(allocs, adjs, forced, revive) ==
  LET net      == NetCredit(allocs)
      discount == NetDiscount(adjs)
      terminal == order.status \in HardTerminal \cup {"EXPIRED"}
      status   == IF forced \/ (terminal /\ ~(revive /\ order.status = "EXPIRED"))
                  THEN "RECOVERY"
                  ELSE IF net + discount >= Obligation THEN "PAID"
                  ELSE IF net + discount > 0 THEN "PARTIAL" ELSE "PENDING"
  IN  [status      |-> status,
       credited    |-> IF net < Obligation THEN net ELSE Obligation,
       overpayment |-> Overpaid(net),
       discount    |-> discount,
       paidAt      |-> IF status = "PAID" THEN At(PaidBy(ActiveCredits(allocs)))
                       ELSE order.paidAt]

\* syncInvoiceAccounting.  The order's discount counts in full for every attempt.
SyncedInvoice(i, allocs, adjs, status) ==
  LET credits   == CreditsOf(allocs, i)
      net       == Total(credits)
      effective == net + NetDiscount(adjs)
      firstAt   == IF credits = {} THEN invoices[i].firstAt
                   ELSE At(Earliest(MovementsOf(credits)))
      window    == IF firstAt = NoTime THEN invoices[i].partialExpiresAt
                   ELSE firstAt + PartialTtl
  IN  [LockSelection(i)[i] EXCEPT
         !.status   = status,
         !.credited = IF net < Obligation THEN net ELSE Obligation,
         !.firstAt  = firstAt,
         !.partialExpiresAt = IF effective \in 1..(Obligation - 1) THEN window ELSE @]

SettledStatus(i, allocs, orderStatus) ==
  IF orderStatus = "PAID" THEN "PAID"
  ELSE IF Total(CreditsOf(allocs, i)) > 0 THEN "PARTIAL" ELSE "PENDING"
RecoveredStatus(i) == IF Active(i) THEN "EXPIRED" ELSE invoices[i].status
-----------------------------------------------------------------------------
(* creditMovement, one action per outcome, in the order the code decides.   *)

\* A movement that is credited already: the replay only re-examines the
\* discount of an order that no unresolved movement holds up.
CreditReplay(m, code) ==
  /\ Accepts(m, code)
  /\ movements[m].status = "CREDITED"
  /\ LET i    == Invoice(m)
         adjs == Discounted(i, allocations, adjustments)
         ord  == SyncedOrder(allocations, adjs, FALSE, FALSE)
     IN  IF /\ order.status \in ActiveStatuses /\ Active(i)
            /\ Unresolved = {}
            /\ \A r \in ActiveCredits(allocations) : r.invoice = i
            /\ order.discount = 0
            /\ EarnsDiscount(allocations, adjustments)
         THEN /\ adjustments' = adjs
              /\ order' = ord
              /\ invoices' = [invoices EXCEPT ![i] = SyncedInvoice(i, allocations, adjs,
                                SettledStatus(i, allocations, ord.status))]
         ELSE /\ invoices' = LockSelection(i)
              /\ UNCHANGED <<adjustments, order>>
  /\ UNCHANGED <<world, movements, allocations, cases, others>>

\* blocked-earlier-movement and awaiting-scan-horizon.
Defer(m, code) ==
  /\ Accepts(m, code)
  /\ movements[m].status # "CREDITED"
  /\ Blocked(m) \/ ~HorizonReady(m)
  /\ invoices' = LockSelection(Invoice(m))
  /\ UNCHANGED <<world, movements, allocations, adjustments, order, cases, others>>

Decides(m, code) ==
  /\ Accepts(m, code)
  /\ movements[m].status # "CREDITED"
  /\ ~Blocked(m) /\ HorizonReady(m)

\* OUT_OF_ORDER_RATE_LOCK: the order's GRAM rate is younger than the transfer.
RecoverRateLock(m, code) ==
  /\ Decides(m, code)
  /\ LockPredates(m)
  /\ movements' = [movements EXCEPT ![m].status = "RECOVERY", ![m].code = code]
  /\ invoices' = LockSelection(Invoice(m))
  /\ cases' = OpenCase(cases, m, "OUT_OF_ORDER_RATE_LOCK")
  /\ UNCHANGED <<world, allocations, adjustments, order, others>>

\* markRatePending: no rate known by the transfer's time, or only a stale one.
AwaitRate(m, code) ==
  /\ Decides(m, code)
  /\ ~LockPredates(m) /\ RatePends(m)
  /\ movements' = [movements EXCEPT ![m].status = "RATE_PENDING", ![m].code = code]
  /\ invoices' = LockSelection(Invoice(m))
  /\ UNCHANGED <<world, allocations, adjustments, order, cases, others>>

Values(m, code) == Decides(m, code) /\ ~LockPredates(m) /\ ~RatePends(m)

Hold(m, code, rate, fiat, reason) ==
  /\ KeepsEvidence(m, rate, fiat)
  /\ movements' = [movements EXCEPT ![m] =
       [status |-> "HELD_UNDER_MINIMUM", code |-> code, rate |-> rate, fiat |-> fiat]]
  /\ invoices' = LockSelection(Invoice(m))
  /\ cases' = OpenCase(cases, m, reason)
  /\ UNCHANGED <<world, allocations, adjustments, order, others>>

HoldDust(m, code) ==
  /\ Values(m, code)
  /\ Fiat(m, OwnRate(m)) = 0
  /\ Hold(m, code, OwnRate(m), 0, "PAYMENT_BELOW_ACCOUNTING_PRECISION")

HoldUnderMinimum(m, code) ==
  /\ Values(m, code)
  /\ Fiat(m, OwnRate(m)) # 0
  /\ UnderMinimum(m)
  /\ Hold(m, code, GroupRate(m, m), GroupFiat(m, m), "INITIAL_PAYMENT_UNDER_MINIMUM")

Claimed(m, code) ==
  [k \in Movements |->
     IF k \notin Group(m) THEN movements[k]
     ELSE [status |-> "CREDITED",
           code   |-> IF movements[k].code = "NONE" THEN code ELSE movements[k].code,
           rate   |-> GroupRate(m, k),
           fiat   |-> GroupFiat(m, k)]]

\* The movement and everything held on its deposit are credited together.
CreditGroup(m, code) ==
  /\ Values(m, code)
  /\ Fiat(m, OwnRate(m)) # 0
  /\ ~UnderMinimum(m)
  /\ CreditsAllowed(m)
  /\ LET i      == Invoice(m)
         forced == ForceRecovery(m)
         revive == order.status = "EXPIRED" /\ ~Late(m) /\ ~ConflictingAttempt(m)
         allocs == allocations \cup
           {[kind |-> "CREDIT", movement |-> k, invoice |-> i, fiat |-> GroupFiat(m, k)] :
              k \in Group(m)}
         kept   == IF GramGroup(m) = Group(m) THEN adjustments
                   ELSE ReverseDiscounts(adjustments)
         earns  == /\ ~forced /\ Unresolved \subseteq {m}
                   /\ EarnsDiscount(allocs, kept)
         adjs   == IF earns THEN Discounted(i, allocs, kept) ELSE kept
         ord    == SyncedOrder(allocs, adjs, forced, revive)
         closed == {[c EXCEPT !.open = IF c.movement \in Held(m) /\
                                          c.reason = "INITIAL_PAYMENT_UNDER_MINIMUM"
                                       THEN FALSE ELSE @] : c \in cases}
     IN  /\ allocations' = allocs
         /\ adjustments' = adjs
         /\ order' = ord
         /\ invoices' = [invoices EXCEPT ![i] = SyncedInvoice(i, allocs, adjs,
              IF forced THEN RecoveredStatus(i) ELSE SettledStatus(i, allocs, ord.status))]
         /\ cases' = IF forced THEN OpenCase(closed, m, RecoveryReason(m)) ELSE closed
  /\ movements' = Claimed(m, code)
  /\ UNCHANGED <<world, others>>

CreditMovement(m, code) ==
  \/ CreditReplay(m, code)
  \/ Defer(m, code)
  \/ RecoverRateLock(m, code)
  \/ AwaitRate(m, code)
  \/ HoldDust(m, code)
  \/ HoldUnderMinimum(m, code)
  \/ CreditGroup(m, code)
-----------------------------------------------------------------------------
\* reverseAllocation, which sends the order to recovery whatever remains
\* credited.  A second reversal of the same credit finds the first one.
ReverseAllocation(r) ==
  /\ r \in ActiveCredits(allocations)
  /\ r.movement \in Reversible
  /\ Baseline
  /\ LET i      == r.invoice
         allocs == allocations \cup {Reversal(r)}
         adjs   == ReverseDiscounts(adjustments)
     IN  /\ allocations' = allocs
         /\ adjustments' = adjs
         /\ order' = SyncedOrder(allocs, adjs, TRUE, FALSE)
         /\ invoices' = [invoices EXCEPT ![i] = SyncedInvoice(i, allocs, adjs, "FAILED")]
  /\ cases' = OpenCase(cases, r.movement, "ALLOCATION_REVERSED")
  /\ UNCHANGED <<world, movements, others>>
=============================================================================
