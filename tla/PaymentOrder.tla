--------------------------- MODULE PaymentOrder ---------------------------
(***************************************************************************)
(* One order on testnet: the ledger, the checkout's operations on the      *)
(* order's attempts, the payers, the clock and the rate worker, all        *)
(* interleaved.  Scanners may journal transfers late and in any order, and *)
(* creditMovement may be called for any journaled movement at any time, as *)
(* overlapping settlement batches, the checkout's polling and an operator  *)
(* do.                                                                     *)
(***************************************************************************)
EXTENDS MovementLedger, OrderAttempts

CONSTANT ValidationCodes   \* the codes creditMovement is called with

\* settleInvoice passes the code of the asset; an operator's attachMovement the
\* stored code, or ADMIN_REVIEWED when there is none.
ASSUME CodesAssumption == ValidationCodes \subseteq {"SCANNER", "ADMIN"}

vars == <<world, rows, others>>

Ledger ==
  \/ \E m \in Movements :
       \/ RecordObserved(m)
       \/ RecordRejected(m)
       \/ \E code \in ValidationCodes : CreditMovement(m, code)
  \/ \E r \in allocations : ReverseAllocation(r)

Checkout ==
  \/ CheckNewAttempt
  \/ \E i \in Invoices, asset \in CheckoutAssets : CreateAttempt(i, asset)
  \/ CreateAttemptFails
  \/ \E i \in Invoices, asset \in CheckoutAssets : SelectAsset(i, asset)
  \/ \E i \in Invoices : FindOverdue(i) \/ BeginExpiry(i)
  \/ FinishExpiry
  \/ AbortExpiry

Next == Environment \/ Ledger \/ Checkout
Spec == Init /\ [][Next]_vars
-----------------------------------------------------------------------------
(* Accounting.                                                              *)

Capped(x) == IF x < Obligation THEN x ELSE Obligation

\* What the order and its attempts say was paid is what the append-only tables
\* back, also across markInvoiceExpired, which recomputes the order from the
\* attempts; when it fails, every further ledger call throws
\* (assertOrderAccountingBaseline).
AccountingBacked ==
  /\ Baseline
  /\ \A i \in Invoices : invoices[i].credited = Capped(Total(CreditsOf(allocations, i)))

\* A paid order is paid: its credits and discount cover it, and it dates from
\* the transfer that covered it, in the order of the blockchain and not of
\* discovery (syncOrderAccounting).
PaidIsCovered ==
  order.status = "PAID" =>
    LET credits  == ActiveCredits(allocations)
        discount == NetDiscount(adjustments)
    IN  /\ NetCredit(allocations) + discount >= Obligation
        /\ \E m \in MovementsOf(credits) :
             /\ At(m) = order.paidAt
             /\ m = Earliest(CoveringMovements(credits, Obligation - discount))

\* The GRAM discount is only ever granted to an order paid in GRAM alone that
\* reached the discounted price, and the two together cover the order.
DiscountIsEarned ==
  ActiveDiscounts(adjustments) # {} =>
    /\ Cardinality(ActiveDiscounts(adjustments)) = 1
    /\ \A m \in CreditedMovements : Asset(m) = "GRAM"
    /\ NetCredit(allocations) >= Obligation - GramDiscount
    /\ NetCredit(allocations) + NetDiscount(adjustments) >= Obligation

\* A movement is credited exactly once, to the attempt whose wallet it reached,
\* for the value of its amount at a rate published by then, however many calls
\* of creditMovement or held groups it was part of.
CreditsMatchEvidence ==
  /\ \A m \in Movements :
       movements[m].status = "CREDITED" <=>
         \E r \in allocations : r.kind = "CREDIT" /\ r.movement = m
  /\ \A r \in allocations :
       /\ r.invoice = Invoice(r.movement)
       /\ movements[r.movement].rate \in 0..At(r.movement)
       /\ r.fiat = movements[r.movement].fiat
       /\ r.fiat = Fiat(r.movement, movements[r.movement].rate)

\* All GRAM of an order is valued at one rate, across attempts, held groups,
\* late discoveries and reversals.
SingleGramRate == Cardinality(GramRates(allocations)) <= 1

\* Credits follow the blockchain: one that is booked after a later transfer
\* leaves the order in recovery, and so does any further one.
CreditsFollowChain ==
  [][\A r \in ActiveCredits(allocations') \ allocations :
       (\E k \in CreditedMovements : Before(r.movement, k)) => order'.status = "RECOVERY"]_vars
-----------------------------------------------------------------------------
(* Attempts.                                                                *)

\* The payer is shown at most one wallet to pay to.
OneActiveAttempt == Cardinality({i \in Invoices : Active(i)}) <= 1

\* A paid order asks for no further payment (createPendingInvoice refuses it a
\* new attempt, and its own attempt is paid).
PaidOrderIsClosed == order.status = "PAID" => \A i \in Invoices : ~Active(i)

\* Only an operator's work leads out of RECOVERY, and a paid order only ever
\* turns to RECOVERY.
SettlementIsFinal ==
  [][/\ order.status = "RECOVERY" => order'.status = "RECOVERY"
     /\ order.status = "PAID" => order'.status \in {"PAID", "RECOVERY"}]_vars

\* The asset of an attempt is frozen with its first journaled movement, while
\* the payer may be selecting another.
SelectionIsFrozen ==
  \A m \in Journaled :
    movements[m].status # "REJECTED" =>
      invoices[Invoice(m)].lockedAsset = invoices[Invoice(m)].asset
-----------------------------------------------------------------------------
(* Movements.                                                               *)

\* What a movement was found to be worth and what became of it is never revised.
EvidenceIsFinal ==
  [][\A m \in Movements :
       /\ movements[m].status \in {"CREDITED", "REJECTED"} => movements'[m] = movements[m]
       /\ movements[m].rate # NoTime => movements'[m].rate = movements[m].rate
       /\ movements[m].fiat # NoTime => movements'[m].fiat = movements[m].fiat
       /\ movements[m].code # "NONE" => movements'[m].code = movements[m].code]_vars

\* Money that is held or set aside is on an operator's list.
SetAsideIsListed ==
  \A m \in Movements :
    movements[m].status \in {"HELD_UNDER_MINIMUM", "RECOVERY", "REJECTED"} =>
      \E c \in cases : c.movement = m /\ c.open
-----------------------------------------------------------------------------
(* Progress.  The scanners come back for what they have not journaled, the   *)
(* settlement worker for OBSERVED and RATE_PENDING movements (it takes up no *)
(* other), the rate worker keeps polling, and a transaction ends.            *)
Settle(m) == movements[m].status \in {"OBSERVED", "RATE_PENDING"} /\ CreditMovement(m, "SCANNER")

Fairness ==
  /\ WF_vars(Tick)
  /\ \A m \in Movements : WF_vars(RecordObserved(m)) /\ WF_vars(RecordRejected(m))
  /\ \A m \in Movements : WF_vars(Settle(m))
  /\ \A a \in Assets : WF_vars(RecordRate(a))
  /\ WF_vars(FinishExpiry) /\ WF_vars(AbortExpiry)
FairSpec == Spec /\ Fairness

\* Every transfer to a deposit wallet is eventually credited or put before an
\* operator, in whatever order the scanners find the transfers.
EveryTransferSurfaces ==
  \A m \in Movements :
    (m \in Sent) ~> (movements[m].status = "CREDITED" \/ \E c \in cases : c.movement = m)
=============================================================================
