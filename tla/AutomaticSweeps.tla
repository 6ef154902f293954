-------------------------- MODULE AutomaticSweeps --------------------------
(***************************************************************************)
(* Which automatic sweeps an order gets.  Whenever a credit is accepted or *)
(* a sweep is confirmed, reconcileAutomaticAssetSweeps decides, for each   *)
(* asset, whether the order's deposit wallet is due for another one.  The  *)
(* decision is a function of rows that are all read under the lock of the  *)
(* order; NativeSweep runs the jobs it queues.                             *)
(*                                                                         *)
(* What the ledger does with a transfer is PaymentOrder's subject.  Here a *)
(* transfer is journaled, then credited at a given value, and the ledger   *)
(* may instead send the order to recovery, which it then never leaves.     *)
(***************************************************************************)
EXTENDS Integers, FiniteSets, Sequences, Functions

CONSTANTS
  Transfers,    \* identifiers of the incoming transfers
  Payment,      \* Payment[t]: [asset, amount in atomic units, fiat value]
  Obligation,   \* fiatAmountMicros of the order
  GramDiscount, \* discountFiatMicros of the GRAM quote
  MaxSweeps,    \* maxAutomaticSweepsPerAsset
  TriggerBps,   \* intermediateSweepTriggerBps
  MinFiat,      \* intermediateSweepMinFiatMicros
  Reserve       \* reserveNano: what a native sweep leaves in the wallet

VARIABLES
  stage,        \* stage[t]: how far transfer t has come
  order,        \* the status of the order
  sweeps        \* sweeps[a]: the automatic TonhubAssetSweep rows by sequence

Assets == {"GRAM", "USDT"}
Stages == {"ABSENT", "ARRIVED", "JOURNALED", "CREDITED"}
OrderStatuses == {"PENDING", "PARTIAL", "PAID", "RECOVERY"}
TriggerReasons == {"INTERMEDIATE_RATIO", "INTERMEDIATE_VALUE", "TERMINAL_PAID"}

\* Lease owners that are not a worker in the middle of a job: Nobody is the
\* null of the database, Gone a call that has ended without giving the lease up.
Nobody == "NOBODY"
Gone   == "GONE"

\* The transfer plan of a job: NoPlan until it is persisted.
NoPlan == [amount |-> 0, seqno |-> -1]

ASSUME SweepAssumption ==
  /\ IsFiniteSet(Transfers)
  /\ Payment \in [Transfers -> [asset: Assets, amount: Nat \ {0}, fiat: Nat \ {0}]]
  /\ Obligation \in Nat \ {0}
  /\ GramDiscount \in 0..Obligation
  /\ MaxSweeps \in 0..2
  /\ TriggerBps \in 0..10000
  /\ MinFiat \in Nat
  /\ Reserve \in Nat
-----------------------------------------------------------------------------
Of(a)       == {t \in Transfers : Payment[t].asset = a}
Credited(st, a) == {t \in Of(a) : st[t] = "CREDITED"}
Journaled(st, a) == {t \in Of(a) : st[t] \in {"JOURNALED", "CREDITED"}}

FiatOf(S)   == SumFunction([t \in S |-> Payment[t].fiat])
AmountOf(S) == SumFunction([t \in S |-> Payment[t].amount])

\* allocationBalance, of an asset and of the order.
CreditedFiat(st, a) == FiatOf(Credited(st, a))
TotalCredited(st)   == FiatOf(UNION {Credited(st, a) : a \in Assets})

Confirmed(rows) == {n \in DOMAIN rows : rows[n].status = "CONFIRMED"}

\* ledgerAtomicBalance: journaled transfers less the outgoing movements, which
\* the confirmation of a sweep writes.
SweptAmount(rows) == SumFunction([n \in Confirmed(rows) |-> rows[n].plan.amount])
LedgerBalance(st, a, rows) == AmountOf(Journaled(st, a)) - SweptAmount(rows)

NewSweep(reason, credited) ==
  [reason |-> reason, trigger |-> credited, status |-> "QUEUED", plan |-> NoPlan,
   sentAt |-> "NONE", owner |-> Nobody, leased |-> FALSE, case |-> "NONE"]

\* The credit of the asset that no earlier sweep was triggered by.
Unswept(st, a, rows) ==
  CreditedFiat(st, a) - (IF rows = <<>> THEN 0 ELSE rows[Len(rows)].trigger)

\* The reserve the sweep before left in the wallet is not swept again.
Retained(a, rows) == IF a = "GRAM" /\ rows # <<>> THEN Reserve ELSE 0

PreviousIsSent(rows) ==
  rows = <<>> \/ rows[Len(rows)].status \in {"SENT", "CONFIRMED"}
PreviousIsConfirmed(rows) == rows = <<>> \/ rows[Len(rows)].status = "CONFIRMED"

Reason(st, status, a, rows) ==
  CASE status = "PAID" -> "TERMINAL_PAID"
    [] status # "PAID" /\ Len(rows) >= MaxSweeps - 1 -> "NONE"
    [] OTHER ->
         IF TotalCredited(st) * 10000 >= Obligation * TriggerBps
         THEN "INTERMEDIATE_RATIO"
         ELSE IF Unswept(st, a, rows) >= MinFiat /\ MinFiat > 0
         THEN "INTERMEDIATE_VALUE" ELSE "NONE"

Due(st, status, a, rows) ==
  /\ status # "RECOVERY"
  /\ PreviousIsConfirmed(rows)
  /\ LedgerBalance(st, a, rows) > Retained(a, rows)
  /\ Unswept(st, a, rows) > 0
  /\ Len(rows) < MaxSweeps
  /\ Reason(st, status, a, rows) # "NONE"

\* reconcileAutomaticAssetSweeps: the jobs after it.
Reconciled(st, status, jobs) ==
  [a \in Assets |->
     IF Due(st, status, a, jobs[a])
     THEN Append(jobs[a], NewSweep(Reason(st, status, a, jobs[a]), CreditedFiat(st, a)))
     ELSE jobs[a]]
-----------------------------------------------------------------------------
\* Credits in GRAM alone earn the discount; the ledger may find so only later.
PaysInFull(st) == TotalCredited(st) >= Obligation
PaysDiscounted(st) ==
  /\ Credited(st, "USDT") = {}
  /\ TotalCredited(st) >= Obligation - GramDiscount

Arrive(t) ==
  /\ stage[t] = "ABSENT"
  /\ stage' = [stage EXCEPT ![t] = "ARRIVED"]
  /\ UNCHANGED <<order, sweeps>>

\* recordObserved.
Journal(t) ==
  /\ stage[t] = "ARRIVED"
  /\ stage' = [stage EXCEPT ![t] = "JOURNALED"]
  /\ UNCHANGED <<order, sweeps>>

\* creditMovement on an order that is still open.
Credit(t) ==
  /\ stage[t] = "JOURNALED"
  /\ order \in {"PENDING", "PARTIAL"}
  /\ stage' = [stage EXCEPT ![t] = "CREDITED"]
  /\ \/ order' = "PAID" /\ (PaysInFull(stage') \/ PaysDiscounted(stage'))
     \/ order' = "PARTIAL" /\ ~PaysInFull(stage')
  /\ sweeps' = Reconciled(stage', order', sweeps)

\* creditMovement on a credited movement: the replay grants the discount.
GrantDiscount ==
  /\ order = "PARTIAL"
  /\ PaysDiscounted(stage)
  /\ \A t \in Transfers : stage[t] # "JOURNALED"
  /\ order' = "PAID"
  /\ sweeps' = Reconciled(stage, order', sweeps)
  /\ UNCHANGED stage

\* creditMovement with forceRecovery: the transfer is late, out of order, after
\* the order was paid or to another wallet.  The planner is not called.
CreditToRecovery(t) ==
  /\ stage[t] = "JOURNALED"
  /\ stage' = [stage EXCEPT ![t] = "CREDITED"]
  /\ order' = "RECOVERY"
  /\ UNCHANGED sweeps

\* The USDT worker, as far as the planner sees it: a queued job is confirmed
\* for what the jetton wallet holds.
ConfirmUsdt ==
  LET rows == sweeps["USDT"]
      n    == Len(rows)
      left == AmountOf({t \in Of("USDT") : stage[t] # "ABSENT"}) - SweptAmount(rows)
      done == [sweeps EXCEPT !["USDT"][n] =
                 [@ EXCEPT !.status = "CONFIRMED", !.plan = [amount |-> left, seqno |-> 0]]]
  IN  /\ rows # <<>> /\ rows[n].status = "QUEUED"
      /\ sweeps' = Reconciled(stage, order, done)
      /\ UNCHANGED <<stage, order>>

Ledger ==
  \/ \E t \in Transfers : Arrive(t) \/ Journal(t) \/ Credit(t) \/ CreditToRecovery(t)
  \/ GrantDiscount

LedgerInit ==
  /\ stage = [t \in Transfers |-> "ABSENT"]
  /\ order = "PENDING"
  /\ sweeps = [a \in Assets |-> <<>>]
=============================================================================
