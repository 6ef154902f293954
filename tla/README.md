# A TLA+ verification of tonhub-payments

tonhub-payments accepts GRAM (the TON native coin) and USDT for orders priced
in fiat. An order is paid through payment attempts (invoices), each with a
deposit wallet of its own; scanners journal what reaches the wallets, a ledger
values and credits it, sweepers empty the wallets and webhooks tell the
merchant. All state is in PostgreSQL, written by an API process and by several
kinds of worker that run concurrently and crash independently.

This directory holds TLA+ modules translated from that code, TLC configurations
that check them on small instances, and proofs of what matters most for every
instance.

## Inventory

| Part | Code | State | Operations | What makes it correct |
|---|---|---|---|---|
| Movement ledger | `backend/src/movement-ledger.ts`, guards in `prisma/migrations` | movements, allocations, adjustments, order and invoice accounting, recovery cases | `recordObserved`, `recordRejected`, `creditMovement`, `reverseAllocation` | books balance; one credit per movement at an immutable value; one GRAM rate per order; paid means covered; nothing set aside is forgotten |
| Orders and attempts | `backend/src/repository.ts` | order and invoice status, selected rail | `createPendingInvoice`, `selectInvoicePaymentAsset`, `markInvoiceExpired`, legacy `markInvoicePartial` / `markInvoicePaid` | one active attempt; a paid order asks for nothing; the rail is frozen by the first movement |
| Settlement worker | `backend/src/mixed-settlement.ts`, `worker/src/mixed-settlement.ts` | next attempt time per deposit | list, claim, credit each, refresh, expire | every eligible movement is taken up, whatever fails on other deposits; no expiry while something is pending |
| Scanners | `worker/src/gram-shadow.ts`, `worker/src/mainnet-usdt.ts` | cursor and lease per deposit and asset | claim, fetch, journal, renew, complete, fail | no transfer is skipped, whatever crashes and however leases pass on |
| Settlement horizon | `movement-ledger.ts` with the cursors | `scannedThroughAt`, `leaseExpiresAt` | `mainnetScannerHorizonReady` | no credit before both scanners have passed the transfer |
| Rates | `backend/src/rate-snapshots.ts`, `worker/src/rate-worker.ts` | append-only snapshots, a cache | refresh, record, derive, look up at a time | a payment is valued at a rate of its time, a derived rate comes from observations of one time |
| Sweep planner | `backend/src/automatic-sweeps.ts` | sweep jobs | plan after a credit | the cap is kept, the paid sweep takes the rest |
| Native sweeps | `worker/src/sweep.ts` | job status, seqno | lease, prepare, broadcast, confirm, retry | no job moves coins twice; no job or credit is left lying |
| USDT sweeps | `worker/src/mainnet-usdt-sweep.ts` | job status, top-up, query id, two leases | top up, send, repair the reserve, confirm, retry | as above, over two messages; the deposit keeps its reserve |
| Webhooks | `worker/src/webhooks.ts`, triggers | outbox events, delivery attempts | enqueue, claim, deliver, fail | at least once, final once delivered |
| Admin console | `backend/src/admin` | cases, refunds, audit | attach, review, retry, register | the ledger stays the authority |
| Checkout API, legacy GRAM path | `backend/src/payments.ts`, `gram-ledger-source.ts`, `repository.ts` | legacy amount fields | create, check, settle | one active attempt, an order that agrees with its attempts and no undeserved expiry, with both state machines side by side |
| Frontend widget | `frontend/src/TonhubPaymentWidget.tsx` | the invoice presented, `localStorage`, requests in progress | restore, create, poll, check, reset | what is shown is remembered; nothing new is asked for while a payment is open |
| USDT canary, addresses, config, scripts | `mainnet-usdt-canary.ts`, `ton/`, `config.ts`, `scripts/` | none of their own | pure functions and I/O | not modelled |

Parts interact through rows only: a scanner's `recordObserved` makes a movement
that the settlement worker finds by status; `creditMovement` writes the invoice,
whose trigger enqueues a webhook event, and plans sweep jobs that the sweep
workers pick up. The hard behaviours are the ones between these processes:
transfers discovered out of order, overlapping settlement of one movement, a
checkout that reads the order and writes it later, expiry against a late
credit, rates that arrive after the transfers they value, leases that expire
under a process that is still running, requests that settle an attempt while others
attach, expire or supersede it, answers that reach a page out of order. `PROJECT.json` lists them as hazards, each
at its line, with the properties that watch it.

## Modules

`PaymentState` declares the rows of one order and the environment that changes
the world around it. Every ledger transaction takes the order row `FOR UPDATE`
first, so orders do not interact, and one order is the whole state space.

| Variable | Row or thing |
|---|---|
| `now`, `chain`, `snapshots` | the clock; the transfers on the blockchain, in logical-time order; the stored rate snapshots by asset and time |
| `movements`, `allocations`, `adjustments`, `cases` | the ledger's tables |
| `order`, `invoices` | the order row and its attempts; status `ABSENT` is an attempt not created yet |
| `cursors` | the scan cursors `HorizonReady` reads |
| `overdue` | the attempts that a caller of `markInvoiceExpired` has found past their deadline, by a read of its own |
| `checkout`, `expiry` | the local state of a `createPendingInvoice` or `markInvoiceExpired` call that is between its reads and its writes |

`MovementLedger` has one action per operation of `movement-ledger.ts`, and one
per outcome of `creditMovement`, in the order the code decides:

| Code | Action |
|---|---|
| `recordObserved`, `recordRejected` | `RecordObserved`, `RecordRejected` |
| `creditMovement` of a credited movement | `CreditReplay` |
| `blocked-earlier-movement`, `awaiting-scan-horizon` | `Defer` |
| `recovery` (rate lock younger than the transfer) | `RecoverRateLock` |
| `rate-pending` | `AwaitRate` |
| `held-under-minimum` (rounds to nothing / below the threshold) | `HoldDust`, `HoldUnderMinimum` |
| `credited`, with `forceRecovery` or without | `CreditGroup` |
| `reverseAllocation` | `ReverseAllocation` |

An error the code throws, or a trigger that raises, rolls the transaction back:
it is an outcome that is not enabled. The guards that can refuse what the code
has decided (`KeepsEvidence`, `KeepsGramRate`, the allocation's own check) are
conjuncts of `CreditsAllowed`; triggers that only repeat a check the code has
just made under the same lock are left out.

`OrderAttempts` has the checkout's operations. `createPendingInvoice` and
`markInvoiceExpired` read the order without a lock and write it later in the same
READ COMMITTED transaction, so each is two actions, and the ledger may commit in
between. (`upsert` with `update: {}` writes nothing and so takes no lock that would
help.) `selectInvoicePaymentAsset` re-checks everything in the `WHERE` clause of its
only update and is one action. `settleInvoice` checks the deadline on an earlier read than
`markInvoiceExpired`, which re-reads the status only, so that is an action as well
(`FindOverdue`). `FinishExpiry` needs `Undisturbed`: the update of the
invoice row in the first half holds that row's lock until the commit, so a ledger
transaction that writes the same row excludes it; what the ledger does to *other*
attempts of the order is not excluded.

`PaymentOrder` composes the two with the environment, defines the properties, and
states the fairness. `MCPaymentOrder` gives the constants small values.
`PaymentOrderProofs` holds the theorems, as `WebhookOutboxProofs`, `ScannersProofs`, `NativeSweepProofs`,
`UsdtSweepProofs`, `CheckoutProofs` and `SettlementBatchProofs` do of the modules they are named for;
`SumTheorems` has the lemmas about sums and least numbers they rest on. The theorems about `Widget` are in
`CheckoutProofs` as well.

### Webhook outbox

`WebhookOutbox` models `worker/src/webhooks.ts` and the triggers of migration
`20260813107000`. `EventDelivery` is what it promises: an enqueued event is accepted by
the merchant and then closed, both for good. `WebhookOutbox` shows that it implements it,
with `accepted` read as the events of the accepted requests and `closed` as the rows
that are `DELIVERED`.

| Variable | Row or thing |
|---|---|
| `outbox` | `TonhubOutboxEvent` rows: status, attempts, `availableAt`, lease |
| `journal` | `TonhubWebhookDeliveryAttempt`: per event the statuses of its attempts |
| `worker` | the rest of a worker's batch, the attempt it holds, the clock reading its lease runs from |
| `inflight`, `accepted` | requests under way to the merchant; those it has answered with 2xx |

`deliverWebhookEvent` is the sequence `ReadClock`, `Claim`, then one of `Delivered`, `Refused`
and `NoAnswer`, and after the last two `Failed`. Every fence that can turn an update into
a count of 0 has an action for that outcome (`ClaimedByOther`, `LostLease`,
`FailedLostLease`), and every transaction one for its failure (`ClaimThrows`, `DeliveredThrows`,
`FailedThrows`). The merchant acts on its own copy of a request, at any time while
that is under way. `runWebhookBatch` takes the events of a batch one after the other. A
crash drops the worker's state only; `Stall` lets it run past its lease; `AdminRetry` is
the operator's button. Left out: the payload, the signature and the endpoint check;
ties in `availableAt` are taken in any order; jitter is a set of delays; the two triggers
are the one action `Enqueue`.

### Scanners

`Scanners` models the GRAM and the mainnet USDT scanner of one deposit and the part of
`creditMovement` that waits for them.

| Variable | Row or thing |
|---|---|
| `chain`, `visible` | the deposit's incoming transfers in logical-time order; those the provider shows by now |
| `cursor` | `TonhubScanCursor` per stream: lease owner and expiry, `scannedThroughAt`, last transaction |
| `scanPriorityAt` | of the invoice, when GRAM is due; USDT keeps that in `leaseExpiresAt` |
| `journal`, `settled` | transfers with a movement row; transfers that `creditMovement` has decided |
| `worker` | a batch's local state: phase, clock reading, page, what it has found and still has to journal |

| Code | Action |
|---|---|
| `claimDueTargets`: listing / lease | `Start` / `Claim` |
| `renewLease` | `RenewLease` |
| one page of `scanTarget`, of `observeDeposit` | `FetchGram`, `FetchUsdt` |
| `recordObserved` with its lease check | `Record` |
| `completeScan`, `failScan` | `Complete`, `FailScan` |
| a lost lease, the horizon trigger, the page cap | `Refused` |
| `creditMovement`'s order and horizon | `Settle` |

The two differ in ways that matter: GRAM walks newest first to the transaction it
knows, journals only when it has got there, and keeps its due time on the
invoice; USDT walks oldest first from `Overlap` behind its cursor and journals page
by page. GRAM reads the cursor again after the claim, USDT uses the one it has
listed. A batch has a random identity, so the one of a dead process never comes
back (`Gone`). A provider shows a wallet's own transactions in their order and jetton
transfers in any, each within `Lag`; `ScannerAssumption` says that the deployment
has to keep `Lag < Horizon` and `Lag <= Overlap`. Left out: rejected transfers, the lower
bound `createdAt`, outgoing transactions, terminal invoices' monitoring period,
notification matching (a failure of it is `Throws`), the choice among deposits.

### Sweeps

`AutomaticSweeps` is the planner, `reconcileAutomaticAssetSweeps`: a function of the rows it
reads under the order's lock, called in the transactions of `creditMovement` and of a
sweep's confirmation. `NativeSweep` has the workers of `worker/src/sweep.ts` that run
the GRAM jobs.

| Variable | Row or thing |
|---|---|
| `stage`, `order` | how far each transfer has come (on the chain, journaled, credited); the order's status |
| `sweeps` | the automatic `TonhubAssetSweep` rows per asset, by sequence: trigger, status, transfer plan, `sentAt`, lease, recovery case |
| `wallet`, `pending`, `sent` | the wallet contract's seqno; broadcast messages no block contains yet; the outgoing transfers on the blockchain |
| `signing` | the `TON_WALLET_OUT` cursor that workers lease to sign for the wallet |
| `worker` | the local state of a `sweepTonDepositAddress` call: the next await, the plan it has claimed or makes |

| Code | Action |
|---|---|
| `listSweepCandidates`, `claimSweepCandidate` | `List`, `Claim` |
| `prismaTonWalletSigningLease` | `Acquire`, `Release` |
| `findSweepTransfer`, the seqno of a plan that is not found | `Find`, `SeqnoPassed` |
| `getBalance`, `getWalletSeqno`, `markSweepReady` | `ReadBalance`, `ReadSeqno`, `MarkReady` |
| `sendSweepTransfer`, `markSweepSent` | `Send` or `SendFails`, `MarkSent` |
| `markSweepConfirmed` with the planner's call | `Confirm` |
| `deferAssetSweep`, `markSweepFailed`, the catch block | `Defer`, `Short`, `Fail` |
| the admin console's `retrySweep` | `AdminRetry` |
| the wallet contract, the USDT worker on the same wallet | `Execute`, `UsdtSweep` |

Every await is a step, so a call that is held up goes on with what it has read. The
update that persists the plan names the lease owner, a random identity that no later
call has (`Gone` stands for one whose call is over). Leases have no length: one may
end at any moment, but that of a call in progress only after `Slow`, which counts as a
fault. `sentAt` is `EARLY` or `LATE`, as that is all `Matches` asks of it. What the ledger does
with a transfer is `PaymentOrder`'s subject; here a credit comes with a status that the
credits allow. The action `UsdtSweep` is the whole USDT sweep in one step; its lifecycle is
the module of that name. Left out: the worker's
second lane, for deposits without a job; seqno and balance are read correctly (the
index that `Find` uses may lag); fees, which come out of the reserve; credits of one
asset on several deposits, reversals, expired orders, sweeps from before the migration.

### USDT sweeps

`UsdtSweep` models `processMainnetUsdtSweep` of `worker/src/mainnet-usdt-sweep.ts`, whose jobs
move their jettons with one message of the deposit wallet, after a top-up with TON
from the gas service and before a repair of the deposit's reserve where those are
needed. `SweepPromise` is what it promises of a job, and `UsdtSweep` shows that it implements
that, with `moves` read as the job's transfers on the blockchain and `outcome` as the
status of its row.

| Variable | Row or thing |
|---|---|
| `row` | `TonhubAssetSweep`: status, amount, the planned seqnos of transfer, top-up and repair, `gasServicePlanKey`, `sentAt`, attempts, lease, recovery case |
| `usdt`, `ton`, `transit` | a deposit's jettons and TON, and TON on its way there |
| `wallet`, `service`, `pending`, `sent` | the seqnos of the deposit wallets and of the gas service, messages no block contains yet, the jetton transfers on the blockchain |
| `signing`, `gas` | the leases to sign for a deposit wallet and for the gas service |
| `worker` | a call: the next step, the row as it last read or wrote it, whether it is slow |

| Code | Action |
|---|---|
| `listCandidates`, `claim`; `queueForDeposit`, `retryFailed` and the console's buttons | `Claim`; `Queue`, `RetryFailed` |
| `findJettonSweep`, the grace period | `Find` |
| `repairConfirmedReserve` | `RepairLease`, `RepairPlan`, `Repair`, `SendTopUp`, `Repaired` |
| `confirmSweep` with the next job | `Confirm` |
| `sendPlannedJetton` | `Ready`, `Send`, `MarkSent`, `Release` |
| `sendPlannedTopup` | `GasReady`, `GasSend`, `SendTopUp`, `GasSent` |
| `advanceSweep` by status | `CheckTopup`, `Balances`, `GasLease`, `GasPlan`, `GasCheck`, `Lease`, `Plan` |
| the catch block, `defer`, `fail` | `Catch`, `Defer`, `Fail` |
| wallet contracts, network, payers, the treasury, a native sweep of the deposit | `Transferred`, `ToppedUp`, `Deliver`, `Pay`, `TreasuryTransfer`, `NativeSweep` |

A transition names the lease owner and the statuses it may leave, so a call that has
lost its job ends in `Catch`. The cost of a transfer is any part of the wallet's TON:
that is why the reserve may need repair. Confirmation polls are counted by
`attempts`, which stops at `MaxAttempts`; the grace period is over when the call chooses
so. Left out: assertions on addresses and key material, the sums behind
`gasTargetNano`, the error texts.

### Checkout without a ledger policy

Attempts with an activation threshold are settled by the ledger (`PaymentOrder`);
attempts without one by the request that asks for them, from the provider's matches or
from the ledger's, by `gramSettlementMode`. `Checkout` models these requests (`payments.ts`,
`gram-ledger-source.ts`) with the repository's transactions for them, while instances
in different modes and of the release before are running.

| Variable | Row or thing |
|---|---|
| `chain`, `journal` | when a transfer was made; the transfers that are movements |
| `order`, `attempt` | the order's row; the attempts' rows, which may belong to no order yet |
| `call` | a request: the attempt, the row it has read, what it has decided, whether the row still has the version it read; in a transaction also what it has read of the order and of other attempts, and the order it is about to write |
| `late` | whether the provider has left out a transfer |
| `lost`, `overtaken` | whether a transaction has lost an attachment; whether the order's row was written from reads that others had overtaken, and has not been recomputed since |

| Code | Action |
|---|---|
| `createTonhubPaymentInvoice`, `findReusableInvoice` | `Create` (finds the loose attempt), `Find` |
| `createPendingInvoice` | `Insert`, `InsertFails` |
| `checkTonhubPaymentInvoice`, `settleTonhubInvoice` up to its decision | `Check`, `Settle` (`Decision`) |
| `markInvoicePaid`, `markInvoicePartial`, `markInvoiceExpired` | `Begin`, `TakeMarked` (`Marked`: `Written` or `Recovered`), `Commit` |
| `ensureInvoiceOrder` | `Join` (the order), `Meet` (`conflictingAttempt`), `TakeJoined` (`Joined`, `Ensured`) or `TakeNothing`, `Commit` |
| `syncOrderFromAttempts` | `Synced`, read in `TakeMarked`, written in `Commit` |
| an instance of the release before | `OldInsert`, `OldSettle` |

Transactions run at READ COMMITTED and read without locks. The row that was found, the
order, the active attempt and the credits are read in steps of their own, and the
order's row, which is written by its id alone, in another (`Commit`); others commit
between any two of them. `alone` says whether a transaction's reads of the order still
stand, `fresh` whether the row's version does. What is not visible before the commit is
not split further: a transaction's own row changes appear in `Commit`, where it holds
their locks. Two that write the same attempt, or two active ones of an order,
exclude each other: whoever commits first has written first, and the other one is put
back to where it meets the rows as they are then (`Conflicts`, `OutdatedCall`). When an
attempt has joined, the order's row is locked until the commit, and what is then marked
is recomputed from what is there. Left out: the deposit address's status, rounding to
payment units, the provider's page limit, quotes, and `createdAt` before the insert.

### Settlement worker and rates

`Rates` is the rate worker (`rates.ts`, `rate-snapshots.ts`, `worker/src/rate-worker.ts`) and the lookup
`findAt`; `SettlementBatch` extends it by the settlement workers of `worker/src/mixed-settlement.ts`.

| Variable | Row or thing |
|---|---|
| `snapshots`, `cache`, `refresh` | `TonhubRateSnapshot`; the worker's cache; the refresh under way with the answers it has |
| `movements` | status, time, rate used, and ticks since the row was updated |
| `wait` | `settlementNextAttemptAt` of each deposit, in ticks from now |
| `attempts`, `workers` | the status of a deposit's attempt; a worker's list, and the movements it still has to settle |

| Code | Action |
|---|---|
| `refreshPaymentRateSnapshots` | `Refresh`, `Fetched`, `RecordGram`, `RecordPegs`, or `RefreshFails` |
| the batch's query / claim of a deposit | `Batch` / `Claim` |
| `settleInvoice`: one `creditMovement` each | `SettleNext` (`Decide`: `Postpone`, `Hold`, `Credit`) |
| its refresh and expiry, the deposit's next attempt | `Finish` |
| a transaction that throws, a process that dies | `Throws`, `Crash` |

Here `creditMovement` is reduced to whether it decides, and at which rate; what it books is
`MovementLedger`'s. Prices are left out: a snapshot is its asset, quote, time and the
times of the observations it was derived from. Every order is in EUR, the currency
whose USDT rate is derived, and USDT/USD, a constant, is left out. The clock stops at `MaxTime`, after which waits still run,
as ticks. Left out: the scanners' horizon (`Scanners`) and the `/check` path of the batch.

### Widget

`Widget` is `TonhubPaymentWidget.tsx` with `invoice-resume.ts`, the service's answers, and a page
that embeds it as README.md:590-609 asks.

| Variable | Thing |
|---|---|
| `server` | the status of each invoice in the service |
| `stored`, `host` | `localStorage`; the invoice last reported to the embedding page |
| `page`, `invoice`, `notified`, `paid` | the widget's state; the last one reported; the calls of `onPaid` |
| `calls` | requests in progress and their answers, which arrive in any order |
| `uses` | what the page passes: `initialInvoiceId`, `resumeStorageKey` or both |
| `open`, `stray` | the invoices this buyer was last shown as payable; whether an answer for an invoice no longer presented was presented |

| Code | Action |
|---|---|
| configuration, restoring a saved payment, "Retry saved payment" | `ConfigLoaded`, `Restored`, `Retry` |
| `createInvoice` | `Create`, `Created` |
| the poll, "Check payment" | `Poll`, `CheckPayment`, `Checked` |
| `resetInvoice` | `ResetInvoice` |
| a page load, in this or another browser | `Load` |
| the service | `Settle`, `ServeResume`, `ServeCheck`, `ServeCreate`, `Refuse`, `Lose` |

Another browser has only the link, not the storage. A configuration that fails to
load leaves the page locked until it is loaded again, which is `Load`. `CANCELLED` and `FAILED` are
shown and handled as `EXPIRED`. A transfer found late may revive an expired attempt (`Later`), in the
service though not on the page. Left out: rendering, notices, the `finalized` flag of an
unpaid attempt, an operator's reversal of a payment the page has shown, several tabs on one storage,
and the TON Connect button.

### Abstractions of the order's modules

- Money is a natural number; `PriceScale = 2` keeps the rounding that matters (an
  amount that is worth nothing, a rate that doubles). Amounts in the code are
  unbounded `BigInt`s and decimal strings, so there is no width to model.
- A rate snapshot is the time it was observed at; a lookup takes the latest one
  that is not younger than the transfer and not older than `MaxRateAge`.
- `PartialTtl` is one constant: both callers pass the configured value, and
  `reverseAllocation`'s own 24 hours is that value's default.
- `validationCode` is the scanner's or an operator's; the text is left out.
- `CANCELLED` and `FAILED` orders are kept in the guards, but no modelled operation
  produces them.
- Formatting, amounts in the deposit's own unit, observed-payment lists and the
  sweep planner's call are left out of `SyncedInvoice` and `CreditGroup`: they are
  derived data that no decision modelled here reads.

## Runs

The runs of the order use `MCPaymentOrder`, an order that costs `Obligation`, a threshold and a
discount strictly between 0 and it, so that every comparison has both outcomes.
All set `CHECK_DEADLOCK FALSE`, because a run may use up its clock and its
transfers and then has nothing left to do.

| Run | Bounds | Shows |
|---|---|---|
| `OneAttempt` | one attempt, three transfers in two assets, the second one possibly rejected, the first one possibly reversed, asset selection, attach under the operator's code, clock 0..2 | `TypeOK`, `AccountingBacked`, `PaidIsCovered`, `DiscountIsEarned`, `SetAsideIsListed`, `CreditsFollowChain`, `SettlementIsFinal`: late discovery, dust, held groups, discount and its loss, overpayment, operators |
| `TwoAttempts` | two attempts, three transfers, clock 0..2, transfers to both wallets | `SingleGramRate`, `OneActiveAttempt`, `CreditsMatchEvidence` |
| `UsdtProgress` | three USDT transfers, the third one rejected, clock 0..1, rates that may be stale | `EveryTransferSurfaces`, under fairness |
| `ExpiryOverwrites` | two attempts, two transfers, clock 0..2 | a violation of `AccountingBacked`, see below |
| `Outbox` | one event, two workers, three crashes, stalls, refusals or failures, fairness | `TypeOK`, `OutcomeMatchesJournal`, `LeaseCoversDelivery`, `RepeatsAreCaused`, and `AtLeastOnce`: the outbox implements `EventDelivery` |
| `GramScans` | two GRAM scanners, two transfers, pages of one, a cap of three pages, one fault before time 2, clock to 4, fairness | `NothingSkipped`, `EveryTransferPasses` |
| `BothStreams` | a scanner of each asset, two transfers, pages of one, a cap of two pages, settlement, no faults, clock to 4 | `TypeOK`, `HorizonSound`, `SettledInOrder` |
| `NativeSweeps` | two sweep workers, two GRAM transfers and a USDT one, a cap of two sweeps, one fault, retries, fairness | `TypeOK`, `SweptOnce`, `PlannedFirst`, `ReserveKept`, `PaidOrderIsSwept`, `JobsAdvance` |
| `UsdtSweeps` | two workers, three jobs of two deposits, target 2, reserve 1, one disturbance of any kind, fairness | `TypeOK`, `PlannedFirst`, `ReserveIsRestored`, and `KeepsPromise`: the lifecycle implements `SweepPromise` |
| `CheckoutRaces` | two requests at a time, on instances in `compare` and in `ledger` mode, two attempts, three transfers, clock 0..2, one late answer, abandoned request or attempt of the release before, which runs until 1 | `OneAttemptIsActive`, `OrderMatchesAttempts`, `PaidOrderIsPaid`, `ExpiryIsDeserved` |
| `CheckoutPage` | two invoices, three loads of the page, two requests in progress, one lost or refused, fairness | `ShownIsKnown`, `CreatesWhenDone`, `PaidIsAnnounced` |
| `SettlementTurns` | one settlement worker with batches of one, a deposit that always fails before one with three payments, one rate worker, clock 0..1 and the waits after it, one fault, fairness | `RatesAreOfTheirTime`, `DepositsAreServed` |

Three transfers are enough for the ledger's longest chain of causes (one held, one
that activates it, one that is late or earlier than both), two attempts for every
conflict between attempts, and three clock values for a rate, a transfer and a
deadline to be in any order. Together the passing runs take every action and
every outcome of `creditMovement`.

The first four rows instantiate `MCPaymentOrder`, the others the MC module of their
component. For the outbox, one event shows every race, as workers share nothing else, and
three faults let one attempt be abandoned, taken over and answered late; batches of
several events are left to the proofs, which cover any number of both.
For the scanners, two transfers with pages of one are the least for which a page
boundary falls between two transfers and the cursor is on either; two scanners for
every takeover; the clock lasts for a scan, an expired lease and the scan after it.
`BothStreams` has no faults because its question is how the cursors of two assets
combine, and the proofs cover the rest; with its cap of two pages a backlog can
exceed what a scan may read.
For the sweeps, two GRAM transfers make a first sweep of one and a last one of the rest, or
one of both, and the USDT transfer decides which threshold is met and whether the
discount applies; one fault is enough for a crash, a lost lease, a lagging index or a
failed broadcast at any await, after which the second worker and the operator's retry
meet what is left. The proofs cover any number of faults and workers.

For the USDT sweeps, a job that the planner has queued, one an operator queues for the
same deposit and one for another deposit make every conflict: over a deposit, over its wallet
and over the gas service. A target one above the reserve makes the top-up and the
repair differ, and a second attempt is the last. One disturbance is a crash, fault,
slow call, stale answer, payment, foreign transfer or operator at any step of the
interleaved calls; what needs two of them is not covered.
For the checkout, two attempts are the least for a rival, and three transfers pay the
first one in two parts and the second one with what only the legacy matcher takes;
three clock values separate the price lock, the partial window and what comes after.
`compare` and `ledger` are the two modes side by side at the cutover (README.md:173-178); `compare`
settles as `legacy` does, and also journals. `Rollout` ends the old instances a unit before the clock,
so that they settle what they inserted at 0 in and after the price lock, and new ones also do so
without them; the proofs have no such limit, on the modes either.
For the page, two invoices are an old and a new one, and two requests one from before and one from
now, or a poll and a press that overtake each other; the first load opens a payment, the second restores it or
fails to, and the third comes after whatever followed. The proofs cover more of each.
For settlement, batches of one make the failing deposit take the turn of the other;
GRAM, USDT, GRAM is the least in which a rate is kept over another asset; a `MaxAge`
of 0 lets a rate expire within the clock's range and a cache of 2 outlives it.
`MaxLag` is an assumption on the deployment, that a batch starts at most so many ticks
after the one before; without it no deposit's turn could be promised.

Each property has a mutant in `PROJECT.json`: a plausible bug in one definition
(`OutOfOrderIgnored`, `EarnsDiscountAnyAsset`, `HeldOfOrder`, ...), kept next to
the definition it replaces, under which the run fails.

### Disagreements found

One run expects a violation, a trace on which the code does something its
documentation denies:

- `ExpiryOverwrites` (`AccountingBacked`): `markInvoiceExpired` of one attempt sums the
  attempts' credits, the ledger credits a late transfer to another attempt and
  commits, and the expiry then writes its stale sum and status. From then on
  `assertOrderAccountingBaseline` throws for every movement of the order.

The others were met while modelling. The models have this behaviour, and
the properties say where they stop short of it. In the ledger and the checkout:

- `createPendingInvoice` (`backend/src/repository.ts:713`) sees an expired order and an expired
  attempt; a transfer that was in time revives and pays the order; the guarded
  `updateMany` matches nothing, its count is ignored, and a pending attempt is inserted
  for the paid order, against README.md:256-257. `TwoAttempts` therefore does not
  list `PaidOrderIsClosed`: with a single attempt it holds, which is proved (`PaidOrderIsClosedHolds`).
- A caller finds an attempt past its deadline (`backend/src/mixed-settlement.ts:222-231`), a transfer
  that was in time is credited and opens the partial window, and `markInvoiceExpired`, which looks
  at the status only (`repository.ts:918`), ends the window at once, where README.md:211-212 has it last
  its time. No property denies this one: the order goes to RECOVERY, with its books
  balanced.
- A GRAM transfer discovered before a held one lowers or raises the group's rate
  (`movement-ledger.ts:1640`); the movement guard refuses the new rate of the held one, so the
  transaction aborts each time it is tried.
- A movement set aside with `OUT_OF_ORDER_RATE_LOCK` keeps the status `RECOVERY`, which counts
  as unresolved (`movement-ledger.ts:1427`), so all later movements of the order wait for it.
  `EveryTransferSurfaces` is therefore checked for USDT.
- The README (README.md:550-552) denies the GRAM discount to an attempt first selected as
  USDT, while `applyEligibleGramOnlyDiscount` and its latest migration look at the
  credited assets only, which is what `EarnsDiscount` says.
- Two transactions have both read an attempt as belonging to no order. The one
  that loses the attachment (`attached.count` is 0) goes on if it prefers its attempt, and
  writes the order from what it has read, although the comment at `repository.ts:365-367`
  lets only the winner do so (`lost`). `PaidOrderIsPaid` is stated up to such a loss: the
  attachment writes the status that was read (`repository.ts:382`), so the winner may put an attempt back
  to PENDING that an instance of the release before has settled since, and the loser, which has
  read that, makes the order PAID.
- `ensureInvoiceOrder` reads the order and the credits (`repository.ts:482-483`) and writes the order by its
  id (`repository.ts:495-503`); `syncOrderFromAttempts` does the same (`repository.ts:272-291`). A create request
  that attaches an unpaid attempt has read the order as PENDING, a `/check` request pays
  another attempt and commits the order as PAID, and the create then writes PENDING,
  no credit and no `paidAt`. The order stays so until another transaction recomputes
  it. `OrderMatchesAttempts` is stated up to that (`overtaken`); without the exception TLC finds
  this trace. `PaidOrderIsPaid` and `OneAttemptIsActive` hold in spite of it. `ExpiryOverwrites` is the
  same kind of write against the ledger.

In the sweeps:

- README.md:332-334 says that failed automatic sweeps wait for an explicit retry;
  `listSweepCandidates` does skip them, but `claimSweepCandidate` reads the status again and
  resumes a `FAILED` job, so a worker that listed the job before it failed claims it
  once its retry delay is over (`Claim`).
- After a native broadcast, `sentAt` is the clock when the answer arrives, and `Matches`
  takes no block of an earlier second, so a transfer that was included before that is
  never found: the job stays `SENT`, and no later sweep of the asset is planned (`SentAt`;
  `JobsAdvance` therefore speaks of `EARLY` jobs).
- A USDT worker that dies between its broadcast and the status `SENT` leaves a `READY` job; the
  next call marks it with its own start as `sentAt` (`mainnet-usdt-sweep.ts:1028`), later than
  the transfer's block, which is then never found. The job fails and every retry
  fails, although its jettons have moved (`SentAt`; the promise of `SweepPromise` is kept, as
  the job is handed to an operator).
- README.md:523 says that native sweeps skip wallets with an active USDT lifecycle.
  Only the deposit-level lane checks that; the automatic GRAM jobs (`sweep.ts:608-708`) do not,
  so one may take the TON of a top-up or the planned seqno (`NativeSweep` in `UsdtSweep`).
- A top-up may be made twice, as the seqno of the gas service moves on before the TON
  arrives; a repair whose seqno was used by another transfer is not planned again,
  so that job fails; a `FAILED` job keeps its `gasServicePlanKey`, so no other job can plan a
  top-up for that seqno.

On the page: `checkInvoice` (`TonhubPaymentWidget.tsx:647-716`) presents whatever
answer arrives, whichever invoice is shown by then. One that arrives after a reset or
for the invoice before brings the old one back; storage and page then remember
that, and the open payment cannot be restored, against README.md:604-609. `CreatesWhenDone`
is stated up to such an answer (`stray`). A paid invoice may likewise be shown as
pending until the next poll, and `onPaid` be called more than once. An invoice that is shown as expired
is not polled any more (`TonhubPaymentWidget.tsx:585`), while the ledger revives its attempt when a
transfer that was made in time is found late: the form is open for a new payment, and `onPaid` is not called
unless the page is loaded again. `CreatesWhenDone` therefore is about what the buyer was *told*, and
`PaidIsAnnounced` about invoices that are not shown as expired.

`AccountingBacked` fails for two attempts only; `OneAttempt` shows that with one the
books stay balanced, expiry included.

### Fairness

Of the native sweeps, `JobsAdvance` assumes that each worker's calls go on (`WF` of `Sweep(w)`, a
`--watch` loop), that leases end, and nothing of payers, operators or the network. A sent
job counts only if its transfer is on the blockchain, as nothing but a confirmation
takes a job out of `SENT`. `UsdtSweep`'s `FairSpec` adds that the network takes what has been
broadcast and delivers the TON of a top-up. `SettlementBatch`'s has the clock and each settlement
worker's loop; nothing of the rate worker, whose rates may never come, of payers, or of a deposit on
which every transaction throws. `Widget`'s has the poll's timer and a service that
answers, though perhaps with an error.

`EveryTransferSurfaces` assumes `FairSpec`: the clock runs; scanners come back for what
they have not journaled (`WF` of `RecordObserved` and `RecordRejected`, each worker being
a `--watch` loop); the settlement worker takes up `OBSERVED` and `RATE_PENDING`
movements, and no others, which is `Settle`; the rate worker keeps polling; a
started transaction ends. Nothing is assumed of payers, checkouts or operators.
It is checked for USDT only: for GRAM, a movement that keeps the status `RECOVERY` stops
those behind it, as described above.

The outbox's `FairSpec` has the clock, each worker's `Deliver` (a `--watch` loop) and a
merchant that answers, one way or the other, the request that is waited for or
lets it time out; that it accepts at last follows from faults being bounded. The
scanners' has the clock, the provider's index and each scanner's loop. Crashes and
failures are bounded by `MaxFaults` and end by `QuietFrom`: with faults for ever nothing
could be promised. `EveryTransferPasses` is stated with page caps that suffice, as a
backlog over the cap stops a scan for good (README.md:69 says as much), and it
stops at the horizon: a lease may be live whenever settlement asks, so that
settlement itself happens is not promised.

## Proofs

TLAPS checks the following of the order for every value of the constants that satisfies
`StateAssumption`, `LedgerAssumption` and `CodesAssumption`: any number of transfers, attempts,
prices, times. Of the assumptions two are worth a word: the attempts are finitely many (only then is
there a sum over them), and the discount leaves something to pay, as the `CHECK` constraint
`TonhubPaymentQuote_amounts_check` has it (migration `20260814100000`, lines 62-66).

| Theorem | States |
|---|---|
| `JournalCorrect` | the journal is well typed and each movement's rate, fiat value, status and credits agree |
| `CreditsMatchEvidenceHolds` | one credit per movement, to its own attempt, for the floor of amount times a rate published by then |
| `EvidenceIsFinalHolds` | no step revises rate, fiat value, code or a final status |
| `SingleGramRateHolds` | all GRAM credits of an order have one rate |
| `SetAsideIsListedHolds` | a held, recovered or rejected movement has an open case |
| `AttemptRowsHold` | the attempts' rows are well typed, whatever interleaves |
| `OneActiveAttemptHolds` | at most one attempt is active |
| `SelectionIsFrozenHolds` | an attempt with a journaled movement keeps its asset |
| `CreditsFollowChainHolds` | a credit for a transfer that precedes a credited one leaves the order in recovery |
| `OrderIsWellTyped` | the whole state is well typed: no sum, split, overpayment or discount leaves the naturals |
| `DiscountIsEarnedHolds` | a discount is single, and the order was paid in GRAM alone, at least the discounted price |
| `PaidIsCoveredHolds` | a paid order is covered by its credits and discount, and dated by the transfer that first did |
| `AttemptsAreBacked` | an attempt's credit is what its transfers were credited and not reversed, capped |
| `OnlyExpiryUnbalancesHolds` | no step but the end of `markInvoiceExpired` takes the order's books out of balance |
| `OnlyExpiryReopensHolds` | no step but that takes an order out of recovery, or makes a paid one unpaid |
| `AccountingBackedHolds` | with one attempt, order, attempt, credits and discounts agree in every state |
| `PaidOrderIsClosedHolds` | with one attempt, a paid order has none to pay into |
| `SettlementIsFinalHolds` | with one attempt, recovery is never left and a paid order only turns to recovery |

The central invariant is `Journal == JournalTypeOK /\ Evidence /\ CreditsMatchEvidence`.
`CreditsMatchEvidence` alone is not inductive: that a credit's value stays the
movement's value needs that a held movement has a rate no younger than its transfer
and the value that rate gives, and that an unvalued one has neither, which is
`Evidence`. `CreditGroupEffect` states once what crediting a group does to the journal,
and the lemma of every other action says which of the three tables it leaves
alone. `SingleGramRate` rests on `OneGramRate` (two GRAM credits have equal rates) and on
`KeepsGramRate` for the first group, whose members share the rate of the earliest
among them. `SetAsideIsListed` rests on `Listed`: the case of a *held* movement that a
later group resolves belongs to a movement that is no longer held. `OneActiveAttempt`
rests on `AtMostOneActive`, with one case for an insert after an outdated check
(the unique index refuses it) and one for the ledger reviving an attempt (a
conflicting active attempt forces recovery, which makes nothing active). `Touches` and
`Alters` reduce the fifteen actions to those that write one row.

What is said about sums stands on these layers, each inductive given those before:

- `Typed`: the types, and that the tables are finite, so that their sums are naturals (`SumsType`).
  The step that needs thought is the split of a GRAM credit and its discount.
- `HeldAfterCredits`: what an attempt holds came after what was credited to it. Hence a group that
  is activated out of order is so as a whole, which is `CreditsFollowChain`.
- `Books`: a discount exists only with an order that is paid or in recovery (`Granted`), a paid order has a
  funded attempt (`Funded`), and an expiry under way that is going to call the order EXPIRED can no longer
  finish once there is a discount (`ExpirySound`). Without the last one the second half of an
  expiry would leave an expired order with a discount.
- `HeldSound`: what is held has the value its rate gives, stands beside no credit of its attempt that is
  worth anything, and, until a GRAM rate is locked, is in sum less than the minimum. So
  whichever transfer activates a group and pays the order is itself worth something, and the covering transfer
  that dates the order exists and is unique (`LatestPays`, `CoveredAt`).
- `AccountSoundHolds`: every transaction of the ledger ends with `syncOrderAccounting` of one attempt
  and the order (`LedgerSyncs`), so attempts are backed for any number of them.

The order's own books are another matter. With two attempts `AccountingBacked` and `PaidOrderIsClosed` are false: the
run `ExpiryOverwrites` and the trace described above show it. `OnlyExpiryUnbalancesHolds` and
`OnlyExpiryReopensHolds` say for any number of attempts that the overwriting expiry is the *only* cause. With one attempt
(`Invoices = {FirstInvoice}`, a checkout that is never renewed) the order reads what it has
just written, and `Sole` is inductive: what an expiry under way has read still agrees with the
attempt it locks.

For the outbox, `OutboxImplementsDelivery`, `OutcomeMatchesJournalHolds`, `DeliveredIsFinalHolds`,
`LeaseCoversDeliveryHolds` and `RepeatsAreCausedHolds` hold for any number of workers, events and faults. Their
invariant says of each event that it has one journal row per attempt, the last with
the row's outcome and the earlier ones never delivered (`RowsSound`); of each worker that
was not stalled that it is within `MaxDelay` of the clock reading its lease runs from and
still holds the row it is sending (`Leases`); and that only events that exist are on
their way (`RequestsKnown`). `RepeatsAreCaused` needs an account per event (`Excused`): every claim is
paid for by a fault, except that of an undisturbed last attempt, whose request is on its way or
accepted; and a worker held up between reading the clock and its claim has paid for a claim it has
yet to make, since the lease it takes may have run out already (`Delayed`). A worker that has not
read the clock for its event is not late for it (`Fresh`). The steps of a worker change the
account of its own event by at most what the step's fault pays (`AccountStep`), the others
leave it (`Undisturbed` only grows). `OutboxIsWellTyped` is the types. The
refinement's liveness half is left to TLC.

For the scanners, `NothingSkippedHolds`, `HorizonSoundHolds`, `SettledInOrderHolds` and
`PassedIsForGoodHolds` hold, with the types (`ScannersTypeOK`), for any number of scanners of both assets, transfers, pages,
faults and clock values, from `ScannerAssumption` alone. The invariant `Sound` states what
each running scan may *claim* to have read: whatever is older than its clock by more
than the provider's lag, and whatever precedes the transaction that is to become
the cursor. It then says that a claimed transfer whose place precedes the pages read so
far is found, to be journaled, or journaled (`PagesSound`), that everything before the
scan's starting point is journaled (`StartSound`), and hence what a cursor says has been
scanned is journaled (`CursorSound`). Places shift while transfers become visible: in a
walk newest first they only move to later pages, in a walk oldest first likewise when
an earlier transfer appears, so a page that was read stays read (`PlaceGrows`). Leases do
not occur in the argument: scans only add to the journal, so leases save work
and keep settlement away from a scan under way, but safety does not rest on them.
Liveness (`EveryTransferPasses`) is left to TLC. `PassedIsForGood`, that a transfer passed by
the cursor stays passed, is only proved, as are `DeliveredIsFinal`, `EvidenceIsFinal` and
`SelectionIsFrozen`: with a proof for every instance a run of them adds nothing.

For the sweeps, `NoSweepTwice` and `PlansAreDurable` hold for any number of workers, jobs,
transfers and faults. `SweptOnce` needs that the blockchain's transfers and the pending
messages are `Backed` by the plans in the rows, that the wallet took its seqnos in order
(`InOrder`), and, of every call, that it has its job's plan when it follows one and
that a call on its way to make one finds none if it still owns the job (`Call`). Then the
plan of a job is written once (`PlanIsMade`: the owner check excludes every other call),
two transfers of a job have one seqno, and so are one. Leases, amounts and what `Find`
shows do not occur. `PlansKept` is the frame of all other steps: rows stay with their
plans, and only the caller itself takes a job over.

Two further layers of `NativeSweepProofs` are about amounts. `Typed` has the types and, of each
asset, the planner's books (`Settled`): a row is queued when the one before is confirmed, the last place is
kept for the sweep of the paid order (`InTurn`), a queued USDT job has something to move (`Jettons`), and in a
paid order nothing credited is forgotten (`Cleared`). That yields `SweepRowsAreLegal` and `CreditsAreSwept`; the planner's
decision is one lemma (`PlannerSettles`), what a confirmation and a credit do to the books before it
two more. `Covered` is the wallet's: a confirmed job is on the blockchain, and a plan that is
not, or is about to be written, finds its amount and the reserve. As only the last job is not
confirmed, and a transfer the wallet accepts is not on the blockchain yet (`Acceptable`), nobody
executes another plan in between. That yields `ReserveStays`.

The proof of `CreditsAreSwept` corrected the property. It used to compare what the *journal*
has left with the reserve. With GRAM payments of 4, 3 and 1 and the last one
journaled, but not credited, after the order was paid, nothing is forgotten and the journal still
exceeds the reserve: TLC showed the trace on an instance larger than the run's. What must be
swept is what was *credited*, and that is what `PaidOrderIsSwept` now says.

For the USDT sweeps, `UsdtRowsAreLegal`, `UsdtPlansAreDurable`, `ReserveBeforeConfirmation` and
`PromiseIsKept` hold for any number of workers, deposits, jobs and faults, from `UsdtAssumption`
(in particular that the jobs there are at the start are of different deposits, as the unique
index has it). No lease occurs in the
invariant. A call acts on the row it last read, which may be outdated, but its transition names
the statuses it may leave: so a row has a transfer plan only in a status from which no step
plans again (`RowOK`), what a call believes of a top-up is either in the row or for a seqno the
gas service has used up (`Believes`), and a call that is about to broadcast or
confirm has the row's plan, the transfer and the reserve (`Stands`). Pending messages are the rows' plans (`Backed`, `Pends`), and an
executed one has used up its wallet's seqno (`Executed`), so a job's jettons move once. For the reserve,
`OneLive` (the unique index of a deposit's open job) and `ConfirmedMoved` say that nobody else
spends the TON between the balance that was read and the confirmation. `PromiseIsKept` is the
safety half of `KeepsPromise`: each step is a step of `SweepPromise` or a stutter (`MovedOnce`
turns `moves` into at most one). The liveness half stays with TLC.

`SumTheorems` is about the sums of the models (`SumFunctionOnSet`, a fold of the community
modules): type, empty set, one element, monotony, agreement, change of one summand. The fold's
value needs an induction over sets; the library's induction theorems take an operator for the
property, so the induction is done on counterexamples: by `WFMin` a set of finite sets has a
minimal member (`MinimalSet`), and a minimal counterexample has none smaller.

For the checkout, `OneAttemptWaits`, `OrderIsAccounted`, `PaidOrderHasPayment` and
`NoPaidAttemptExpires` hold for any number of attempts, requests, transfers and times, from
`CheckoutAssumption`. The invariant has four layers: `Sound`, which is inductive alone, and three
that are each inductive given it. `Sound` is `OneAttemptIsActive` with the types and what a call may
rely on where it stands: the row it has read may be outdated, but `createdAt` is not, and a
transaction about to attach an active attempt has no rival that it will not supersede. What a
step does to the calls of others is one relation (`OutdatedAs`), so each layer has one lemma that says
that a bystander keeps what it relies on, and one per step that moves its own call.
`Accounted` is, unless the order is `overtaken`, that it agrees with its attempts *status by
status* (`Agrees`), and that a call which is still `alone` is about to write an order that does:
`OrderMatchesAttempts` alone is not inductive, since what a transaction does next depends on whether the
order is PENDING, EXPIRED or CANCELLED, which it does not restrict. `Paying` is that whoever is about to
write PAID has a paid attempt to show for it: its own row, whose version is still the one it has
read, a PAID one that it attaches, or one that the order already has and that nothing takes away. `History` is about the past: the rows, decisions and calls know when an attempt's window opened
(`Opened`), and an attempt that expired, or is about to, has missed it (`Missed`). Both stay true
because payments only arrive at the present: the first transfer in time, once there,
does not change, and a window that is over gets nothing more. It needs that the provider has
left nothing out and that no transfer to the attempt is disputed (`Known`), as the property does.

For the settlement workers and their rates, `RatesAreOfTheirTimeHolds` and `DepositsAreDecidedInOrder` hold for any
number of deposits, movements, workers and faults, any cache time, batch size and age of the
observations, from `RatesAssumption` and `BatchAssumption`. A GRAM payment may keep the rate of an earlier one, which may
have kept its own: the chain of them ends at a payment that was valued in its own time
(`Root`, `RateHasRoot`), and goes back in time because a deposit's payments are decided in the order of the chain
(`DecidedInOrder`). That order needs that they are seen in it (`SeenInOrder`), which the model's blockchain grants
and the scanners' theorem `HorizonSoundHolds` justifies. For the rates, what a refresh has in hand once
the old answers are dropped is within `MaxAge` of one another (`AnswersAreKnown`), however long it waited for the
second answer and whatever it took from the cache.

For the page, `ShownIsKnownHolds` and `CreatesWhenDoneHolds` are in `CheckoutProofs` too, about
`Page`, an instance of `Widget`, for any number of invoices, requests in progress, loads and
faults, and a `None` that is not an invoice (`WidgetAssumption`). What the page remembers is not
inductive without what each request in progress may rely on (`RequestOK`: a restore is under way exactly
while the page waits for it, and is for the invoice it comes back to; there is one restore and one
creation at most) and that `notified` never lags behind what is presented, since
`onInvoiceChange` is suppressed by it (`PageKnows`). `CreatesWhenDone` needs `PageDone`: up to a stray
answer, no invoice but the one the page would come back to (`ComesBackTo`: what it presents, or else the link's
or the stored one) was last shown as payable, so a restore that finds nothing finds nothing open, and
one that fails leaves the form locked.

Only TLC checks the liveness properties (`EveryTransferSurfaces`, `AtLeastOnce`, `EveryTransferPasses`,
`JobsAdvance`, the liveness half of `KeepsPromise`, `DepositsAreServed`, `PaidIsAnnounced`), which are out of this
prover's reach. Every invariant and every action property of the passing runs is a theorem.

## Plan

1. Done: `PaymentState`, `MovementLedger`, `OrderAttempts`, `PaymentOrder`, their runs
   and proofs.
2. Done: `EventDelivery`, `WebhookOutbox` and its proofs.
3. Done: `Scanners` and its proofs.
4. Done: `AutomaticSweeps` and `NativeSweep` for automatic jobs, and the proof that none is
   swept twice; `SweepPromise` and `UsdtSweep`.
5. Done: `Rates` and `SettlementBatch` and their proofs.
6. Done: `Checkout` and `Widget`.
7. Done, proofs: the safety properties of the native sweeps, the USDT sweeps and the
   checkout and its page, what causes a repeated delivery, the sums of the order.
8. Then, if worth their state spaces: the deposit-level lane of the native sweeps,
   a `MainnetOrder` that composes `Scanners` with `PaymentOrder`.

## Not modelled

- The deposit-level lane of the native sweep worker, which empties wallets without
  an automatic job; the planner for orders whose credits are on several deposits.
- Of the scanners: rejected transfers, the monitoring period after an invoice's end,
  the choice among deposits, the testnet jetton worker (its journaling, late and in
  any order, is `PaymentOrder`'s).
- Of the console: refunds, the review mark of a case (`OPEN` and `REVIEWED` count as one in
  the models, and a credit resolves either), login and its throttle, listings. What it does to
  movements, sweeps and events is in their modules.
- The canary gate, a predicate of the configuration; key derivation, address parsing,
  matching of messages and HTTP clients, which are pure functions and I/O without
  protocol state; formatting and wording throughout.
- The widget's rendering and its TON Connect button, whose submitted request lives in
  one component only.
- Scripts, rehearsals and the backfill migration, tools run once by hand.
