----------------------------- MODULE UsdtSweep -----------------------------
(***************************************************************************)
(* The workers that empty the USDT wallets of mainnet deposits.  A deposit *)
(* wallet needs TON to send its jettons, so a job may take two messages    *)
(* signed for two wallets, and a third one afterwards: a top-up from the   *)
(* gas service, which all jobs share, the jetton transfer from the deposit *)
(* wallet, and a repair of the deposit's TON reserve.                      *)
(*                                                                         *)
(* processMainnetUsdtSweep is a sequence of steps, and worker[w].at names  *)
(* the next one.  A read of the blockchain is part of the step that writes *)
(* what it has led to: whatever changes in between might as well change    *)
(* after the write.  A lease is its owner: it may run out once the call    *)
(* that has it is over, or has become slow, which counts as a fault.       *)
(***************************************************************************)
EXTENDS Integers, FiniteSets, Sequences

CONSTANTS
  Jobs,         \* USDT sweep jobs
  Deposits,     \* deposit wallets
  DepositOf,    \* DepositOf[j]: the deposit that job j empties
  Workers,      \* sweep workers
  Nobody, Gone, \* no lease owner; the owner of a call that is over
  Target,       \* gasTargetNano
  Reserve,      \* depositReserveNano
  MaxAttempts,  \* maxAttempts; the counter of a row stops there
  Funds,        \* what the deposit wallets may hold in TON at the start
  Planned,      \* the jobs that the planner has queued at the start
  MaxEvents     \* bound on what happens besides: crashes, failing calls, lost
                \* leases, stale answers, payments, other transfers from the
                \* wallets, jobs queued and retried by an operator

VARIABLES
  row,      \* row[j]: the TonhubAssetSweep row
  usdt,     \* usdt[d]: the jettons of deposit d
  ton,      \* ton[d]: the TON of the deposit wallet
  transit,  \* transit[d]: TON on its way to the deposit
  wallet,   \* wallet[d]: the seqno of the deposit wallet
  service,  \* the seqno of the gas service wallet
  pending,  \* broadcast messages that no block contains yet
  sent,     \* the jetton transfers on the blockchain
  signing,  \* signing[d]: the TON_WALLET_OUT lease of the deposit wallet
  gas,      \* the USDT_GAS_SERVICE_OUT lease
  worker,   \* worker[w]: the local state of a worker
  events    \* how many of those have happened

chain  == <<usdt, ton, transit, wallet, service, pending, sent>>
leases == <<signing, gas>>
vars   == <<row, usdt, ton, transit, wallet, service, pending, sent,
            signing, gas, worker, events>>

\* resolveMainnetUsdtSweepConfig: the target leaves the reserve after a transfer.
TargetCoversReserve == Reserve \in Nat \ {0} /\ Target \in Nat /\ Target > Reserve

\* The jobs that are queued at the start obey the unique index (see MayQueue).
ASSUME UsdtAssumption ==
  /\ IsFiniteSet(Jobs) /\ IsFiniteSet(Workers) /\ Jobs # {}
  /\ DepositOf \in [Jobs -> Deposits]
  /\ {Nobody, Gone} \cap Workers = {} /\ Nobody # Gone
  /\ TargetCoversReserve
  /\ MaxAttempts \in Nat \ {0}
  /\ Planned \subseteq Jobs /\ Funds \subseteq [Deposits -> Nat]
  /\ \A j, k \in Planned : DepositOf[j] = DepositOf[k] => j = k
  /\ MaxEvents \in Nat

None == -1                       \* a seqno that is NULL
Gassing  == {"GAS_TOPUP_REQUIRED", "GAS_TOPUP_SENT"}
Active   == {"QUEUED", "GAS_CHECK", "READY", "SENT"} \cup Gassing
Statuses == Active \cup {"CONFIRMED", "FAILED", "ABSENT"}
Seqnos   == Nat \cup {None}
\* gasTopupAmountNano with gasTopupSeqno, and the same of the reserve.
TopUps   == [amount: Nat, seqno: Seqnos]
NoTopUp  == [amount |-> 0, seqno |-> None]
Owners   == Workers \cup {Nobody, Gone}

\* amountAtomic, recipientAddress, queryId and seqno are written together; sentAt
\* is LATE when it is a second in which the transfer had long been in a block.
Rows == [status: Statuses, amount: Nat, seqno: Seqnos, sentAt: {"NONE", "EARLY", "LATE"},
         topup: TopUps, repair: TopUps, key: Seqnos, attempts: 0..MaxAttempts,
         owner: Owners, case: {"NONE", "OPEN", "RESOLVED"}]

NewRow(status) ==
          [status |-> status, amount |-> 0, seqno |-> None, sentAt |-> "NONE",
           topup |-> NoTopUp, repair |-> NoTopUp, key |-> None, attempts |-> 0,
           owner |-> Nobody, case |-> "NONE"]

\* A jetton transfer is signed for the seqno of the deposit wallet, a top-up for
\* one of the gas service.
Transfer(j, r)   == [kind |-> "JETTON", job |-> j, amount |-> r.amount, seqno |-> r.seqno]
TopUp(j, t)      == [kind |-> "TOPUP", job |-> j, amount |-> t.amount, seqno |-> t.seqno]
Messages == [kind: {"JETTON", "TOPUP"}, job: Jobs, amount: Nat \ {0}, seqno: Nat]

Places == {"IDLE", "FIND", "REPAIR_LEASE", "REPAIR_PLAN", "REPAIR", "TOP_UP",
           "REPAIRED", "CONFIRM", "READY", "SEND", "SENT", "GAS_READY", "GAS_SEND", "GAS_SENT",
           "CHECK_TOPUP", "BALANCES", "GAS_LEASE", "GAS_PLAN", "GAS_CHECK", "LEASE", "PLAN",
           "RELEASE", "CATCH", "DEFER", "FAIL"}

\* rec is the row the call has read and written last; late says whether the
\* transfer was on the blockchain already when the call began.
Resting ==
  [at |-> "IDLE", job |-> CHOOSE j \in Jobs : TRUE, rec |-> NewRow("ABSENT"), late |-> FALSE, slow |-> FALSE]

Job(w)  == worker[w].job
Dep(w)  == DepositOf[Job(w)]
Rec(w)  == worker[w].rec
Row(w)  == row[Job(w)]
Owns(w) == Row(w).owner = w
IsOnChain(j) == \E i \in DOMAIN sent : sent[i].job = j

At(w, place)   == worker[w].at = place
GoTo(w, place) == worker' = [worker EXCEPT ![w].at = place]
EndCall(w)     == worker' = [worker EXCEPT ![w] = Resting]
Event == events < MaxEvents /\ events' = events + 1
Forgotten(w, o) == IF o = w THEN Gone ELSE o

\* requiredTransition: the row stays with the call that holds it.
Holds(w, from) == Owns(w) /\ Row(w).status \in from

Transition(w, from, new, place) ==
  IF Holds(w, from)
  THEN /\ row' = [row EXCEPT ![Job(w)] = new]
       /\ worker' = [worker EXCEPT ![w].rec = new, ![w].at = place]
  ELSE GoTo(w, "CATCH") /\ UNCHANGED row

\* acquireWalletLease.
AcquireGas(w, place) ==
  /\ IF gas \in {w, Nobody} THEN gas' = w /\ GoTo(w, place)
     ELSE UNCHANGED gas /\ GoTo(w, "DEFER")
  /\ UNCHANGED <<row, chain, signing, events>>
AcquireWallet(w, place) ==
  /\ IF signing[Dep(w)] \in {w, Nobody}
     THEN signing' = [signing EXCEPT ![Dep(w)] = w] /\ GoTo(w, place)
     ELSE UNCHANGED signing /\ GoTo(w, "DEFER")
  /\ UNCHANGED <<row, chain, gas, events>>

\* releaseIfAccepted, if waitForWalletSeqno has seen the message accepted; a lease
\* that is not released runs out.
Freed(w, owner) == IF owner = w THEN Nobody ELSE owner
ReleaseGas(w, accepted) == gas' = IF accepted THEN Freed(w, gas) ELSE gas
-----------------------------------------------------------------------------
(* Claiming a job.                                                          *)

\* Where advanceSweep goes on, by the status it has claimed.
Entry(status) ==
  CASE status = "SENT" -> "FIND"
    [] status = "READY" -> "READY"
    [] status = "GAS_TOPUP_REQUIRED" -> "GAS_READY"
    [] status = "GAS_TOPUP_SENT" -> "CHECK_TOPUP"
    [] OTHER -> "BALANCES"

\* listCandidates and claim: the lease of nobody's job is over at any moment,
\* that of a call in progress when the call is slow.
Overdue(owner) == owner \in Workers => worker[owner].slow

ClaimableUnowned(r) == r.status \in Active /\ r.owner = Nobody
Claimable(r) == r.status \in Active /\ Overdue(r.owner)

Claim(w, j) ==
  LET new == [row[j] EXCEPT !.owner = w,
                !.attempts = IF @ < MaxAttempts THEN @ + 1 ELSE @]
  IN  /\ At(w, "IDLE")
      /\ Claimable(row[j])
      /\ row' = [row EXCEPT ![j] = new]
      /\ worker' = [worker EXCEPT ![w] =
           [at |-> Entry(new.status), job |-> j, rec |-> new, late |-> new.sentAt = "NONE" /\ IsOnChain(j), slow |-> FALSE]]
      /\ UNCHANGED <<chain, leases, events>>
-----------------------------------------------------------------------------
(* A job that is sent.                                                      *)

\* findJettonSweep: the job's query id and amount, in no block before sentAt.
Matches(w) ==
  {i \in DOMAIN sent : sent[i].job = Job(w) /\ sent[i].amount = Rec(w).amount
                         /\ Rec(w).sentAt # "LATE"}

\* The balance after a confirmation decides whether the reserve needs repair.
NeedsReserveNever(w) == FALSE
NeedsReserve(w) == ton[Dep(w)] < Reserve

Find(w) ==
  /\ At(w, "FIND")
  /\ \/ /\ Matches(w) # {}
        /\ GoTo(w, IF NeedsReserve(w) THEN "REPAIR_LEASE" ELSE "CONFIRM")
        /\ UNCHANGED <<row, events>>
     \/ /\ \/ Matches(w) = {} /\ UNCHANGED events
           \/ Matches(w) # {} /\ Event       \* the provider lags
        /\ IF wallet[Dep(w)] = Rec(w).seqno
           THEN Transition(w, {"SENT"}, [Row(w) EXCEPT !.status = "READY"], "READY")
           ELSE \* confirmationGraceMs is over when the job has been polled often
                \E place \in {"FAIL"} \cup
                     (IF Rec(w).attempts < MaxAttempts THEN {"DEFER"} ELSE {}) :
                  GoTo(w, place) /\ UNCHANGED row
  /\ UNCHANGED <<chain, leases>>

\* repairConfirmedReserve.
RepairLease(w) ==
  /\ At(w, "REPAIR_LEASE")
  /\ AcquireGas(w, IF Rec(w).repair = NoTopUp THEN "REPAIR_PLAN" ELSE "REPAIR")

\* A seqno of the gas service is planned by one row at a time: a unique index.
KeyIsFree(j, n) == \A k \in Jobs \ {j} : row[k].key # n

RepairPlan(w) ==
  /\ At(w, "REPAIR_PLAN")
  /\ \E amount \in 1..Reserve :      \* of a balance that was read before
       IF KeyIsFree(Job(w), service)
       THEN Transition(w, {"SENT"},
              [Row(w) EXCEPT !.repair = [amount |-> amount, seqno |-> service], !.key = service],
              "REPAIR")
       ELSE GoTo(w, "CATCH") /\ UNCHANGED row
  /\ UNCHANGED <<chain, leases, events>>

\* A plan for an amount that is outdated by now is persisted anew.
Repair(w) ==
  LET deficit == Reserve - ton[Dep(w)]
  IN  /\ At(w, "REPAIR")
      /\ \/ /\ ~NeedsReserve(w)
            /\ ReleaseGas(w, TRUE)
            /\ GoTo(w, "CONFIRM")
            /\ UNCHANGED row
         \/ /\ NeedsReserve(w) /\ service > Rec(w).repair.seqno
            /\ GoTo(w, IF Rec(w).attempts >= MaxAttempts THEN "FAIL" ELSE "DEFER")
            /\ UNCHANGED <<gas, row>>
         \/ /\ NeedsReserve(w) /\ service = Rec(w).repair.seqno
            /\ IF deficit = Rec(w).repair.amount THEN GoTo(w, "TOP_UP") /\ UNCHANGED row
               ELSE Transition(w, {"SENT"}, [Row(w) EXCEPT !.repair.amount = deficit], "TOP_UP")
            /\ UNCHANGED gas
      /\ UNCHANGED <<chain, signing, events>>

\* sendGasTopup, of either plan.
TopUpOf(w) == TopUp(Job(w), IF Rec(w).status = "SENT" THEN Rec(w).repair ELSE Rec(w).topup)
Broadcast(m, seqno) == IF m.seqno = seqno THEN pending \cup {m} ELSE pending

SendTopUp(w) ==
  /\ At(w, "TOP_UP")
  /\ pending' = Broadcast(TopUpOf(w), service)
  /\ GoTo(w, IF Rec(w).status = "SENT" THEN "REPAIRED" ELSE "GAS_SENT")
  /\ UNCHANGED <<row, usdt, ton, transit, wallet, service, sent, leases, events>>

Repaired(w) ==
  /\ At(w, "REPAIRED")
  /\ ReleaseGas(w, service > Rec(w).repair.seqno)
  /\ GoTo(w, IF NeedsReserve(w) THEN "DEFER" ELSE "CONFIRM")
  /\ UNCHANGED <<row, chain, signing, events>>

\* A deposit has one job that is not confirmed, by a unique index: whoever asks for
\* another one, as the console's queueSweep does, gets the job there is, or is refused
\* when it has failed.
MayQueue(j, rows) ==
  /\ rows[j].status = "ABSENT"
  /\ \A k \in Jobs : DepositOf[k] = DepositOf[j] => rows[k].status \in {"ABSENT", "CONFIRMED"}

\* confirm: one transaction with the outgoing movement, the recovery case and the
\* planner, which may find what has been paid since due for another job.
Settled(c) == IF c = "OPEN" THEN "RESOLVED" ELSE c
Confirmed(w) ==
  [row EXCEPT ![Job(w)] =
     [Row(w) EXCEPT !.status = "CONFIRMED", !.owner = Nobody, !.key = None, !.case = Settled(@)]]

Confirm(w) ==
  /\ At(w, "CONFIRM")
  /\ IF Holds(w, {"SENT"})
     THEN /\ \/ row' = Confirmed(w)
             \/ \E j \in Jobs :
                  /\ DepositOf[j] = Dep(w) /\ usdt[Dep(w)] > 0
                  /\ MayQueue(j, Confirmed(w))
                  /\ row' = [Confirmed(w) EXCEPT ![j] = NewRow("QUEUED")]
          /\ EndCall(w)
     ELSE GoTo(w, "CATCH") /\ UNCHANGED row
  /\ UNCHANGED <<chain, leases, events>>
-----------------------------------------------------------------------------
(* sendReadySweep: the jetton transfer, signed for the seqno of the plan.   *)

Ready(w) == At(w, "READY") /\ AcquireWallet(w, "SEND")

SignedAfresh(w) == [Transfer(Job(w), Rec(w)) EXCEPT !.seqno = wallet[Dep(w)]]
Signed(w) == Transfer(Job(w), Rec(w))

Send(w) ==
  /\ At(w, "SEND")
  /\ pending' = Broadcast(Signed(w), wallet[Dep(w)])
  /\ GoTo(w, "SENT")
  /\ UNCHANGED <<row, usdt, ton, transit, wallet, service, sent, leases, events>>

\* sentAt is the time at which the call began, unless the row has one already.
SentAt(w) ==
  IF Rec(w).sentAt # "NONE" THEN {Rec(w).sentAt}
  ELSE {"EARLY"} \cup (IF worker[w].late THEN {"LATE"} ELSE {})

MarkSent(w) ==
  /\ At(w, "SENT")
  /\ \E s \in SentAt(w) :
       Transition(w, {"READY"}, [Row(w) EXCEPT !.status = "SENT", !.sentAt = s], "RELEASE")
  /\ UNCHANGED <<chain, leases, events>>

\* The wait for the seqno of the transfer.
Release(w) ==
  /\ At(w, "RELEASE")
  /\ signing' = IF wallet[Dep(w)] > Rec(w).seqno
                THEN [signing EXCEPT ![Dep(w)] = Freed(w, @)] ELSE signing
  /\ GoTo(w, "DEFER")
  /\ UNCHANGED <<row, chain, gas, events>>
-----------------------------------------------------------------------------
(* sendPlannedTopup: the top-up, for what the deposit lacks by now.         *)

GasReady(w) == At(w, "GAS_READY") /\ AcquireGas(w, "GAS_SEND")

NeedsTopUpAtTarget(w) == ton[Dep(w)] <= Target
NeedsTopUp(w) == ton[Dep(w)] < Target

GasSend(w) ==
  LET deficit == Target - ton[Dep(w)]
  IN  /\ At(w, "GAS_SEND")
      /\ IF service # Rec(w).topup.seqno
         THEN GoTo(w, "GAS_SENT") /\ UNCHANGED <<row, gas>>
         ELSE IF ~NeedsTopUp(w)
         THEN /\ Transition(w, Gassing, [Row(w) EXCEPT !.status = "GAS_TOPUP_SENT"], "DEFER")
              /\ ReleaseGas(w, Holds(w, Gassing))
         ELSE /\ IF deficit = Rec(w).topup.amount THEN GoTo(w, "TOP_UP") /\ UNCHANGED row
                 ELSE Transition(w, {"GAS_TOPUP_REQUIRED"},
                                 [Row(w) EXCEPT !.topup.amount = deficit], "TOP_UP")
              /\ UNCHANGED gas
      /\ UNCHANGED <<chain, signing, events>>

GasSent(w) ==
  /\ At(w, "GAS_SENT")
  /\ Transition(w, Gassing, [Row(w) EXCEPT !.status = "GAS_TOPUP_SENT"], "DEFER")
  /\ ReleaseGas(w, Holds(w, Gassing) /\ service > Rec(w).topup.seqno)
  /\ UNCHANGED <<chain, signing, events>>

\* GAS_TOPUP_SENT: the top-up has arrived, was accepted, or is to be sent again.
CheckTopup(w) ==
  /\ At(w, "CHECK_TOPUP")
  /\ IF NeedsTopUp(w) /\ service = Rec(w).topup.seqno
     THEN Transition(w, {"GAS_TOPUP_SENT"}, [Row(w) EXCEPT !.status = "GAS_TOPUP_REQUIRED"],
                     "GAS_READY")
     ELSE /\ GoTo(w, IF NeedsTopUp(w) /\ Rec(w).attempts >= MaxAttempts
                     THEN "FAIL" ELSE "BALANCES")
          /\ UNCHANGED row
  /\ UNCHANGED <<chain, leases, events>>
-----------------------------------------------------------------------------
(* Planning the top-up or the transfer.                                     *)

Balances(w) ==
  /\ At(w, "BALANCES")
  /\ IF usdt[Dep(w)] = 0
     THEN GoTo(w, IF Rec(w).attempts >= MaxAttempts THEN "FAIL" ELSE "DEFER")
     ELSE worker' = [worker EXCEPT ![w].rec.amount = usdt[Dep(w)],
            ![w].at = IF NeedsTopUp(w) THEN "GAS_LEASE"
                      ELSE IF Rec(w).status = "GAS_CHECK" THEN "LEASE" ELSE "GAS_CHECK"]
  /\ UNCHANGED <<row, chain, leases, events>>

GasLease(w) == At(w, "GAS_LEASE") /\ AcquireGas(w, "GAS_PLAN")

GasPlan(w) ==
  /\ At(w, "GAS_PLAN")
  /\ \E amount \in 1..Target :       \* of a balance that was read before
       IF KeyIsFree(Job(w), service)
       THEN Transition(w, {"QUEUED", "GAS_CHECK", "GAS_TOPUP_SENT"},
              [Row(w) EXCEPT !.status = "GAS_TOPUP_REQUIRED", !.key = service,
                             !.topup = [amount |-> amount, seqno |-> service]],
              "GAS_READY")
       ELSE GoTo(w, "CATCH") /\ UNCHANGED row
  /\ UNCHANGED <<chain, leases, events>>

\* The amount goes with the call, the row has none before it is READY.
GasCheck(w) ==
  /\ At(w, "GAS_CHECK")
  /\ IF Holds(w, {"QUEUED", "GAS_TOPUP_SENT"})
     THEN /\ row' = [row EXCEPT ![Job(w)].status = "GAS_CHECK", ![Job(w)].key = None]
          /\ worker' = [worker EXCEPT ![w].rec = [row'[Job(w)] EXCEPT !.amount = Rec(w).amount],
                                      ![w].at = "LEASE"]
     ELSE GoTo(w, "CATCH") /\ UNCHANGED row
  /\ UNCHANGED <<chain, leases, events>>

Lease(w) == At(w, "LEASE") /\ AcquireWallet(w, "PLAN")

Plan(w) ==
  /\ At(w, "PLAN")
  /\ Transition(w, {"GAS_CHECK"},
       [Row(w) EXCEPT !.status = "READY", !.amount = Rec(w).amount, !.seqno = wallet[Dep(w)]],
       "READY")
  /\ UNCHANGED <<chain, leases, events>>
-----------------------------------------------------------------------------
(* The end of a call.                                                       *)

\* The catch block: a call that has failed too often is given up.
Catch(w) ==
  /\ At(w, "CATCH")
  /\ GoTo(w, IF Rec(w).attempts >= MaxAttempts THEN "FAIL" ELSE "DEFER")
  /\ UNCHANGED <<row, chain, leases, events>>

\* Leases on wallets that the call still has run out.
Abandoned(w) ==
  /\ signing' = [d \in Deposits |-> Forgotten(w, signing[d])]
  /\ gas' = Forgotten(w, gas)

\* defer.
Defer(w) ==
  /\ At(w, "DEFER")
  /\ row' = IF Holds(w, Active)
            THEN [row EXCEPT ![Job(w)].owner = Nobody] ELSE row
  /\ Abandoned(w)
  /\ EndCall(w)
  /\ UNCHANGED <<chain, events>>

\* fail, with its recovery case.
FailedRow(r) == [r EXCEPT !.status = "FAILED", !.owner = Nobody, !.case = "OPEN"]
Fail(w) ==
  /\ At(w, "FAIL")
  /\ row' = IF Holds(w, Active) THEN [row EXCEPT ![Job(w)] = FailedRow(@)] ELSE row
  /\ Abandoned(w)
  /\ EndCall(w)
  /\ UNCHANGED <<chain, events>>
-----------------------------------------------------------------------------
(* What may go wrong, and everybody else.                                   *)

\* A call to the database or a provider fails.  A broadcast that fails may have
\* reached the network all the same.
Throws(w) ==
  /\ worker[w].at \notin {"IDLE", "CATCH", "DEFER", "FAIL"}
  /\ Event
  /\ GoTo(w, "CATCH")
  /\ \/ UNCHANGED pending
     \/ At(w, "SEND") /\ pending' = Broadcast(Signed(w), wallet[Dep(w)])
     \/ At(w, "TOP_UP") /\ pending' = Broadcast(TopUpOf(w), service)
  /\ UNCHANGED <<row, usdt, ton, transit, wallet, service, sent, leases>>

Crash(w) ==
  /\ ~At(w, "IDLE")
  /\ Event
  /\ row' = [row EXCEPT ![Job(w)].owner = Forgotten(w, @)]
  /\ Abandoned(w)
  /\ EndCall(w)
  /\ UNCHANGED chain

\* A call takes longer than its leases.
Slow(w) ==
  /\ ~At(w, "IDLE") /\ ~worker[w].slow
  /\ Event
  /\ worker' = [worker EXCEPT ![w].slow = TRUE]
  /\ UNCHANGED <<row, chain, leases>>

WalletLeaseEnds(d) ==
  /\ signing[d] # Nobody /\ Overdue(signing[d])
  /\ signing' = [signing EXCEPT ![d] = Nobody]
  /\ UNCHANGED <<row, chain, gas, worker, events>>
GasLeaseEnds ==
  /\ gas # Nobody /\ Overdue(gas)
  /\ gas' = Nobody
  /\ UNCHANGED <<row, chain, signing, worker, events>>

\* resumableFailedUsdtSweepStatus, and the operator who retries.
Resumed(r) ==
  IF r.seqno # None THEN (IF r.sentAt = "NONE" THEN "READY" ELSE "SENT")
  ELSE IF r.topup = NoTopUp THEN "QUEUED"
  ELSE IF r.key = None THEN "GAS_CHECK" ELSE "GAS_TOPUP_REQUIRED"

RetryFailed(j) ==
  /\ row[j].status = "FAILED"
  /\ Event
  /\ row' = [row EXCEPT ![j] = [@ EXCEPT !.status = Resumed(row[j]), !.attempts = 0,
                                         !.owner = Nobody]]
  /\ UNCHANGED <<chain, leases, worker>>

\* queueForDeposit, of the worker and of the console: a manual job.
Queue(j) ==
  /\ MayQueue(j, row)
  /\ Event
  /\ row' = [row EXCEPT ![j] = NewRow("QUEUED")]
  /\ UNCHANGED <<chain, leases, worker>>

\* A further payment to the deposit, in either asset.
Pay(d) ==
  /\ Event
  /\ \/ usdt' = [usdt EXCEPT ![d] = @ + 1] /\ UNCHANGED ton
     \/ ton' = [ton EXCEPT ![d] = @ + Target] /\ UNCHANGED usdt
  /\ UNCHANGED <<row, transit, wallet, service, pending, sent, leases, worker>>

Later(m) ==
  {x \in pending : ~(/\ x.kind = m.kind /\ x.seqno = m.seqno
                     /\ m.kind = "JETTON" => DepositOf[x.job] = DepositOf[m.job])}

\* The deposit wallet takes a message with its seqno and ignores errors: without
\* TON to attach, the seqno is used up and nothing is sent.  What the transfer
\* costs is not known in advance.
Transferred(m) ==
  /\ m.kind = "JETTON" /\ m.seqno = wallet[DepositOf[m.job]]
  /\ wallet' = [wallet EXCEPT ![DepositOf[m.job]] = @ + 1]
  /\ pending' = Later(m)
  /\ IF ton[DepositOf[m.job]] = 0 \/ m.amount > usdt[DepositOf[m.job]] THEN UNCHANGED <<ton, usdt, sent>>
     ELSE /\ \E cost \in 1..ton[DepositOf[m.job]] : ton' = [ton EXCEPT ![DepositOf[m.job]] = @ - cost]
          /\ usdt' = [usdt EXCEPT ![DepositOf[m.job]] = @ - m.amount]
          /\ sent' = Append(sent, m)
  /\ UNCHANGED <<row, transit, service, leases, worker, events>>

\* The gas service takes a message; the TON arrives in a later block.
ToppedUp(m) ==
  /\ m.kind = "TOPUP" /\ m.seqno = service
  /\ service' = service + 1
  /\ pending' = Later(m)
  /\ transit' = [transit EXCEPT ![DepositOf[m.job]] = @ + m.amount]
  /\ UNCHANGED <<row, usdt, ton, wallet, sent, leases, worker, events>>

Deliver(d) ==
  /\ transit[d] > 0
  /\ ton' = [ton EXCEPT ![d] = @ + transit[d]]
  /\ transit' = [transit EXCEPT ![d] = 0]
  /\ UNCHANGED <<row, usdt, wallet, service, pending, sent, leases, worker, events>>

\* The treasury is the gas service: the merchant signs with it too.
TreasuryTransfer ==
  /\ Event
  /\ service' = service + 1
  /\ pending' = {x \in pending : x.kind # "TOPUP" \/ x.seqno # service}
  /\ UNCHANGED <<row, usdt, ton, transit, wallet, sent, leases, worker>>

\* A native sweep of the same deposit, which takes the same lease and leaves the
\* native reserve.
NativeSweep(d) ==
  /\ signing[d] = Nobody
  /\ ton[d] > Reserve
  /\ Event
  /\ wallet' = [wallet EXCEPT ![d] = @ + 1]
  /\ pending' = {x \in pending : ~(x.kind = "JETTON" /\ DepositOf[x.job] = d /\ x.seqno = wallet[d])}
  /\ ton' = [ton EXCEPT ![d] = Reserve]
  /\ UNCHANGED <<row, usdt, transit, service, sent, leases, worker>>
-----------------------------------------------------------------------------
Init ==
  /\ row = [j \in Jobs |-> NewRow(IF j \in Planned THEN "QUEUED" ELSE "ABSENT")]
  /\ usdt = [d \in Deposits |-> 1]
  /\ ton \in Funds
  /\ transit = [d \in Deposits |-> 0]
  /\ wallet = [d \in Deposits |-> 0]
  /\ service = 0
  /\ pending = {}
  /\ sent = <<>>
  /\ signing = [d \in Deposits |-> Nobody]
  /\ gas = Nobody
  /\ worker = [w \in Workers |-> Resting]
  /\ events = 0

\* processMainnetUsdtSweep, step by step.
Sweep(w) ==
  \/ \E j \in Jobs : Claim(w, j)
  \/ Find(w) \/ RepairLease(w) \/ RepairPlan(w) \/ Repair(w) \/ SendTopUp(w) \/ Repaired(w) \/ Confirm(w)
  \/ Ready(w) \/ Send(w) \/ MarkSent(w) \/ Release(w)
  \/ GasReady(w) \/ GasSend(w) \/ GasSent(w) \/ CheckTopup(w)
  \/ Balances(w) \/ GasLease(w) \/ GasPlan(w) \/ GasCheck(w) \/ Lease(w) \/ Plan(w)
  \/ Catch(w) \/ Defer(w) \/ Fail(w)

Disturbs(w) == Throws(w) \/ Crash(w) \/ Slow(w)

Execute(m) == Transferred(m) \/ ToppedUp(m)

Next ==
  \/ \E w \in Workers : Sweep(w) \/ Disturbs(w)
  \/ \E j \in Jobs : Queue(j) \/ RetryFailed(j)
  \/ \E d \in Deposits : WalletLeaseEnds(d) \/ Pay(d) \/ Deliver(d) \/ NativeSweep(d)
  \/ GasLeaseEnds \/ TreasuryTransfer
  \/ \E m \in pending : Execute(m)

Spec == Init /\ [][Next]_vars

\* The workers poll, leases end, and the network takes what has been broadcast.
FairSpec ==
  /\ Spec
  /\ \A w \in Workers : WF_vars(Sweep(w))
  /\ \A d \in Deposits : WF_vars(WalletLeaseEnds(d)) /\ WF_vars(Deliver(d))
  /\ WF_vars(GasLeaseEnds)
  /\ WF_vars(\E m \in pending : Execute(m))
-----------------------------------------------------------------------------
\* The check that the table makes of every row written, which would abort the
\* transaction: what a status needs is there.
RowIsLegal(r) ==
  /\ r.status \in Gassing => r.topup # NoTopUp /\ r.key # None
  /\ r.status \in {"READY", "SENT", "CONFIRMED"} => r.amount > 0 /\ r.seqno # None
  /\ r.status \in {"SENT", "CONFIRMED"} => r.sentAt # "NONE"
  /\ \A t \in {r.topup, r.repair} : (t.amount = 0) = (t.seqno = None)

\* The types of the rows, the chain and the workers' local state; every row passes
\* the check of its table.
TypeOK ==
  /\ row \in [Jobs -> Rows]
  /\ \A j \in Jobs : RowIsLegal(row[j])
  /\ {usdt, ton, transit, wallet} \subseteq [Deposits -> Nat]
  /\ service \in Nat
  /\ pending \subseteq Messages
  /\ sent \in Seq(Messages)
  /\ signing \in [Deposits -> Owners]
  /\ gas \in Owners
  /\ worker \in [Workers -> [at: Places, job: Jobs, rec: Rows, late: BOOLEAN, slow: BOOLEAN]]
  /\ events \in 0..MaxEvents

Outcome(j) ==
  IF row[j].status \in {"ABSENT", "CONFIRMED", "FAILED"} THEN row[j].status ELSE "OPEN"
Moves(j) == Cardinality({i \in DOMAIN sent : sent[i].job = j})

\* The lifecycle with its two messages implements what a sweep promises.
Promise == INSTANCE SweepPromise WITH
  moves <- [j \in Jobs |-> Moves(j)], outcome <- [j \in Jobs |-> Outcome(j)]
KeepsPromise == Promise!Spec

\* Every message was persisted before it was broadcast, and no call has replaced
\* its plan while the network could still accept it.
PlannedFirst ==
  /\ \A x \in pending \cup {sent[i] : i \in DOMAIN sent} :
       x.kind = "JETTON" => x = Transfer(x.job, row[x.job])
  /\ \A x \in pending :
       x.kind = "TOPUP" => x.seqno \in {row[x.job].topup.seqno, row[x.job].repair.seqno}

\* A job is confirmed only once its deposit has its reserve, which is repaired
\* until then.
ReserveIsRestored ==
  [][\A j \in Jobs : row'[j].status = "CONFIRMED" /\ row[j].status # "CONFIRMED"
       => ton[DepositOf[j]] >= Reserve]_vars
=============================================================================
