---------------------------- MODULE NativeSweep ----------------------------
(***************************************************************************)
(* The workers that empty the GRAM wallet of an order: claim a job,        *)
(* acquire the wallet, persist the plan of the transfer, broadcast it and  *)
(* confirm it from what the provider shows of the blockchain.              *)
(*                                                                         *)
(* Every await of sweepTonDepositAddress is a point at which the others    *)
(* run, so a call is a sequence of steps and worker[w].at names the next.  *)
(* Leases have no length here: one may run out at any moment, but that of  *)
(* a call in progress only if the call is slow, which counts as a fault.   *)
(***************************************************************************)
EXTENDS AutomaticSweeps

CONSTANTS
  Workers,    \* sweep workers
  MinSweep,   \* minSweepNano
  MaxFaults   \* bound on crashes, failing calls, lost leases and stale answers

VARIABLES
  wallet,     \* wallet: the seqno of the deposit wallet's contract
  pending,    \* broadcast transfers that no block contains yet
  sent,       \* the outgoing transfers on the blockchain, in their order
  signing,    \* the TON_WALLET_OUT scan cursor: the lease to sign for the wallet
  worker,     \* worker[w]: the local state of a worker
  faults      \* how many faults there have been

ledger == <<stage, order>>
chain  == <<wallet, pending, sent>>
vars   == <<stage, order, sweeps, wallet, pending, sent, signing, worker, faults>>

Jobs     == Nat \ {0}
Message(n, plan) == [job |-> n, amount |-> plan.amount, seqno |-> plan.seqno]
Messages == [job: Jobs, amount: Nat \ {0}, seqno: Nat]
Owners   == Workers \cup {Nobody, Gone}

\* amountAtomic, reserveAtomic, recipientAddress and seqno are written together.
Plans == [amount: Nat \ {0}, seqno: Nat]

Places == {"IDLE", "LISTED", "ACQUIRE", "FIND", "SEQNO_PASSED", "BALANCE", "SEQNO",
           "READY", "SEND", "SENT", "CONFIRM", "RELEASE", "DEFER", "SHORT", "FAIL"}

\* The status and plan the call has claimed, or is making; whether the provider
\* has shown the transfer; whether the call has become slow.
Idle == [at |-> "IDLE", job |-> 0, status |-> "NONE", plan |-> NoPlan,
         found |-> FALSE, slow |-> FALSE]

ASSUME NativeAssumption ==
  /\ IsFiniteSet(Workers)
  /\ {Nobody, Gone} \cap Workers = {}
  /\ MinSweep \in Nat \ {0}
  /\ MaxFaults \in Nat

Gram   == sweeps["GRAM"]
Row(w) == Gram[worker[w].job]
Owns(w) == Row(w).owner = w

\* The coins of the deposit wallet.
Balance ==
  AmountOf({t \in Of("GRAM") : stage[t] # "ABSENT"})
    - SumFunction([i \in DOMAIN sent |-> sent[i].amount])

IsOnChain(n) == \E i \in DOMAIN sent : sent[i].job = n

At(w, place)   == worker[w].at = place
GoTo(w, place) == worker' = [worker EXCEPT ![w].at = place]
EndCall(w)     == worker' = [worker EXCEPT ![w] = Idle]
SetRow(w, row) == sweeps' = [sweeps EXCEPT !["GRAM"][worker[w].job] = row]
Fault == faults < MaxFaults /\ faults' = faults + 1

\* Every call signs with a new random owner, so nobody can use one that is over.
Forgotten(w, o) == IF o = w THEN Gone ELSE o
-----------------------------------------------------------------------------
(* Claiming a job.                                                          *)

IsFreeUnowned(row) == ~row.leased /\ row.owner = Nobody
IsFree(row) == ~row.leased

\* listSweepCandidates: failed jobs wait for the admin.
List(w) ==
  /\ At(w, "IDLE")
  /\ \E n \in DOMAIN Gram :
       /\ Gram[n].status \in {"QUEUED", "READY", "SENT"}
       /\ IsFree(Gram[n])
       /\ worker' = [worker EXCEPT ![w] = [Idle EXCEPT !.at = "LISTED", !.job = n]]
  /\ UNCHANGED <<ledger, sweeps, chain, signing, faults>>

\* resumableFailedNativeGramSweepStatus: sentAt is what tells a sent plan.
Resumed(row) ==
  IF row.status = "QUEUED" THEN "READY"
  ELSE IF row.status = "FAILED" THEN (IF row.sentAt = "NONE" THEN "READY" ELSE "SENT")
  ELSE row.status

\* claimSweepCandidate.
Claim(w) ==
  /\ At(w, "LISTED")
  /\ IF Row(w).status \in {"QUEUED", "READY", "SENT", "FAILED"} /\ IsFree(Row(w))
     THEN LET status == Resumed(Row(w))
          IN  /\ SetRow(w, [Row(w) EXCEPT !.status = status, !.owner = w, !.leased = TRUE])
              /\ worker' = [worker EXCEPT ![w].at = "ACQUIRE", ![w].status = status,
                                           ![w].plan = Row(w).plan]
     ELSE EndCall(w) /\ UNCHANGED sweeps
  /\ UNCHANGED <<ledger, chain, signing, faults>>

\* prismaTonWalletSigningLease.acquire; a busy wallet defers the job.
Acquire(w) ==
  /\ At(w, "ACQUIRE")
  /\ IF signing.leased
     THEN GoTo(w, "DEFER") /\ UNCHANGED signing
     ELSE /\ signing' = [owner |-> w, leased |-> TRUE]
          /\ GoTo(w, IF worker[w].plan = NoPlan THEN "BALANCE" ELSE "FIND")
  /\ UNCHANGED <<ledger, sweeps, chain, faults>>

\* deferAssetSweep: the job is free again once the lease without owner is over.
Defer(w) ==
  /\ At(w, "DEFER")
  /\ IF Owns(w) THEN SetRow(w, [Row(w) EXCEPT !.owner = Nobody, !.leased = TRUE])
     ELSE UNCHANGED sweeps
  /\ signing' = [signing EXCEPT !.owner = Forgotten(w, @)]
  /\ EndCall(w)
  /\ UNCHANGED <<ledger, chain, faults>>
-----------------------------------------------------------------------------
(* A job with a plan looks for its transfer before anything else.           *)

\* findExactTonNativeSweepTransfer: the job's comment, recipient and value, in
\* no block before startedAt, or before sentAt once the job is sent.
Matches(w) ==
  {i \in DOMAIN sent :
     /\ sent[i].job = worker[w].job
     /\ sent[i].amount = worker[w].plan.amount
     /\ ~(worker[w].status = "SENT" /\ Row(w).sentAt = "LATE")}

Find(w) ==
  /\ At(w, "FIND")
  /\ \/ /\ Cardinality(Matches(w)) = 1
        /\ worker' = [worker EXCEPT ![w].found = TRUE,
             ![w].at = IF worker[w].status = "READY" THEN "SENT" ELSE "CONFIRM"]
        /\ UNCHANGED faults
     \/ /\ Cardinality(Matches(w)) > 1
        /\ GoTo(w, "FAIL")
        /\ UNCHANGED faults
     \/ /\ \/ Matches(w) = {} /\ UNCHANGED faults
           \/ Matches(w) # {} /\ Fault       \* the provider lags
        /\ GoTo(w, IF worker[w].status = "READY" THEN "SEQNO_PASSED" ELSE "DEFER")
  /\ UNCHANGED <<ledger, sweeps, chain, signing>>

\* A transfer that nobody can find but whose seqno is used up is ambiguous.
SeqnoPassed(w) ==
  /\ At(w, "SEQNO_PASSED")
  /\ GoTo(w, IF wallet > worker[w].plan.seqno THEN "FAIL" ELSE "BALANCE")
  /\ UNCHANGED <<ledger, sweeps, chain, signing, faults>>
-----------------------------------------------------------------------------
(* Planning and broadcasting.                                               *)

AfterBalanceUnnumbered(planned) == IF planned THEN "SEND" ELSE "READY"
AfterBalance(planned) == IF planned THEN "SEND" ELSE "SEQNO"

\* getBalance: a persisted plan must still fit, a new one takes all but the
\* reserve.
ReadBalance(w) ==
  LET planned == worker[w].plan # NoPlan
      amount  == IF planned THEN worker[w].plan.amount ELSE Balance - Reserve
  IN  /\ At(w, "BALANCE")
      /\ IF planned /\ Balance < amount + Reserve THEN GoTo(w, "FAIL")
         ELSE IF amount < MinSweep THEN GoTo(w, "SHORT")
         ELSE worker' = [worker EXCEPT ![w].plan.amount = amount,
                ![w].at = AfterBalance(planned)]
      /\ UNCHANGED <<ledger, sweeps, chain, signing, faults>>

\* getWalletSeqno.
ReadSeqno(w) ==
  /\ At(w, "SEQNO")
  /\ worker' = [worker EXCEPT ![w].at = "READY", ![w].plan.seqno = wallet]
  /\ UNCHANGED <<ledger, sweeps, chain, signing, faults>>

\* markSweepReady: the plan is durable before anything is broadcast.
PlanningUnowned(w) == Row(w).status = "READY"
Planning(w) == Owns(w) /\ Row(w).status = "READY"

MarkReady(w) ==
  /\ At(w, "READY")
  /\ IF Planning(w)
     THEN SetRow(w, [Row(w) EXCEPT !.plan = worker[w].plan]) /\ GoTo(w, "SEND")
     ELSE GoTo(w, "FAIL") /\ UNCHANGED sweeps
  /\ UNCHANGED <<ledger, chain, signing, faults>>

\* sendSweepTransfer, signed for the seqno of the plan.
SignedAfresh(w) == [Message(worker[w].job, worker[w].plan) EXCEPT !.seqno = wallet]
Signed(w) == Message(worker[w].job, worker[w].plan)

Send(w) ==
  /\ At(w, "SEND")
  /\ pending' = pending \cup {Signed(w)}
  /\ GoTo(w, "SENT")
  /\ UNCHANGED <<ledger, sweeps, wallet, sent, signing, faults>>

\* The broadcast fails, and may have reached the network all the same.
SendFails(w) ==
  /\ At(w, "SEND")
  /\ Fault
  /\ pending' \in {pending, pending \cup {Signed(w)}}
  /\ GoTo(w, "FAIL")
  /\ UNCHANGED <<ledger, sweeps, wallet, sent, signing>>

\* markSweepSent.  sentAt is the block time of a transfer that was found; after
\* a broadcast it is the clock when the answer arrives, which may be LATE: in a
\* later second than the block that has the transfer.
SentAt(w) ==
  {"EARLY"} \cup (IF ~worker[w].found /\ IsOnChain(worker[w].job)
                  THEN {"LATE"} ELSE {})

MarkSent(w) ==
  /\ At(w, "SENT")
  /\ IF Planning(w)
     THEN /\ \E s \in SentAt(w) :
               SetRow(w, [Row(w) EXCEPT !.status = "SENT", !.sentAt = s])
          /\ worker' = [worker EXCEPT ![w].status = "SENT",
               ![w].at = IF worker[w].found THEN "CONFIRM" ELSE "FIND"]
     ELSE GoTo(w, "FAIL") /\ UNCHANGED sweeps
  /\ UNCHANGED <<ledger, chain, signing, faults>>
-----------------------------------------------------------------------------
(* The end of a call.                                                       *)

\* markSweepConfirmed: the outgoing movement and the planner are part of the
\* same transaction.
ConfirmedRow(row) ==
  [row EXCEPT !.status = "CONFIRMED", !.owner = Nobody, !.leased = FALSE,
     !.case = IF @ = "OPEN" THEN "RESOLVED" ELSE @]
AfterConfirmUnplanned(w) ==
  [sweeps EXCEPT !["GRAM"][worker[w].job] = ConfirmedRow(Row(w))]
AfterConfirm(w) ==
  Reconciled(stage, order, [sweeps EXCEPT !["GRAM"][worker[w].job] = ConfirmedRow(Row(w))])

Confirm(w) ==
  /\ At(w, "CONFIRM")
  /\ IF Owns(w) /\ Row(w).status = "SENT"
     THEN sweeps' = AfterConfirm(w) /\ GoTo(w, "RELEASE")
     ELSE GoTo(w, "FAIL") /\ UNCHANGED sweeps
  /\ UNCHANGED <<ledger, chain, signing, faults>>

\* prismaTonWalletSigningLease.release.
Release(w) ==
  /\ At(w, "RELEASE")
  /\ signing' = IF signing.owner = w THEN [owner |-> Nobody, leased |-> FALSE] ELSE signing
  /\ EndCall(w)
  /\ UNCHANGED <<ledger, sweeps, chain, faults>>

\* markSweepFailed, with its recovery case; nothing if the job has been lost.
FailedRow(row) ==
  [row EXCEPT !.status = "FAILED", !.owner = Nobody, !.leased = TRUE, !.case = "OPEN"]
MarkFailed(w) ==
  IF Owns(w) /\ Row(w).status \in {"READY", "SENT"} THEN SetRow(w, FailedRow(Row(w)))
  ELSE UNCHANGED sweeps

\* Too little to sweep.
Short(w) ==
  /\ At(w, "SHORT")
  /\ MarkFailed(w)
  /\ GoTo(w, "RELEASE")
  /\ UNCHANGED <<ledger, chain, signing, faults>>

\* The catch block, which does not release the wallet.
Fail(w) ==
  /\ At(w, "FAIL")
  /\ MarkFailed(w)
  /\ signing' = [signing EXCEPT !.owner = Forgotten(w, @)]
  /\ EndCall(w)
  /\ UNCHANGED <<ledger, chain, faults>>
-----------------------------------------------------------------------------
(* What may go wrong, and everybody else.                                   *)

\* A call to the database or to the provider fails.
Throws(w) ==
  /\ worker[w].at \notin {"IDLE", "LISTED", "FAIL"}
  /\ Fault
  /\ GoTo(w, "FAIL")
  /\ UNCHANGED <<ledger, sweeps, chain, signing>>

Crash(w) ==
  /\ ~At(w, "IDLE")
  /\ Fault
  /\ SetRow(w, [Row(w) EXCEPT !.owner = Forgotten(w, @)])
  /\ signing' = [signing EXCEPT !.owner = Forgotten(w, @)]
  /\ EndCall(w)
  /\ UNCHANGED <<ledger, chain>>

\* A call takes longer than its leases.
Slow(w) ==
  /\ worker[w].at \notin {"IDLE", "LISTED"}
  /\ ~worker[w].slow
  /\ Fault
  /\ worker' = [worker EXCEPT ![w].slow = TRUE]
  /\ UNCHANGED <<ledger, sweeps, chain, signing>>

\* A lease runs out.  Its owner stays, and writes on until somebody takes over.
MayEnd(lease) ==
  lease.leased /\ (lease.owner \in Workers => worker[lease.owner].slow)

JobLeaseEnds(n) ==
  /\ MayEnd(Gram[n])
  /\ sweeps' = [sweeps EXCEPT !["GRAM"][n].leased = FALSE]
  /\ UNCHANGED <<ledger, chain, signing, worker, faults>>

SigningLeaseEnds ==
  /\ MayEnd(signing)
  /\ signing' = [signing EXCEPT !.leased = FALSE]
  /\ UNCHANGED <<ledger, sweeps, chain, worker, faults>>

\* retrySweep.
AdminRetry(n) ==
  /\ Gram[n].status = "FAILED"
  /\ sweeps' = [sweeps EXCEPT !["GRAM"][n] =
       [@ EXCEPT !.status = Resumed(Gram[n]), !.owner = Nobody, !.leased = FALSE]]
  /\ UNCHANGED <<ledger, chain, signing, worker, faults>>

\* The wallet contract takes a message with its own seqno and ignores errors: it
\* uses up the seqno, and sends nothing when the coins do not suffice.  Fees
\* come out of the reserve.
Execute(m) ==
  /\ m.seqno = wallet
  /\ wallet' = wallet + 1
  /\ pending' = {x \in pending : x.seqno > wallet}
  /\ sent' = IF m.amount <= Balance THEN Append(sent, m) ELSE sent
  /\ UNCHANGED <<ledger, sweeps, signing, worker, faults>>

\* The USDT worker signs for the same wallet when it has the lease.
UsdtSweep ==
  /\ ~signing.leased
  /\ ConfirmUsdt
  /\ wallet' = wallet + 1
  /\ pending' = {x \in pending : x.seqno > wallet}
  /\ UNCHANGED <<sent, signing, worker, faults>>
-----------------------------------------------------------------------------
Init ==
  /\ LedgerInit
  /\ wallet = 0
  /\ pending = {}
  /\ sent = <<>>
  /\ signing = [owner |-> Nobody, leased |-> FALSE]
  /\ worker = [w \in Workers |-> Idle]
  /\ faults = 0

\* sweepTonDepositAddress, one await at a time.
Sweep(w) ==
  \/ List(w) \/ Claim(w) \/ Acquire(w) \/ Defer(w)
  \/ Find(w) \/ SeqnoPassed(w)
  \/ ReadBalance(w) \/ ReadSeqno(w) \/ MarkReady(w) \/ Send(w) \/ MarkSent(w)
  \/ Confirm(w) \/ Release(w) \/ Short(w) \/ Fail(w)

Disturbs(w) == SendFails(w) \/ Throws(w) \/ Crash(w) \/ Slow(w)

LeaseEnds == SigningLeaseEnds \/ \E n \in DOMAIN Gram : JobLeaseEnds(n)

Next ==
  \/ Ledger /\ UNCHANGED <<chain, signing, worker, faults>>
  \/ \E w \in Workers : Sweep(w) \/ Disturbs(w)
  \/ LeaseEnds
  \/ \E n \in DOMAIN Gram : AdminRetry(n)
  \/ \E m \in pending : Execute(m)
  \/ UsdtSweep

Spec == Init /\ [][Next]_vars

\* The workers poll, and leases end.
FairSpec ==
  /\ Spec
  /\ \A w \in Workers : WF_vars(Sweep(w))
  /\ WF_vars(SigningLeaseEnds)
  /\ \A n \in 1..MaxSweeps : WF_vars(n \in DOMAIN Gram /\ JobLeaseEnds(n))
-----------------------------------------------------------------------------
Rows == [reason: TriggerReasons, trigger: Nat,
         status: {"QUEUED", "READY", "SENT", "CONFIRMED", "FAILED"},
         plan: Plans \cup {NoPlan}, sentAt: {"NONE", "EARLY", "LATE"},
         owner: Owners, leased: BOOLEAN, case: {"NONE", "OPEN", "RESOLVED"}]

\* The types of the rows and of the workers' local state.
TypeOK ==
  /\ stage \in [Transfers -> Stages]
  /\ order \in OrderStatuses
  /\ sweeps \in [Assets -> Seq(Rows)]
  /\ wallet \in Nat
  /\ pending \subseteq Messages
  /\ sent \in Seq(Messages)
  /\ signing \in [owner: Owners, leased: BOOLEAN]
  /\ worker \in [Workers -> [at: Places, job: Nat, status: {"NONE", "READY", "SENT"},
                             plan: [amount: Nat, seqno: Nat \cup {-1}], found: BOOLEAN, slow: BOOLEAN]]
  /\ faults \in 0..MaxFaults

\* No job moves coins twice, whichever workers have had it, lost it or believe
\* to have it still, and however often it was broadcast (sweepTonDepositAddress).
SweptOnce ==
  \A i, j \in DOMAIN sent : sent[i].job = sent[j].job => i = j

\* Whatever has been broadcast is what the job's row says: the plan was durable
\* before (markSweepReady), and has not been replaced by another call since.
PlannedFirst ==
  \A x \in pending \cup {sent[i] : i \in DOMAIN sent} :
    x.job \in DOMAIN Gram /\ x = Message(x.job, Gram[x.job].plan)

\* Plans never compete for the coins of the wallet: a transfer that it will
\* accept finds what it was planned with, and leaves the reserve.
ReserveKept ==
  \A x \in pending : x.seqno = wallet => x.amount + Reserve <= Balance

\* reconcileAutomaticAssetSweeps forgets nothing: the last sweep of a paid order
\* is still under way, or was triggered by all that the asset was credited, or
\* all of that but the reserve has left.  In particular no intermediate sweep has
\* taken the last sequence, which is reserved to PAID.
PaidOrderIsSwept ==
  order = "PAID" /\ MaxSweeps > 0 =>
    \A a \in Assets :
      LET rows == sweeps[a]
      IN  \/ CreditedFiat(stage, a) = 0
          \/ /\ rows # <<>>
             /\ \/ rows[Len(rows)].status # "CONFIRMED"
                \/ rows[Len(rows)].trigger = CreditedFiat(stage, a)
                \/ AmountOf(Credited(stage, a)) - SweptAmount(rows) <= Retained(a, rows)

\* No job is left lying: a worker that dies or stalls loses it to another, until
\* it is sent, confirmed or failed, and a sent job whose transfer can be found
\* is confirmed or failed.
Underway(n) ==
  /\ n \in DOMAIN Gram
  /\ \/ Gram[n].status \in {"QUEUED", "READY"}
     \/ /\ Gram[n].status = "SENT" /\ Gram[n].sentAt = "EARLY"
        /\ IsOnChain(n)
JobsAdvance == \A n \in 1..MaxSweeps : []<>~Underway(n)
=============================================================================
