-------------------------- MODULE SettlementBatch --------------------------
(***************************************************************************)
(* The settlement workers (worker/mixed-settlement.ts) with the rates they *)
(* value payments with.  A batch lists the deposits that are due and have  *)
(* work, at most Limit of them, claims one after the other by putting off  *)
(* its next attempt, and settles it (backend/mixed-settlement.ts): one     *)
(* ledger transaction per movement, in the order of the blockchain, up to  *)
(* the first that has to wait.  What is settled or refused is not put off  *)
(* any longer.                                                             *)
(*                                                                         *)
(* Every order is in EUR, with one attempt and its deposit wallet, and     *)
(* what the ledger decides (MovementLedger) is reduced to whether it does, *)
(* and at which rate.  No payment is worth nothing, and an attempt that is *)
(* partly paid outlives MaxTime.  Whatever waits is counted in ticks, as   *)
(* the clock stops at MaxTime.                                             *)
(***************************************************************************)
EXTENDS Rates, Sequences, SequencesExt

CONSTANTS
  Deposits,    \* deposit wallets, numbered in the order of their ids
  Movements,   \* incoming transfers, numbered in the order of the chain
  DepositOf, AssetOf,
  Broken,      \* the deposits on which every ledger transaction throws
  Workers,
  Limit,       \* TON_MOVEMENT_SETTLEMENT_BATCH_SIZE
  Retry,       \* TON_MOVEMENT_SETTLEMENT_RETRY_SECONDS
  Ttl,         \* when the attempts expire
  MaxLag,      \* bound on the ticks from the start of a batch to the next
  MaxOverdue,  \* bound on the ticks an overdue deposit is told apart by
  MaxFaults

VARIABLES
  movements,   \* [status, at, rate, age], age: ticks since the row was updated
  wait,        \* settlementNextAttemptAt of a deposit, in ticks from now
  attempts,    \* the attempt that a deposit wallet belongs to
  workers,
  faults

settlement == <<movements, wait, attempts, workers, faults>>
vars       == <<now, rates, settlement>>

ASSUME BatchAssumption ==
  /\ Deposits \cup Movements \subseteq Nat
  /\ DepositOf \in [Movements -> Deposits]
  /\ AssetOf \in [Movements -> {"GRAM", "USDT"}]
  /\ Broken \subseteq Deposits
  /\ {Limit, Retry} \subseteq Nat \ {0}
  /\ {Ttl, MaxLag, MaxOverdue, MaxFaults} \subseteq Nat

\* No next attempt is set: due, and before every one that is (nulls first).
Unset == -(MaxOverdue + 1)

Idle == [place |-> "IDLE", list |-> <<>>, todo |-> {}, at |-> 0, lag |-> 0]

Init ==
  /\ RatesInit
  /\ movements = [m \in Movements |->
                    [status |-> IF DepositOf[m] \in Broken THEN "OBSERVED" ELSE "UNSEEN",
                     at |-> 0, rate |-> Never, age |-> 0]]
  /\ wait = [d \in Deposits |-> Unset]
  /\ attempts = [d \in Deposits |-> "ACTIVE"]
  /\ workers = [w \in Workers |-> Idle]
  /\ faults = 0
-----------------------------------------------------------------------------
(* The ledger.                                                              *)

MovementsOf(d) == {m \in Movements : DepositOf[m] = d}
Status(m)      == movements[m].status
Unresolved     == {m \in Movements : Status(m) \in {"OBSERVED", "RATE_PENDING"}}
HeldOf(d)      == {m \in MovementsOf(d) : Status(m) = "HELD_UNDER_MINIMUM"}
Earlier(m)     == {k \in Unresolved \cap MovementsOf(DepositOf[m]) : k < m}
Credited(d)    == {m \in MovementsOf(d) : Status(m) = "CREDITED"}

\* GRAM is valued at the rate that the first GRAM credited, or held, was.
GramRates(m, earlier) ==
  {movements[k].rate : k \in {k \in earlier : AssetOf[m] = "GRAM" /\ AssetOf[k] = "GRAM"}}
Locked(m) == GramRates(m, Credited(DepositOf[m]))
Kept(m)   == Locked(m) \cup GramRates(m, HeldOf(DepositOf[m]))

Rated(m)  == Locked(m) # {} \/ HasRate(AssetOf[m], "EUR", movements[m].at)
Waits(m)  == m \in Unresolved /\ (Earlier(m) # {} \/ ~Rated(m))
Rate(m)   == IF Kept(m) # {} THEN Min(Kept(m))
             ELSE Newest(AssetOf[m], "EUR", movements[m].at).at

\* creditMovement has to wait: for an earlier movement, or for a rate.
Postpone(m) ==
  /\ Waits(m)
  /\ movements' = IF Earlier(m) # {} THEN movements
                  ELSE [movements EXCEPT ![m].status = "RATE_PENDING", ![m].age = 0]
  /\ UNCHANGED attempts

\* It decides: the first payments are held, or credited together with those
\* that were, which may pay the order, or put it before an operator.
Hold(m) ==
  /\ attempts[DepositOf[m]] = "ACTIVE"
  /\ Credited(DepositOf[m]) = {} /\ movements[m].at <= Ttl
  /\ movements' = [movements EXCEPT ![m].status = "HELD_UNDER_MINIMUM", ![m].rate = Rate(m)]
  /\ UNCHANGED attempts

Credit(m) ==
  /\ movements' = [k \in Movements |->
       IF k = m THEN [movements[m] EXCEPT !.status = "CREDITED", !.rate = Rate(m)]
       ELSE IF k \in HeldOf(DepositOf[m]) THEN [movements[k] EXCEPT !.status = "CREDITED"]
       ELSE movements[k]]
  /\ \E status \in {attempts[DepositOf[m]], "CLOSED"} :
       attempts' = [attempts EXCEPT ![DepositOf[m]] = status]

Decide(m) ==
  /\ ~Waits(m)
  /\ IF m \in Unresolved
       THEN Hold(m) \/ Credit(m)
       ELSE UNCHANGED <<movements, attempts>>
-----------------------------------------------------------------------------
(* The batch.                                                               *)

\* A batch keeps the time it began at: lag ticks ago.
Due(d, lag) == wait[d] + lag <= 0

Eligible(m, at, lag) ==
  /\ movements[m].at <= at
  /\ \/ Status(m) = "OBSERVED"
     \/ Status(m) = "RATE_PENDING" /\ movements[m].age - lag >= Retry

HasWork(d) ==
  \/ \E m \in MovementsOf(d) : Eligible(m, now, 0)
  \/ HeldOf(d) # {} /\ attempts[d] = "ACTIVE" /\ Ttl <= now

ById(d, e) == d < e
ByTurn(d, e) == wait[d] < wait[e] \/ (wait[d] = wait[e] /\ d < e)

Batch(w) ==
  /\ workers[w].place = "IDLE"
  /\ LET due  == SetToSortSeq({d \in Deposits : Due(d, 0) /\ HasWork(d)}, ByTurn)
         list == SubSeq(due, 1, IF Len(due) < Limit THEN Len(due) ELSE Limit)
     IN  workers' = [workers EXCEPT ![w] =
           IF list = <<>> THEN Idle ELSE [Idle EXCEPT !.place = "NEXT", !.list = list, !.at = now]]
  /\ UNCHANGED <<now, rates, movements, wait, attempts, faults>>

\* On to the next deposit of the batch.
Done(w) ==
  LET rest == Tail(workers[w].list)
  IN  [workers EXCEPT ![w] =
         IF rest = <<>> THEN [Idle EXCEPT !.lag = workers[w].lag]
         ELSE [@ EXCEPT !.place = "NEXT", !.list = rest, !.todo = {}]]

\* Nobody else has claimed it since: its next attempt is put off, and what
\* there is to settle is read.
Claim(w) ==
  /\ workers[w].place = "NEXT"
  /\ LET d == Head(workers[w].list)
         lag == workers[w].lag
     IN  IF Due(d, lag)
           THEN /\ wait' = [wait EXCEPT ![d] = Retry - lag]
                /\ workers' = [workers EXCEPT ![w].place = "SETTLING",
                     ![w].todo = {m \in MovementsOf(d) : Eligible(m, workers[w].at, lag)}]
           ELSE workers' = Done(w) /\ UNCHANGED wait
  /\ UNCHANGED <<now, rates, movements, attempts, faults>>

Settling(w, d) ==
  workers[w].place = "SETTLING" /\ d = Head(workers[w].list) /\ d \notin Broken

SettleNext(w) ==
  \E d \in Deposits :
    /\ Settling(w, d) /\ workers[w].todo # {}
    /\ LET m == Min(workers[w].todo)
       IN  \/ Postpone(m) /\ workers' = Done(w)
           \/ Decide(m) /\ workers' = [workers EXCEPT ![w].todo = @ \ {m}]
    /\ UNCHANGED <<now, rates, wait, faults>>

Expiry(d, at) ==
  [attempts EXCEPT ![d] = IF Ttl < at /\ Credited(d) = {} THEN "CLOSED" ELSE @]

\* Nothing had to wait.
Finish(w) ==
  \E d \in Deposits :
    /\ Settling(w, d) /\ workers[w].todo = {}
    /\ attempts' = Expiry(d, workers[w].at)
    /\ wait' = IF wait[d] = Retry - workers[w].lag
                 THEN [wait EXCEPT ![d] = Unset] ELSE wait
    /\ workers' = Done(w)
    /\ UNCHANGED <<now, rates, movements, faults>>

Throws(w) ==
  /\ workers[w].place = "SETTLING"
  /\ IF Head(workers[w].list) \in Broken THEN UNCHANGED faults
     ELSE faults < MaxFaults /\ faults' = faults + 1
  /\ workers' = Done(w)
  /\ UNCHANGED <<now, rates, movements, wait, attempts>>

Crash(w) ==
  /\ faults < MaxFaults /\ faults' = faults + 1
  /\ workers[w].place # "IDLE"
  /\ workers' = [workers EXCEPT ![w] = [Idle EXCEPT !.lag = workers[w].lag]]
  /\ UNCHANGED <<now, rates, movements, wait, attempts>>

Settle(w) == Batch(w) \/ Claim(w) \/ SettleNext(w) \/ Finish(w) \/ Throws(w)
-----------------------------------------------------------------------------
(* The checkout, the blockchain and the clock.                              *)

Arrive(m) ==
  /\ Status(m) = "UNSEEN"
  /\ \A k \in Movements : k < m => Status(k) # "UNSEEN"
  /\ movements' = [movements EXCEPT ![m].status = "OBSERVED", ![m].at = now]
  /\ UNCHANGED <<now, rates, wait, attempts, workers, faults>>

Larger(x, y) == IF x < y THEN y ELSE x
Smaller(x, y) == IF x < y THEN x ELSE y

Tick ==
  /\ \A w \in Workers : workers[w].lag < MaxLag
  /\ now' = Smaller(now + 1, MaxTime)
  /\ wait' = [d \in Deposits |->
                IF wait[d] = Unset THEN Unset ELSE Larger(wait[d] - 1, -MaxOverdue)]
  /\ movements' = [m \in Movements |->
       [movements[m] EXCEPT !.age = IF Status(m) = "RATE_PENDING"
                                      THEN Smaller(@ + 1, Retry + MaxLag) ELSE 0]]
  /\ workers' = [w \in Workers |-> [workers[w] EXCEPT !.lag = @ + 1]]
  /\ UNCHANGED <<rates, attempts, faults>>
-----------------------------------------------------------------------------
RateWorkerFails ==
  /\ faults < MaxFaults /\ faults' = faults + 1
  /\ RefreshFails
  /\ UNCHANGED <<movements, wait, attempts, workers>>

Next ==
  \/ RateWorker /\ UNCHANGED settlement
  \/ RateWorkerFails
  \/ \E w \in Workers : Settle(w) \/ Crash(w)
  \/ \E m \in Movements : Arrive(m)
  \/ Tick

Spec == Init /\ [][Next]_vars

\* Time passes and the workers poll; nobody has to check, and no rate to come.
FairSpec == Spec /\ WF_vars(Tick) /\ \A w \in Workers : WF_vars(Settle(w))
-----------------------------------------------------------------------------
(* Properties.                                                              *)

\* A payment is valued at a rate of its time, or, in GRAM, at the rate of an
\* earlier payment, and a cross rate comes from observations of one time,
\* whatever was late, cached or stored before.
RatesAreOfTheirTime ==
  \A m \in Movements : movements[m].rate # Never =>
    /\ \E k \in MovementsOf(DepositOf[m]) :
         /\ k = m \/ (k < m /\ AssetOf[k] = "GRAM" /\ AssetOf[m] = "GRAM")
         /\ movements[k].rate = movements[m].rate
         /\ movements[k].at - movements[k].rate \in 0..MaxAge
    /\ \A s \in Known(AssetOf[m], "EUR", movements[m].at) :
         s.at = movements[m].rate => \A t, u \in s.of : t - u <= MaxAge

\* No deposit starves: a movement that can be settled is, and an attempt with
\* nothing but held payments expires, whatever fails or waits on other deposits.
Neglected(d) ==
  \/ \E m \in MovementsOf(d) \cap Unresolved : \A k \in Earlier(m) \cup {m} : Rated(k)
  \/ HeldOf(d) # {} /\ attempts[d] = "ACTIVE" /\ MovementsOf(d) \cap Unresolved = {}

DepositsAreServed == \A d \in Deposits \ Broken : []<>~Neglected(d)
=============================================================================
