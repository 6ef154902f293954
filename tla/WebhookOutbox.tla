--------------------------- MODULE WebhookOutbox ---------------------------
(***************************************************************************)
(* The transactional webhook outbox and the workers that deliver it.       *)
(* Triggers insert an event in the transaction of the change it reports.   *)
(* Any number of workers list due events, claim one at a time under a      *)
(* lease, journal the attempt, POST it to the merchant and record the      *)
(* outcome under the fence of owner and attempt number.                    *)
(***************************************************************************)
EXTENDS Naturals, Sequences, FiniteSets

CONSTANTS
  Events,      \* the events the triggers will enqueue
  Workers,     \* webhook worker processes
  NoWorker,    \* the null lease owner
  BatchLimit,  \* TONHUB_WEBHOOK_BATCH_SIZE
  MaxDelay,    \* longest time an undisturbed delivery takes: the HTTP timeout
               \* and the five seconds the configuration adds to it
  Lease,       \* TONHUB_WEBHOOK_LEASE_SECONDS
  BaseRetry, MaxRetry,
  MaxFaults    \* bound on crashes, stalls, lost answers, refusals and
               \* failing transactions in one behaviour

\* resolveWebhookConfig refuses a lease the HTTP timeout could outlive.
ASSUME OutboxAssumption ==
  /\ IsFiniteSet(Events)
  /\ NoWorker \notin Workers
  /\ BatchLimit \in Nat \ {0}
  /\ MaxDelay \in Nat /\ Lease \in Nat /\ Lease > MaxDelay
  /\ BaseRetry \in Nat \ {0} /\ MaxRetry \in Nat /\ BaseRetry <= MaxRetry
  /\ MaxFaults \in Nat

VARIABLES
  now,       \* the clock
  outbox,    \* TonhubOutboxEvent rows
  journal,   \* TonhubWebhookDeliveryAttempt: per event, the attempts' statuses
  worker,    \* the workers' local state
  inflight,  \* requests <<event, attempt>> under way to the merchant
  accepted,  \* requests the merchant answered with 2xx
  faults     \* what went wrong so far

vars == <<now, outbox, journal, worker, inflight, accepted, faults>>

Statuses == {"ABSENT", "PENDING", "DELIVERING", "DELIVERED", "FAILED"}

Rows == [status : Statuses, attempts : Nat, availableAt : Nat,
         leaseOwner : Workers \cup {NoWorker}, leaseExpiresAt : Nat]

\* A worker handles the head of its queue; late: it was held up for longer than
\* MaxDelay (a suspended process, a lost network) since it read the clock.
WorkerStates == [phase : {"IDLE", "LISTED", "CLAIMING", "SENDING", "FAILING"},
                 queue : Seq(Events), attempt : Nat, startedAt : Nat, late : BOOLEAN]

\* The worker of one process start.
Idle == [phase |-> "IDLE", queue |-> <<>>, attempt |-> 0, startedAt |-> 0, late |-> FALSE]

Init ==
  /\ now = 0
  /\ outbox = [e \in Events |-> [status |-> "ABSENT", attempts |-> 0, availableAt |-> 0,
                                 leaseOwner |-> NoWorker, leaseExpiresAt |-> 0]]
  /\ journal = [e \in Events |-> <<>>]
  /\ worker = [w \in Workers |-> Idle]
  /\ inflight = {} /\ accepted = {}
  /\ faults = 0

Ev(w)      == Head(worker[w].queue)
Request(w) == <<Ev(w), worker[w].attempt>>
Busy(w)    == worker[w].phase \in {"CLAIMING", "SENDING", "FAILING"}

Fault   == faults < MaxFaults /\ faults' = faults + 1
NoFault == UNCHANGED faults

\* Mutant of NextInBatch: the end of the batch is not noticed.
NextInBatchUnbounded(w) ==
  worker' = [worker EXCEPT ![w] = [Idle EXCEPT !.phase = "LISTED", !.queue = Tail(worker[w].queue)]]

\* The rest of the batch, after an event is dealt with.
NextInBatch(w) ==
  LET rest == Tail(worker[w].queue)
  IN  worker' = [worker EXCEPT ![w] =
        [Idle EXCEPT !.phase = IF rest = <<>> THEN "IDLE" ELSE "LISTED", !.queue = rest]]

-----------------------------------------------------------------------------
\* An event is inserted by the transaction that makes it true.
Enqueue(e) ==
  /\ outbox[e].status = "ABSENT"
  /\ outbox' = [outbox EXCEPT ![e].status = "PENDING", ![e].availableAt = now]
  /\ UNCHANGED <<now, journal, worker, inflight, accepted, faults>>

\* Mutants of IsDue: an expired lease is not taken over; a live one is.
IsDueWithoutTakeover(row, t) == row.status \in {"PENDING", "FAILED"} /\ row.availableAt <= t
IsDueDespiteLease(row, t) ==
  row.status \in {"PENDING", "FAILED", "DELIVERING"} /\ row.availableAt <= t

IsDue(row, t) ==
  \/ row.status \in {"PENDING", "FAILED"} /\ row.availableAt <= t
  \/ row.status = "DELIVERING" /\ row.leaseExpiresAt <= t

Due == {e \in Events : IsDue(outbox[e], now)}

\* The first BatchLimit due events by availableAt; ties in any order.
Batches ==
  {q \in [1 .. IF Cardinality(Due) < BatchLimit THEN Cardinality(Due) ELSE BatchLimit -> Due] :
     \A j \in DOMAIN q :
       /\ \A k \in 1 .. j - 1 : q[k] # q[j]
       /\ \A e \in Due \ {q[k] : k \in 1 .. j} : outbox[q[j]].availableAt <= outbox[e].availableAt}

ListDue(w) ==
  /\ worker[w].phase = "IDLE"
  /\ Due # {}
  /\ \E q \in Batches :
       worker' = [worker EXCEPT ![w].phase = "LISTED", ![w].queue = q]
  /\ UNCHANGED <<now, outbox, journal, inflight, accepted, faults>>

\* deliverWebhookEvent reads the clock before it claims.
ReadClock(w) ==
  /\ worker[w].phase = "LISTED"
  /\ worker' = [worker EXCEPT ![w].phase = "CLAIMING", ![w].startedAt = now]
  /\ UNCHANGED <<now, outbox, journal, inflight, accepted, faults>>

Claimed(row, w) ==
  [row EXCEPT !.status = "DELIVERING", !.attempts = @ + 1, !.leaseOwner = w,
              !.leaseExpiresAt = worker[w].startedAt + Lease]

\* Mutant of ClaimRow: the update does not repeat the condition of the listing.
ClaimRowUnchecked(w) ==
  /\ outbox' = [outbox EXCEPT ![Ev(w)] = Claimed(@, w)]
  /\ journal' = [journal EXCEPT ![Ev(w)] = Append(@, "STARTED")]

\* The claim's transaction: the row under a new lease, and the attempt's row.
ClaimRow(w) ==
  /\ IsDue(outbox[Ev(w)], worker[w].startedAt)
  /\ outbox' = [outbox EXCEPT ![Ev(w)] = Claimed(@, w)]
  /\ journal' = [journal EXCEPT ![Ev(w)] = Append(@, "STARTED")]

\* A claimed event is sent at once.
Claim(w) ==
  /\ worker[w].phase = "CLAIMING"
  /\ ClaimRow(w)
  /\ LET n == outbox[Ev(w)].attempts + 1
     IN  /\ worker' = [worker EXCEPT ![w].phase = "SENDING", ![w].attempt = n]
         /\ inflight' = inflight \cup {<<Ev(w), n>>}
  /\ NoFault
  /\ UNCHANGED <<now, accepted>>

ClaimedByOther(w) ==
  /\ worker[w].phase = "CLAIMING"
  /\ ~ IsDue(outbox[Ev(w)], worker[w].startedAt)
  /\ NextInBatch(w)
  /\ UNCHANGED <<now, outbox, journal, inflight, accepted, faults>>

\* The claim throws, before or after its commit: the batch goes on.
ClaimThrows(w) ==
  /\ worker[w].phase = "CLAIMING"
  /\ ClaimRow(w) \/ UNCHANGED <<outbox, journal>>
  /\ NextInBatch(w)
  /\ Fault
  /\ UNCHANGED <<now, inflight, accepted>>

-----------------------------------------------------------------------------
\* The merchant's endpoint, which may see a request long after the worker gave up.
MerchantAccepts(r) ==
  /\ r \in inflight
  /\ inflight' = inflight \ {r}
  /\ accepted' = accepted \cup {r}
  /\ UNCHANGED <<now, outbox, journal, worker, faults>>

MerchantRefuses(r) ==
  /\ r \in inflight
  /\ inflight' = inflight \ {r}
  /\ Fault
  /\ UNCHANGED <<now, outbox, journal, worker, accepted>>

\* Mutant of Holds: the fence is the status alone.
HoldsAnyClaim(w) == outbox[Ev(w)].status = "DELIVERING"

\* The fence: the row is still this worker's claim.
Holds(w) ==
  LET row == outbox[Ev(w)]
  IN  row.status = "DELIVERING" /\ row.leaseOwner = w /\ row.attempts = worker[w].attempt

Release(row, status) ==
  [row EXCEPT !.status = status, !.leaseOwner = NoWorker, !.leaseExpiresAt = 0]

Journaled(w, status) ==
  /\ journal[Ev(w)][worker[w].attempt] = "STARTED"
  /\ journal' = [journal EXCEPT ![Ev(w)][worker[w].attempt] = status]

RecordDelivered(w) ==
  /\ Holds(w)
  /\ outbox' = [outbox EXCEPT ![Ev(w)] = Release(@, "DELIVERED")]
  /\ Journaled(w, "DELIVERED")

Failing(w) == worker' = [worker EXCEPT ![w].phase = "FAILING"]

\* A 2xx answer reaches the worker, and the outcome is recorded ...
Delivered(w) ==
  /\ worker[w].phase = "SENDING"
  /\ Request(w) \in accepted
  /\ RecordDelivered(w)
  /\ NextInBatch(w)
  /\ UNCHANGED <<now, inflight, accepted, faults>>

\* ... or has lost its lease, which throws into the same catch ...
LostLease(w) ==
  /\ worker[w].phase = "SENDING"
  /\ Request(w) \in accepted
  /\ ~ Holds(w)
  /\ Failing(w)
  /\ UNCHANGED <<now, outbox, journal, inflight, accepted, faults>>

\* ... as does a transaction that fails before or after its commit.
DeliveredThrows(w) ==
  /\ worker[w].phase = "SENDING"
  /\ Request(w) \in accepted
  /\ RecordDelivered(w) \/ UNCHANGED <<outbox, journal>>
  /\ Failing(w)
  /\ Fault
  /\ UNCHANGED <<now, inflight, accepted>>

Refused(w) ==
  /\ worker[w].phase = "SENDING"
  /\ Request(w) \notin inflight \cup accepted
  /\ Failing(w)
  /\ UNCHANGED <<now, outbox, journal, inflight, accepted, faults>>

\* The timeout, or a connection that breaks; the request may arrive all the same.
NoAnswer(w) ==
  /\ worker[w].phase = "SENDING"
  /\ Failing(w)
  /\ Fault
  /\ UNCHANGED <<now, outbox, journal, inflight, accepted>>

\* webhookRetryDelayMs: exponential, with ten per cent of jitter either way.
RetryDelays(attempt) ==
  LET exponent    == IF attempt - 1 < 30 THEN attempt - 1 ELSE 30
      grown       == BaseRetry * 2 ^ exponent
      exponential == IF grown < MaxRetry THEN grown ELSE MaxRetry
  IN  {d \in 0 .. MaxRetry : (exponential * 9) \div 10 <= d /\ d <= (exponential * 11) \div 10}

RecordFailed(w) ==
  /\ Holds(w)
  /\ \E delay \in RetryDelays(worker[w].attempt) :
       outbox' = [outbox EXCEPT ![Ev(w)] =
                    [Release(@, "FAILED") EXCEPT !.availableAt = now + delay]]
  /\ Journaled(w, "FAILED")

Failed(w) ==
  /\ worker[w].phase = "FAILING"
  /\ RecordFailed(w)
  /\ NextInBatch(w)
  /\ UNCHANGED <<now, inflight, accepted, faults>>

\* worker-error: the lease was lost, or the transaction fails.
FailedLostLease(w) ==
  /\ worker[w].phase = "FAILING"
  /\ ~ Holds(w)
  /\ NextInBatch(w)
  /\ UNCHANGED <<now, outbox, journal, inflight, accepted, faults>>

FailedThrows(w) ==
  /\ worker[w].phase = "FAILING"
  /\ RecordFailed(w) \/ UNCHANGED <<outbox, journal>>
  /\ NextInBatch(w)
  /\ Fault
  /\ UNCHANGED <<now, inflight, accepted>>

-----------------------------------------------------------------------------
\* A process dies and a new one starts; what it claimed stays claimed.
Crash(w) ==
  /\ worker[w].phase # "IDLE"
  /\ worker' = [worker EXCEPT ![w] = Idle]
  /\ Fault
  /\ UNCHANGED <<now, outbox, journal, inflight, accepted>>

\* A process is held up while it handles an event.
Stall(w) ==
  /\ Busy(w) /\ ~ worker[w].late
  /\ worker' = [worker EXCEPT ![w].late = TRUE]
  /\ Fault
  /\ UNCHANGED <<now, outbox, journal, inflight, accepted>>

\* retryWebhook of the admin console.
AdminRetry(e) ==
  /\ outbox[e].status = "FAILED"
  /\ outbox' = [outbox EXCEPT ![e] = [Release(@, "PENDING") EXCEPT !.availableAt = now]]
  /\ UNCHANGED <<now, journal, worker, inflight, accepted, faults>>

\* Time passes while it can matter, and an undisturbed delivery is over by MaxDelay.
Tick ==
  /\ \A w \in Workers : Busy(w) /\ ~ worker[w].late => now < worker[w].startedAt + MaxDelay
  /\ \/ \E e \in Events : outbox[e].status \in {"PENDING", "FAILED"} /\ outbox[e].availableAt > now
     \/ \E e \in Events : outbox[e].status = "DELIVERING" /\ outbox[e].leaseExpiresAt > now
     \/ \E w \in Workers : worker[w].late /\ worker[w].startedAt + Lease > now
  /\ now' = now + 1
  /\ UNCHANGED <<outbox, journal, worker, inflight, accepted, faults>>

Deliver(w) ==
  \/ ListDue(w) \/ ReadClock(w) \/ Claim(w) \/ ClaimedByOther(w)
  \/ Delivered(w) \/ LostLease(w) \/ Refused(w) \/ Failed(w) \/ FailedLostLease(w)

Disturb(w) ==
  \/ ClaimThrows(w) \/ DeliveredThrows(w) \/ NoAnswer(w) \/ FailedThrows(w)
  \/ Crash(w) \/ Stall(w)

Next ==
  \/ \E e \in Events : Enqueue(e) \/ AdminRetry(e)
  \/ \E w \in Workers : Deliver(w) \/ Disturb(w)
  \/ \E r \in inflight : MerchantAccepts(r) \/ MerchantRefuses(r)
  \/ Tick

Spec == Init /\ [][Next]_vars

\* The workers run in --watch mode, the merchant answers what is being waited
\* for, and time passes; nothing is assumed of triggers, operators and faults.
Fairness ==
  /\ WF_vars(Tick)
  /\ \A w \in Workers :
       /\ WF_vars(Deliver(w))
       /\ WF_vars(worker[w].phase = "SENDING" /\ MerchantAccepts(Request(w)))

FairSpec == Spec /\ Fairness
-----------------------------------------------------------------------------
TypeOK ==
  /\ now \in Nat /\ faults \in Nat
  /\ outbox \in [Events -> Rows]
  /\ journal \in [Events -> Seq({"STARTED", "DELIVERED", "FAILED"})]
  /\ worker \in [Workers -> WorkerStates]
  /\ \A w \in Workers : worker[w].phase # "IDLE" => worker[w].queue # <<>>
  /\ inflight \cup accepted \subseteq Events \X (Nat \ {0})

\* How the last attempt stands when the event has a status.
LastAttempt == [DELIVERING |-> "STARTED", DELIVERED |-> "DELIVERED",
                FAILED |-> "FAILED", PENDING |-> "FAILED"]

\* The journal agrees with the row, whichever of the attempts answers last: one
\* row per attempt, the last one with the row's outcome and the earlier ones
\* never delivered; a claim that was abandoned stays STARTED (webhooks.ts, the
\* fences of delivered and failed).
OutcomeMatchesJournal ==
  \A e \in Events :
    LET row == outbox[e]
        n   == Len(journal[e])
    IN  /\ row.attempts = n
        /\ \A k \in 1 .. n - 1 : journal[e][k] # "DELIVERED"
        /\ row.status \in {"DELIVERING", "DELIVERED", "FAILED"} => n > 0
        /\ n > 0 => row.status # "ABSENT" /\ journal[e][n] = LastAttempt[row.status]

\* No two workers wait for the merchant with one event at the same time, unless
\* one of them was held up: an undisturbed delivery ends before its lease does.
LeaseCoversDelivery ==
  \A w \in Workers :
    worker[w].phase = "SENDING" /\ ~ worker[w].late =>
      Holds(w) /\ now < outbox[Ev(w)].leaseExpiresAt

\* An event is sent again only because something went wrong with it before:
\* neither the race of two workers for it nor an operator's retry repeats one
\* that went well.
RepeatsAreCaused == \A e \in Events : outbox[e].attempts <= 1 + faults

\* A delivered event is never reopened, by a stale worker or by an operator.
DeliveredIsFinal ==
  [][\A e \in Events : outbox[e].status = "DELIVERED" =>
       outbox'[e] = outbox[e] /\ journal'[e] = journal[e]]_vars

\* At-least-once delivery: an event that was enqueued is accepted by the
\* merchant and closed, and never closed before that ("Failed events retry
\* forever", README.md).
Promise == INSTANCE EventDelivery WITH
  enqueued <- {e \in Events : outbox[e].status # "ABSENT"},
  accepted <- {r[1] : r \in accepted},
  closed   <- {e \in Events : outbox[e].status = "DELIVERED"}

AtLeastOnce == Promise!Spec
=============================================================================
