------------------------ MODULE WebhookOutboxProofs ------------------------
(***************************************************************************)
(* What the webhook outbox guarantees for every number of events, workers, *)
(* faults and every lease, time-out and retry interval that satisfies      *)
(* OutboxAssumption.                                                       *)
(***************************************************************************)
EXTENDS WebhookOutbox, TLAPS, FiniteSetTheorems, SequenceTheorems

-----------------------------------------------------------------------------
(* Type correctness.                                                        *)

LEMMA HeadAndTail ==
  ASSUME NEW S, NEW q \in Seq(S), q # <<>>
  PROVE  Head(q) \in S /\ Tail(q) \in Seq(S)
BY HeadTailProperties

\* The event a worker is at, and its row.
LEMMA EventAtHand ==
  ASSUME TypeOK, NEW w \in Workers, worker[w].phase # "IDLE"
  PROVE  Ev(w) \in Events /\ Tail(worker[w].queue) \in Seq(Events)
<1>1. worker[w].queue \in Seq(Events) /\ worker[w].queue # <<>>
  BY DEF TypeOK, WorkerStates
<1> QED
  BY <1>1, HeadAndTail DEF Ev

LEMMA NextInBatchType ==
  ASSUME TypeOK, NEW w \in Workers, worker[w].phase # "IDLE", NextInBatch(w)
  PROVE  /\ worker' \in [Workers -> WorkerStates]
         /\ \A v \in Workers : worker'[v].phase # "IDLE" => worker'[v].queue # <<>>
<1>1. Tail(worker[w].queue) \in Seq(Events)
  BY EventAtHand
<1>2. worker \in [Workers -> WorkerStates]
      /\ \A v \in Workers : worker[v].phase # "IDLE" => worker[v].queue # <<>>
  BY DEF TypeOK
<1> DEFINE rest == Tail(worker[w].queue)
           next == [Idle EXCEPT !.phase = IF rest = <<>> THEN "IDLE" ELSE "LISTED",
                                !.queue = rest]
<1>3. next \in WorkerStates /\ (next.phase # "IDLE" => next.queue # <<>>)
  BY <1>1 DEF Idle, WorkerStates
<1>4. worker' = [worker EXCEPT ![w] = next]
  BY DEF NextInBatch
<1> HIDE DEF next
<1> QED
  BY <1>2, <1>3, <1>4

\* A batch is a queue of events, and not an empty one.
LEMMA BatchType ==
  ASSUME Due # {}, NEW q \in Batches
  PROVE  q \in Seq(Events) /\ q # <<>>
<1>1. IsFiniteSet(Due)
  BY OutboxAssumption, FS_Subset DEF Due
<1>2. Cardinality(Due) \in Nat /\ Cardinality(Due) # 0
  BY <1>1, FS_CardinalityType, FS_EmptySet
<1> DEFINE n == IF Cardinality(Due) < BatchLimit THEN Cardinality(Due) ELSE BatchLimit
<1>3. n \in Nat /\ n # 0
  BY <1>2, OutboxAssumption
<1>4. q \in [1 .. n -> Events]
  BY DEF Batches, Due
<1> HIDE DEF n
<1>5. q \in Seq(Events)
  BY <1>3, <1>4, SeqDef
<1>6. Len(q) = n
  BY <1>3, <1>4, <1>5, LenProperties
<1> QED
  BY <1>3, <1>5, <1>6, EmptySeq

-----------------------------------------------------------------------------
(* The rows and their journal.                                              *)

AttemptStatuses == {"STARTED", "DELIVERED", "FAILED"}

RowsSound ==
  /\ outbox \in [Events -> Rows]
  /\ journal \in [Events -> Seq(AttemptStatuses)]
  /\ OutcomeMatchesJournal

\* What OutcomeMatchesJournal says of one event.
Matches(row, log) ==
  /\ row.attempts = Len(log)
  /\ \A k \in 1 .. Len(log) - 1 : log[k] # "DELIVERED"
  /\ row.status \in {"DELIVERING", "DELIVERED", "FAILED"} => Len(log) > 0
  /\ Len(log) > 0 => row.status # "ABSENT" /\ log[Len(log)] = LastAttempt[row.status]

LEMMA MatchingPairs == OutcomeMatchesJournal <=> \A e \in Events : Matches(outbox[e], journal[e])
BY DEF OutcomeMatchesJournal, Matches

\* A step that replaces one event's row and journal by sound ones keeps all sound.
LEMMA ReplaceRow ==
  ASSUME RowsSound, NEW e \in Events, NEW row \in Rows, NEW log \in Seq(AttemptStatuses),
         Matches(row, log),
         outbox' = [outbox EXCEPT ![e] = row], journal' = [journal EXCEPT ![e] = log]
  PROVE  RowsSound'
<1>1. outbox' \in [Events -> Rows] /\ journal' \in [Events -> Seq(AttemptStatuses)]
  BY DEF RowsSound
<1>2. \A d \in Events : outbox'[d] = (IF d = e THEN row ELSE outbox[d])
                     /\ journal'[d] = (IF d = e THEN log ELSE journal[d])
  BY DEF RowsSound
<1>3. \A d \in Events : Matches(outbox'[d], journal'[d])
  BY <1>2, MatchingPairs DEF RowsSound
<1>4. OutcomeMatchesJournal'
  BY <1>3 DEF OutcomeMatchesJournal, Matches, LastAttempt
<1> QED
  BY <1>1, <1>4 DEF RowsSound

LEMMA ClaimKeepsRows ==
  ASSUME TypeOK, RowsSound, NEW w \in Workers, worker[w].phase = "CLAIMING", ClaimRow(w)
  PROVE  RowsSound'
<1> DEFINE e   == Ev(w)
           row == Claimed(outbox[e], w)
           log == Append(journal[e], "STARTED")
<1>1. e \in Events
  BY EventAtHand
<1>2. worker[w].startedAt + Lease \in Nat
  BY OutboxAssumption DEF TypeOK, WorkerStates
<1>3. outbox[e] \in Rows /\ journal[e] \in Seq(AttemptStatuses) /\ Matches(outbox[e], journal[e])
  BY <1>1, MatchingPairs DEF RowsSound
<1>4. row \in Rows
  <2>1. outbox[e].attempts + 1 \in Nat
    BY <1>3 DEF Rows
  <2>2. \A r \in Rows, n, t \in Nat : [r EXCEPT !.status = "DELIVERING", !.attempts = n,
                                         !.leaseOwner = w, !.leaseExpiresAt = t] \in Rows
    BY DEF Rows, Statuses
  <2> QED
    BY <1>2, <1>3, <2>1, <2>2 DEF Claimed
<1>5. /\ row.attempts = outbox[e].attempts + 1
      /\ row.status = "DELIVERING"
  BY <1>3 DEF Claimed, Rows
<1>6. /\ log \in Seq(AttemptStatuses)
      /\ Len(log) = Len(journal[e]) + 1
      /\ \A k \in 1 .. Len(journal[e]) : log[k] = journal[e][k]
      /\ log[Len(journal[e]) + 1] = "STARTED"
  BY <1>3, AppendProperties DEF AttemptStatuses
<1>7. outbox[e].status \in {"PENDING", "FAILED", "DELIVERING"}
  BY DEF ClaimRow, IsDue
<1>8. \A k \in 1 .. Len(log) - 1 : log[k] # "DELIVERED"
  <2> SUFFICES ASSUME NEW k \in 1 .. Len(log) - 1 PROVE journal[e][k] # "DELIVERED"
    BY <1>3, <1>6, LenProperties
  <2>1. Len(journal[e]) \in Nat
    BY <1>3, LenProperties
  <2>2. CASE k = Len(journal[e])
    BY <1>3, <1>6, <1>7, <2>1, <2>2 DEF Matches, LastAttempt
  <2>3. CASE k # Len(journal[e])
    BY <1>3, <1>6, <2>1, <2>3 DEF Matches
  <2> QED
    BY <2>2, <2>3
<1>9. Len(journal[e]) \in Nat
  BY <1>3, LenProperties
<1>10. outbox' = [outbox EXCEPT ![e] = row] /\ journal' = [journal EXCEPT ![e] = log]
  BY DEF ClaimRow
<1> HIDE DEF e, row, log
<1>11. Matches(row, log)
  BY <1>3, <1>5, <1>6, <1>8, <1>9 DEF Matches, LastAttempt
<1> QED
  BY <1>1, <1>4, <1>6, <1>10, <1>11, ReplaceRow

\* Recording an outcome: delivered and failed.
LEMMA RecordKeepsRows ==
  ASSUME TypeOK, RowsSound, NEW w \in Workers, worker[w].phase # "IDLE",
         RecordDelivered(w) \/ RecordFailed(w)
  PROVE  RowsSound'
<1> DEFINE e == Ev(w)
           n == worker[w].attempt
<1>1. e \in Events
  BY EventAtHand
<1>2. outbox[e] \in Rows /\ journal[e] \in Seq(AttemptStatuses) /\ Matches(outbox[e], journal[e])
  BY <1>1, MatchingPairs DEF RowsSound
<1>3. n = Len(journal[e]) /\ n \in Nat /\ n > 0
  BY <1>2, LenProperties DEF Holds, RecordDelivered, RecordFailed, Matches
<1>4. PICK status \in {"DELIVERED", "FAILED"}, t \in Nat :
        /\ outbox' = [outbox EXCEPT ![e] = [Release(outbox[e], status) EXCEPT !.availableAt = t]]
        /\ Journaled(w, status)
  <2>1. CASE RecordDelivered(w)
    <3>1. [Release(outbox[e], "DELIVERED") EXCEPT !.availableAt = outbox[e].availableAt]
            = Release(outbox[e], "DELIVERED")
      BY <1>2 DEF Release, Rows
    <3>2. outbox[e].availableAt \in Nat
      BY <1>2 DEF Rows
    <3>3. outbox' = [outbox EXCEPT ![e] = Release(outbox[e], "DELIVERED")]
          /\ Journaled(w, "DELIVERED")
      BY <2>1 DEF RecordDelivered
    <3> QED
      BY <3>1, <3>2, <3>3
  <2>2. CASE RecordFailed(w)
    <3>1. PICK delay \in RetryDelays(n) :
            outbox' = [outbox EXCEPT ![e] = [Release(outbox[e], "FAILED") EXCEPT !.availableAt = now + delay]]
      BY <2>2 DEF RecordFailed
    <3>2. delay \in Nat
      BY OutboxAssumption DEF RetryDelays
    <3>3. now + delay \in Nat
      BY <3>2 DEF TypeOK
    <3> QED
      BY <2>2, <3>1, <3>3 DEF RecordFailed
  <2> QED
    BY <2>1, <2>2
<1> DEFINE row == [Release(outbox[e], status) EXCEPT !.availableAt = t]
           log == [journal[e] EXCEPT ![n] = status]
<1>5. row \in Rows /\ row.status = status /\ row.attempts = outbox[e].attempts
  BY <1>2 DEF Release, Rows, Statuses
<1>6. /\ log \in Seq(AttemptStatuses)
      /\ Len(log) = n
      /\ \A k \in 1 .. n : log[k] = IF k = n THEN status ELSE journal[e][k]
  BY <1>2, <1>3, ExceptSeq DEF AttemptStatuses
<1>7. journal' = [journal EXCEPT ![e] = log]
  BY <1>4 DEF Journaled
<1>8. outbox' = [outbox EXCEPT ![e] = row]
  BY <1>4
<1> HIDE DEF row, log, e, n
<1>9. Matches(row, log)
  BY <1>2, <1>3, <1>5, <1>6, SMTT(30) DEF Matches, LastAttempt
<1> QED
  BY <1>1, <1>5, <1>6, <1>7, <1>8, <1>9, ReplaceRow
-----------------------------------------------------------------------------
(* Every step keeps the rows sound and the state well typed.                *)

Sound == TypeOK /\ RowsSound

WorkersSound ==
  /\ worker \in [Workers -> WorkerStates]
  /\ \A w \in Workers : worker[w].phase # "IDLE" => worker[w].queue # <<>>

\* Deliver and Disturb, by what they do to the tables.
LEMMA RowsStep ==
  ASSUME Sound, [Next]_vars
  PROVE  RowsSound'
<1>1. CASE UNCHANGED <<outbox, journal>>
  BY <1>1 DEF Sound, RowsSound, OutcomeMatchesJournal
<1>2. ASSUME NEW w \in Workers, Deliver(w) \/ Disturb(w)
      PROVE  RowsSound'
  <2>1. CASE worker[w].phase = "CLAIMING" /\ ClaimRow(w)
    BY <2>1, ClaimKeepsRows DEF Sound
  <2>2. CASE worker[w].phase # "IDLE" /\ (RecordDelivered(w) \/ RecordFailed(w))
    BY <2>2, RecordKeepsRows DEF Sound
  <2> QED
    BY <1>1, <1>2, <2>1, <2>2
    DEF Deliver, Disturb, ListDue, ReadClock, Claim, ClaimedByOther, ClaimThrows,
        Delivered, LostLease, DeliveredThrows, Refused, NoAnswer, Failed, FailedLostLease,
        FailedThrows, Crash, Stall
<1>3. ASSUME NEW e \in Events, Enqueue(e) \/ AdminRetry(e)
      PROVE  RowsSound'
  <2>1. outbox[e] \in Rows /\ journal[e] \in Seq(AttemptStatuses) /\ Matches(outbox[e], journal[e])
    BY <1>3, MatchingPairs DEF Sound, RowsSound
  <2>2. now \in Nat /\ Len(journal[e]) \in Nat
    BY <2>1, LenProperties DEF Sound, TypeOK
  <2>3. journal' = [journal EXCEPT ![e] = journal[e]]
    BY <1>3 DEF Enqueue, AdminRetry, Sound, RowsSound
  <2>4. CASE Enqueue(e)
    <3> DEFINE row == [outbox[e] EXCEPT !.status = "PENDING", !.availableAt = now]
    <3>1. outbox' = [outbox EXCEPT ![e] = row]
      BY <2>4 DEF Enqueue, Sound, RowsSound
    <3>2. row \in Rows /\ row.status = "PENDING" /\ row.attempts = outbox[e].attempts
      BY <2>1, <2>2 DEF Rows, Statuses
    <3>3. Len(journal[e]) = 0
      BY <2>1, <2>2, <2>4 DEF Enqueue, Matches
    <3> HIDE DEF row
    <3>4. Matches(row, journal[e])
      BY <2>1, <3>2, <3>3 DEF Matches, LastAttempt
    <3> QED
      BY <1>3, <2>1, <2>3, <3>1, <3>2, <3>4, ReplaceRow DEF Sound
  <2>5. CASE AdminRetry(e)
    <3> DEFINE row == [Release(outbox[e], "PENDING") EXCEPT !.availableAt = now]
    <3>1. outbox' = [outbox EXCEPT ![e] = row]
      BY <2>5 DEF AdminRetry
    <3>2. row \in Rows /\ row.status = "PENDING" /\ row.attempts = outbox[e].attempts
      BY <2>1, <2>2 DEF Release, Rows, Statuses
    <3> HIDE DEF row
    <3>3. Matches(row, journal[e])
      BY <2>1, <2>2, <2>5, <3>2 DEF AdminRetry, Matches, LastAttempt
    <3> QED
      BY <1>3, <2>1, <2>3, <3>1, <3>2, <3>3, ReplaceRow DEF Sound
  <2> QED
    BY <1>3, <2>4, <2>5
<1> QED
  BY <1>1, <1>2, <1>3 DEF Next, MerchantAccepts, MerchantRefuses, Tick, vars

LEMMA OneWorker ==
  ASSUME TypeOK, NEW w \in Workers, NEW state \in WorkerStates,
         state.phase # "IDLE" => state.queue # <<>>,
         worker' = [worker EXCEPT ![w] = state]
  PROVE  WorkersSound'
BY DEF TypeOK, WorkersSound

LEMMA WorkersStep ==
  ASSUME Sound, [Next]_vars
  PROVE  WorkersSound'
<1> USE DEF Sound
<1>1. CASE UNCHANGED worker
  BY <1>1 DEF TypeOK, WorkersSound
<1>2. ASSUME NEW w \in Workers, Deliver(w) \/ Disturb(w)
      PROVE  WorkersSound'
  <2>1. worker[w] \in WorkerStates /\ (worker[w].phase # "IDLE" => worker[w].queue # <<>>)
    BY DEF TypeOK
  <2>2. CASE worker[w].phase # "IDLE" /\ NextInBatch(w)
    BY <2>2, NextInBatchType DEF WorkersSound
  <2>3. CASE ListDue(w)
    <3>1. PICK q \in Batches : worker' = [worker EXCEPT ![w].phase = "LISTED", ![w].queue = q]
      BY <2>3 DEF ListDue
    <3>2. q \in Seq(Events) /\ q # <<>>
      BY <2>3, BatchType DEF ListDue
    <3> DEFINE state == [worker[w] EXCEPT !.phase = "LISTED", !.queue = q]
    <3>3. state \in WorkerStates /\ state.queue # <<>>
      BY <2>1, <3>2 DEF WorkerStates
    <3>4. worker' = [worker EXCEPT ![w] = state]
      BY <3>1 DEF TypeOK, WorkerStates
    <3> HIDE DEF state
    <3> QED
      BY <3>3, <3>4, OneWorker
  <2>4. CASE ReadClock(w)
    <3> DEFINE state == [worker[w] EXCEPT !.phase = "CLAIMING", !.startedAt = now]
    <3>1. state \in WorkerStates /\ (state.phase # "IDLE" => state.queue # <<>>)
      BY <2>1, <2>4 DEF ReadClock, WorkerStates, TypeOK
    <3>2. worker' = [worker EXCEPT ![w] = state]
      BY <2>4 DEF ReadClock, TypeOK, WorkerStates
    <3> HIDE DEF state
    <3> QED
      BY <3>1, <3>2, OneWorker
  <2>5. CASE Claim(w)
    <3> DEFINE state == [worker[w] EXCEPT !.phase = "SENDING", !.attempt = outbox[Ev(w)].attempts + 1]
    <3>1. outbox[Ev(w)].attempts + 1 \in Nat
      BY <2>5, EventAtHand DEF Claim, TypeOK, Rows
    <3>2. state \in WorkerStates /\ (state.phase # "IDLE" => state.queue # <<>>)
      BY <2>1, <2>5, <3>1 DEF Claim, WorkerStates
    <3>3. worker' = [worker EXCEPT ![w] = state]
      BY <2>5 DEF Claim, TypeOK, WorkerStates
    <3> HIDE DEF state
    <3> QED
      BY <3>2, <3>3, OneWorker
  <2>6. CASE worker[w].phase = "SENDING" /\ Failing(w)
    <3> DEFINE state == [worker[w] EXCEPT !.phase = "FAILING"]
    <3>1. state \in WorkerStates /\ (state.phase # "IDLE" => state.queue # <<>>)
      BY <2>1, <2>6 DEF WorkerStates
    <3>2. worker' = [worker EXCEPT ![w] = state]
      BY <2>6 DEF Failing, TypeOK, WorkerStates
    <3> HIDE DEF state
    <3> QED
      BY <3>1, <3>2, OneWorker
  <2>7. CASE Crash(w)
    <3>1. Idle \in WorkerStates /\ Idle.phase = "IDLE"
      BY EmptySeq DEF Idle, WorkerStates
    <3> QED
      BY <2>7, <3>1, OneWorker DEF Crash
  <2>8. CASE Stall(w)
    <3> DEFINE state == [worker[w] EXCEPT !.late = TRUE]
    <3>1. state \in WorkerStates /\ (state.phase # "IDLE" => state.queue # <<>>)
      BY <2>1 DEF WorkerStates
    <3>2. worker' = [worker EXCEPT ![w] = state]
      BY <2>8 DEF Stall, TypeOK, WorkerStates
    <3> HIDE DEF state
    <3> QED
      BY <3>1, <3>2, OneWorker
  <2> QED
    BY <1>2, <2>2, <2>3, <2>4, <2>5, <2>6, <2>7, <2>8
    DEF Deliver, Disturb, ClaimedByOther, ClaimThrows, Delivered, LostLease,
        DeliveredThrows, Refused, NoAnswer, Failed, FailedLostLease, FailedThrows
<1> QED
  BY <1>1, <1>2 DEF Next, Enqueue, AdminRetry, MerchantAccepts, MerchantRefuses, Tick, vars

LEMMA SoundStep ==
  ASSUME Sound, [Next]_vars
  PROVE  Sound'
<1>1. now' \in Nat /\ faults' \in Nat
  <2>1. UNCHANGED now \/ now' = now + 1
    BY DEF Next, Deliver, Disturb, ListDue, ReadClock, Claim, ClaimedByOther,
        ClaimThrows, Delivered, LostLease, DeliveredThrows, Refused, NoAnswer, Failed,
        FailedLostLease, FailedThrows, Crash, Stall, Enqueue, AdminRetry, MerchantAccepts,
        MerchantRefuses, Tick, vars
  <2>2. UNCHANGED faults \/ faults' = faults + 1
    BY DEF Next, Deliver, Disturb, ListDue, ReadClock, Claim, ClaimedByOther,
        ClaimThrows, Delivered, LostLease, DeliveredThrows, Refused, NoAnswer, Failed,
        FailedLostLease, FailedThrows, Crash, Stall, Enqueue, AdminRetry, MerchantAccepts,
        MerchantRefuses, Tick, Fault, NoFault, vars
  <2>3. now \in Nat /\ faults \in Nat
    BY DEF Sound, TypeOK
  <2> QED
    BY <2>1, <2>2, <2>3
<1>2. (inflight \cup accepted)' \subseteq Events \X (Nat \ {0})
  <2>1. inflight \cup accepted \subseteq Events \X (Nat \ {0})
    BY DEF Sound, TypeOK
  <2>2. ASSUME NEW w \in Workers, Claim(w)
        PROVE  <<Ev(w), outbox[Ev(w)].attempts + 1>> \in Events \X (Nat \ {0})
    BY <2>2, EventAtHand DEF Claim, Sound, TypeOK, Rows
  <2> QED
    BY <2>1, <2>2
    DEF Next, Deliver, Disturb, ListDue, ReadClock, Claim, ClaimedByOther,
        ClaimThrows, Delivered, LostLease, DeliveredThrows, Refused, NoAnswer, Failed,
        FailedLostLease, FailedThrows, Crash, Stall, Enqueue, AdminRetry, MerchantAccepts,
        MerchantRefuses, Tick, vars
<1> QED
  BY <1>1, <1>2, RowsStep, WorkersStep DEF Sound, TypeOK, RowsSound, WorkersSound, AttemptStatuses

\* The state of the outbox and its workers is well typed, and the journal of
\* delivery attempts agrees with the event it belongs to.
THEOREM SoundHolds == Spec => []Sound
<1>1. Init => Sound
  BY OutboxAssumption, EmptySeq
  DEF Init, Sound, TypeOK, RowsSound, OutcomeMatchesJournal, Rows, Statuses, WorkerStates,
      Idle, AttemptStatuses
<1>2. Sound /\ [Next]_vars => Sound'
  BY SoundStep
<1> QED
  BY <1>1, <1>2, PTL DEF Spec

\* TypeOK of the runs: the tables, the workers' local state and the requests
\* under way keep their shapes, and a worker at an event has one in its queue.
THEOREM OutboxIsWellTyped == Spec => []TypeOK
<1>1. Sound => TypeOK
  BY DEF Sound
<1> QED
  BY <1>1, SoundHolds, PTL

\* OutcomeMatchesJournal of the runs: whichever attempt answers last, one row per
\* attempt, and only the last one can have delivered the event.
THEOREM OutcomeMatchesJournalHolds == Spec => []OutcomeMatchesJournal
<1>1. Sound => OutcomeMatchesJournal
  BY DEF Sound, RowsSound
<1> QED
  BY <1>1, SoundHolds, PTL
-----------------------------------------------------------------------------
(* Fencing.                                                                 *)

\* Every write of a row checks its status.
LEMMA DeliveredStays ==
  ASSUME Sound, [Next]_vars, NEW e \in Events, outbox[e].status = "DELIVERED"
  PROVE  outbox'[e] = outbox[e] /\ journal'[e] = journal[e]
<1>1. /\ outbox = [d \in Events |-> outbox[d]]
      /\ journal = [d \in Events |-> journal[d]]
  BY DEF Sound, RowsSound
<1>2. CASE UNCHANGED <<outbox, journal>>
  BY <1>2
<1>3. ASSUME NEW w \in Workers, ClaimRow(w)
      PROVE  outbox'[e] = outbox[e] /\ journal'[e] = journal[e]
  BY <1>1, <1>3 DEF ClaimRow, IsDue
<1>4. ASSUME NEW w \in Workers, RecordDelivered(w) \/ RecordFailed(w)
      PROVE  outbox'[e] = outbox[e] /\ journal'[e] = journal[e]
  <2>1. Ev(w) # e
    BY <1>4 DEF RecordDelivered, RecordFailed, Holds
  <2> QED
    BY <1>1, <1>4, <2>1 DEF RecordDelivered, RecordFailed, Journaled
<1>5. ASSUME NEW d \in Events, Enqueue(d) \/ AdminRetry(d)
      PROVE  outbox'[e] = outbox[e] /\ journal'[e] = journal[e]
  BY <1>1, <1>5 DEF Enqueue, AdminRetry
<1>6. ASSUME NEW w \in Workers, Deliver(w) \/ Disturb(w)
      PROVE  \/ UNCHANGED <<outbox, journal>>
             \/ ClaimRow(w) \/ RecordDelivered(w) \/ RecordFailed(w)
  BY <1>6 DEF Deliver, Disturb, ListDue, ReadClock, Claim, ClaimedByOther, ClaimThrows,
    Delivered, LostLease, DeliveredThrows, Refused, NoAnswer, Failed, FailedLostLease,
    FailedThrows, Crash, Stall
<1> QED
  BY <1>2, <1>3, <1>4, <1>5, <1>6 DEF Next, MerchantAccepts, MerchantRefuses, Tick, vars

\* A delivered event is never reopened, by a stale worker or by an operator.
THEOREM DeliveredIsFinalHolds == Spec => DeliveredIsFinal
<1>1. Sound /\ [Next]_vars =>
        \A e \in Events : outbox[e].status = "DELIVERED" =>
          outbox'[e] = outbox[e] /\ journal'[e] = journal[e]
  BY DeliveredStays
<1> QED
  BY <1>1, SoundHolds, PTL DEF Spec, DeliveredIsFinal

-----------------------------------------------------------------------------
(* Leases.                                                                  *)

\* An undisturbed worker is within MaxDelay of the clock reading its lease
\* starts from, and nobody has taken its claim over.
OnTime(w) ==
  /\ worker[w].startedAt <= now
  /\ ~ worker[w].late => now <= worker[w].startedAt + MaxDelay

Claiming(w) ==
  worker[w].phase = "SENDING" /\ ~ worker[w].late =>
    Holds(w) /\ outbox[Ev(w)].leaseExpiresAt = worker[w].startedAt + Lease

Leases == \A w \in Workers : (Busy(w) => OnTime(w)) /\ Claiming(w)

LEMMA LeasesCover ==
  ASSUME Sound, Leases
  PROVE  LeaseCoversDelivery
<1> SUFFICES ASSUME NEW w \in Workers, worker[w].phase = "SENDING", ~ worker[w].late
             PROVE  Holds(w) /\ now < outbox[Ev(w)].leaseExpiresAt
  BY DEF LeaseCoversDelivery
<1>1. now \in Nat /\ worker[w].startedAt \in Nat
  BY DEF Sound, TypeOK, WorkerStates
<1>2. now <= worker[w].startedAt + MaxDelay
  BY DEF Leases, Busy, OnTime
<1>3. Holds(w) /\ outbox[Ev(w)].leaseExpiresAt = worker[w].startedAt + Lease
  BY DEF Leases, Claiming
<1> QED
  BY <1>1, <1>2, <1>3, OutboxAssumption

\* How the steps leave the worker that takes them.
LEMMA WorkerEffects ==
  ASSUME worker \in [Workers -> WorkerStates], NEW w \in Workers
  PROVE  /\ NextInBatch(w) => worker'[w].phase \in {"IDLE", "LISTED"}
         /\ ListDue(w)     => worker'[w].phase = "LISTED"
         /\ Crash(w)       => worker'[w].phase = "IDLE"
         /\ ReadClock(w)   => worker'[w].phase = "CLAIMING" /\ worker'[w].startedAt = now
         /\ Failing(w)     => /\ worker'[w].phase = "FAILING"
                              /\ worker'[w].startedAt = worker[w].startedAt
                              /\ worker'[w].late = worker[w].late
         /\ Stall(w)       => worker'[w].late /\ worker'[w].startedAt = worker[w].startedAt
<1>1. worker[w] = [phase |-> worker[w].phase, queue |-> worker[w].queue,
                   attempt |-> worker[w].attempt, startedAt |-> worker[w].startedAt,
                   late |-> worker[w].late]
  BY DEF WorkerStates
<1>2. NextInBatch(w) => worker'[w].phase \in {"IDLE", "LISTED"}
  BY DEF NextInBatch, Idle
<1>3. ListDue(w) => worker'[w].phase = "LISTED"
  BY <1>1 DEF ListDue
<1>4. Crash(w) => worker'[w].phase = "IDLE"
  BY DEF Crash, Idle
<1>5. ReadClock(w) => worker'[w].phase = "CLAIMING" /\ worker'[w].startedAt = now
  BY <1>1 DEF ReadClock
<1>6. Failing(w) => /\ worker'[w].phase = "FAILING"
                    /\ worker'[w].startedAt = worker[w].startedAt
                    /\ worker'[w].late = worker[w].late
  BY <1>1 DEF Failing
<1>7. Stall(w) => worker'[w].late /\ worker'[w].startedAt = worker[w].startedAt
  BY <1>1 DEF Stall
<1> QED
  BY <1>2, <1>3, <1>4, <1>5, <1>6, <1>7

\* What a step does to a worker, as far as leases go: nothing, an event begun or
\* claimed, or an event dropped or no longer waited for.
LEMMA OnTimeStep ==
  ASSUME Sound, Leases, [Next]_vars
  PROVE  \A w \in Workers : Busy(w)' => OnTime(w)'
<1> SUFFICES ASSUME NEW w \in Workers, Busy(w)' PROVE OnTime(w)'
  OBVIOUS
<1>1. now \in Nat /\ worker \in [Workers -> WorkerStates]
  BY DEF Sound, TypeOK
<1>2. worker[w].startedAt \in Nat
  BY <1>1 DEF WorkerStates
<1>3. CASE Tick
  <2>1. worker' = worker /\ now' = now + 1 /\ Busy(w)
    BY <1>3 DEF Tick, Busy
  <2>2. ~ worker[w].late => now < worker[w].startedAt + MaxDelay
    BY <1>3, <2>1 DEF Tick
  <2> QED
    BY <1>1, <1>2, <2>1, <2>2, OutboxAssumption DEF Leases, OnTime
<1>4. CASE UNCHANGED <<worker, now>>
  BY <1>4 DEF Leases, OnTime, Busy
<1>5. ASSUME NEW v \in Workers, Deliver(v) \/ Disturb(v)
      PROVE  OnTime(w)'
  <2>1. now' = now
    BY <1>5 DEF Deliver, Disturb, ListDue, ReadClock, Claim, ClaimedByOther, ClaimThrows,
      Delivered, LostLease, DeliveredThrows, Refused, NoAnswer, Failed, FailedLostLease,
      FailedThrows, Crash, Stall
  <2>2. CASE v # w
    <3>1. worker'[w] = worker[w]
      BY <1>1, <1>5, <2>2 DEF Deliver, Disturb, ListDue, ReadClock, Claim, ClaimedByOther,
        ClaimThrows, Delivered, LostLease, DeliveredThrows, Refused, NoAnswer, Failed,
        FailedLostLease, FailedThrows, Crash, Stall, NextInBatch, Failing
    <3> QED
      BY <2>1, <3>1 DEF Leases, OnTime, Busy
  <2>3. CASE v = w /\ ReadClock(v)
    <3>1. worker'[w].startedAt = now
      BY <1>1, <2>3 DEF ReadClock, WorkerStates
    <3> QED
      BY <1>1, <2>1, <3>1, OutboxAssumption DEF OnTime
  <2>4. CASE v = w /\ (NextInBatch(v) \/ ListDue(v) \/ Crash(v))
    <3>1. worker'[w].phase \in {"IDLE", "LISTED"}
      BY <1>1, <2>4, WorkerEffects
    <3> QED
      BY <3>1 DEF Busy
  <2>5. CASE v = w /\ (Claim(v) \/ (Busy(v) /\ Failing(v)) \/ Stall(v))
    <3>1. Busy(w)
      BY <2>5 DEF Claim, Stall, Busy
    <3>2. CASE Claim(w)
      <4>1. worker'[w].startedAt = worker[w].startedAt /\ worker'[w].late = worker[w].late
        BY <1>1, <3>2 DEF Claim, WorkerStates
      <4> QED
        BY <2>1, <3>1, <4>1 DEF Leases, OnTime
    <3>3. CASE Failing(w) \/ Stall(w)
      <4>1. worker'[w].startedAt = worker[w].startedAt
            /\ (~ worker'[w].late => ~ worker[w].late)
        BY <1>1, <3>3, WorkerEffects
      <4> QED
        BY <2>1, <3>1, <4>1 DEF Leases, OnTime
    <3> QED
      BY <2>5, <3>2, <3>3
  <2> QED
    BY <1>5, <2>2, <2>3, <2>4, <2>5
    DEF Deliver, Disturb, ClaimedByOther, ClaimThrows, Delivered, LostLease,
        DeliveredThrows, Refused, NoAnswer, Failed, FailedLostLease, FailedThrows, Busy
<1> QED
  BY <1>3, <1>4, <1>5 DEF Next, Enqueue, AdminRetry, MerchantAccepts, MerchantRefuses, vars

\* A claim that is on time is not due for another worker, not released by
\* another's outcome and not retried by an operator.
LEMMA ClaimingStep ==
  ASSUME Sound, Leases, [Next]_vars
  PROVE  \A w \in Workers : Claiming(w)'
<1> SUFFICES ASSUME NEW w \in Workers, worker'[w].phase = "SENDING", ~ worker'[w].late
             PROVE  Holds(w)' /\ outbox'[Ev(w)'].leaseExpiresAt = worker'[w].startedAt + Lease
  BY DEF Claiming
<1>1. /\ now \in Nat /\ worker \in [Workers -> WorkerStates]
      /\ outbox = [e \in Events |-> outbox[e]]
      /\ outbox \in [Events -> Rows]
  BY DEF Sound, TypeOK
<1>2. CASE Claim(w)
  <2>1. Ev(w) \in Events /\ worker'[w] = [worker[w] EXCEPT !.phase = "SENDING",
                                            !.attempt = outbox[Ev(w)].attempts + 1]
    BY <1>1, <1>2, EventAtHand DEF Claim, Sound, WorkerStates
  <2>2. outbox'[Ev(w)] = Claimed(outbox[Ev(w)], w)
    BY <1>1, <1>2, <2>1 DEF Claim, ClaimRow
  <2>3. /\ worker'[w].queue = worker[w].queue
        /\ worker'[w].startedAt = worker[w].startedAt
        /\ worker'[w].attempt = outbox[Ev(w)].attempts + 1
    BY <1>1, <2>1 DEF WorkerStates
  <2>4. outbox[Ev(w)] \in Rows
    BY <1>1, <2>1
  <2>5. /\ outbox'[Ev(w)].status = "DELIVERING"
        /\ outbox'[Ev(w)].leaseOwner = w
        /\ outbox'[Ev(w)].attempts = outbox[Ev(w)].attempts + 1
        /\ outbox'[Ev(w)].leaseExpiresAt = worker[w].startedAt + Lease
    BY <2>2, <2>4 DEF Claimed, Rows
  <2> QED
    BY <2>3, <2>5 DEF Holds, Ev
<1>3. ASSUME ~ Claim(w)
      PROVE  worker'[w] = worker[w]
  <2>1. ASSUME NEW v \in Workers, Deliver(v) \/ Disturb(v), v # w
        PROVE  worker'[w] = worker[w]
    BY <1>1, <2>1 DEF Deliver, Disturb, ListDue, ReadClock, Claim, ClaimedByOther,
        ClaimThrows, Delivered, LostLease, DeliveredThrows, Refused, NoAnswer, Failed,
        FailedLostLease, FailedThrows, Crash, Stall, NextInBatch, Failing
  <2>2. CASE NextInBatch(w) \/ ListDue(w) \/ Crash(w) \/ ReadClock(w) \/ Failing(w) \/ Stall(w)
    <3>1. worker'[w].phase # "SENDING" \/ worker'[w].late
      BY <1>1, <2>2, WorkerEffects
    <3> QED
      BY <3>1
  <2>3. ASSUME Deliver(w) \/ Disturb(w)
        PROVE  worker'[w] = worker[w]
    BY <1>3, <2>2, <2>3
    DEF Deliver, Disturb, ClaimedByOther, ClaimThrows, Delivered, LostLease,
        DeliveredThrows, Refused, NoAnswer, Failed, FailedLostLease, FailedThrows
  <2> QED
    BY <2>1, <2>3 DEF Next, Enqueue, AdminRetry, MerchantAccepts, MerchantRefuses, Tick, vars
<1>4. CASE ~ Claim(w)
  <2>1. /\ worker'[w] = worker[w] /\ worker[w].phase = "SENDING" /\ ~ worker[w].late
        /\ Ev(w)' = Ev(w)
    BY <1>3, <1>4 DEF Ev
  <2>2. Holds(w) /\ outbox[Ev(w)].leaseExpiresAt = worker[w].startedAt + Lease
    BY <2>1 DEF Leases, Claiming
  <2>3. Ev(w) \in Events
    BY <2>1, EventAtHand DEF Sound
  <2>4. outbox'[Ev(w)] = outbox[Ev(w)]
    <3>1. ASSUME NEW v \in Workers, worker[v].phase = "CLAIMING", ClaimRow(v)
          PROVE  Ev(v) # Ev(w)
      <4>1. worker[v].startedAt <= now /\ worker[v].startedAt \in Nat
        BY <1>1, <3>1 DEF Leases, OnTime, Busy, WorkerStates
      <4>2. now <= worker[w].startedAt + MaxDelay /\ worker[w].startedAt \in Nat
        BY <1>1, <2>1 DEF Leases, OnTime, Busy, WorkerStates
      <4>3. ~ (outbox[Ev(w)].leaseExpiresAt <= worker[v].startedAt)
        BY <1>1, <2>2, <4>1, <4>2, OutboxAssumption
      <4>4. outbox[Ev(w)].status = "DELIVERING"
        BY <2>2 DEF Holds
      <4> QED
        BY <3>1, <4>3, <4>4 DEF ClaimRow, IsDue
    <3>2. ASSUME NEW v \in Workers, RecordDelivered(v) \/ RecordFailed(v), v # w
          PROVE  Ev(v) # Ev(w)
      BY <2>2, <3>2 DEF RecordDelivered, RecordFailed, Holds
    <3>3. ASSUME NEW v \in Workers, Deliver(v) \/ Disturb(v), v # w
          PROVE  \/ UNCHANGED outbox
                 \/ worker[v].phase = "CLAIMING" /\ ClaimRow(v)
                 \/ RecordDelivered(v) \/ RecordFailed(v)
      BY <3>3 DEF Deliver, Disturb, ListDue, ReadClock, Claim, ClaimedByOther, ClaimThrows,
        Delivered, LostLease, DeliveredThrows, Refused, NoAnswer, Failed, FailedLostLease,
        FailedThrows, Crash, Stall
    <3>4. ASSUME NEW v \in Workers, Deliver(v) \/ Disturb(v), v # w
          PROVE  outbox'[Ev(w)] = outbox[Ev(w)]
      <4>1. CASE UNCHANGED outbox
        BY <4>1
      <4>2. CASE worker[v].phase = "CLAIMING" /\ ClaimRow(v)
        BY <1>1, <2>3, <3>1, <4>2 DEF ClaimRow
      <4>3. CASE RecordDelivered(v) \/ RecordFailed(v)
        BY <1>1, <2>3, <3>2, <3>4, <4>3 DEF RecordDelivered, RecordFailed
      <4> QED
        BY <3>3, <3>4, <4>1, <4>2, <4>3
    <3>5. ASSUME Deliver(w) \/ Disturb(w)
          PROVE  FALSE
      <4>1. CASE NextInBatch(w)
        <5>1. worker'[w].phase \in {"IDLE", "LISTED"}
          BY <1>1, <4>1, WorkerEffects
        <5> QED
          BY <2>1, <5>1
      <4>2. CASE ListDue(w) \/ ReadClock(w) \/ Crash(w) \/ Failing(w) \/ Stall(w)
        <5>1. worker'[w].phase # "SENDING" \/ worker'[w].late
          BY <1>1, <4>2, WorkerEffects
        <5> QED
          BY <2>1, <5>1
      <4> QED
        BY <1>4, <3>5, <4>1, <4>2
        DEF Deliver, Disturb, ClaimedByOther, ClaimThrows, Delivered, LostLease,
            DeliveredThrows, Refused, NoAnswer, Failed, FailedLostLease, FailedThrows
    <3>6. ASSUME NEW e \in Events, Enqueue(e) \/ AdminRetry(e)
          PROVE  outbox'[Ev(w)] = outbox[Ev(w)]
      <4>1. e # Ev(w)
        BY <2>2, <3>6 DEF Enqueue, AdminRetry, Holds
      <4> QED
        BY <1>1, <2>3, <3>6, <4>1 DEF Enqueue, AdminRetry
    <3> QED
      BY <3>4, <3>5, <3>6 DEF Next, MerchantAccepts, MerchantRefuses, Tick, vars
  <2> QED
    BY <2>1, <2>2, <2>4 DEF Holds
<1> QED
  BY <1>2, <1>4

\* No two undisturbed workers wait for the merchant with one event: the lease,
\* counted from a clock read before the claim, outlives the HTTP time-out.
THEOREM LeaseCoversDeliveryHolds == Spec => []LeaseCoversDelivery
<1>1. Init => Leases
  BY DEF Init, Leases, Idle, Busy, Claiming
<1>2. Sound /\ Leases /\ [Next]_vars => Leases'
  BY OnTimeStep, ClaimingStep DEF Leases
<1>3. Sound /\ Leases => LeaseCoversDelivery
  BY LeasesCover
<1> QED
  BY <1>1, <1>2, <1>3, SoundHolds, PTL DEF Spec
-----------------------------------------------------------------------------
(* At-least-once delivery, the part that is a safety property: every step of *)
(* the outbox is a step of EventDelivery or leaves its state alone.          *)

\* Only events that exist are on their way.
RequestsKnown == \A r \in inflight \cup accepted : outbox[r[1]].status # "ABSENT"

\* No step removes an event.
LEMMA EventsStay ==
  ASSUME Sound, [Next]_vars, NEW e \in Events, outbox[e].status # "ABSENT"
  PROVE  outbox'[e].status # "ABSENT"
<1>1. outbox \in [Events -> Rows]
  BY DEF Sound, TypeOK
<1>2. ASSUME NEW w \in Workers, Deliver(w) \/ Disturb(w)
      PROVE  UNCHANGED outbox \/ ClaimRow(w) \/ RecordDelivered(w) \/ RecordFailed(w)
  BY <1>2 DEF Deliver, Disturb, ListDue, ReadClock, Claim, ClaimedByOther, ClaimThrows,
    Delivered, LostLease, DeliveredThrows, Refused, NoAnswer, Failed, FailedLostLease,
    FailedThrows, Crash, Stall
<1>3. ASSUME NEW w \in Workers, ClaimRow(w)
      PROVE  outbox'[e].status # "ABSENT"
  BY <1>1, <1>3 DEF ClaimRow, Claimed, Rows
<1>4. ASSUME NEW w \in Workers, RecordDelivered(w) \/ RecordFailed(w)
      PROVE  outbox'[e].status # "ABSENT"
  BY <1>1, <1>4 DEF RecordDelivered, RecordFailed, Release, Rows
<1>5. ASSUME NEW d \in Events, Enqueue(d) \/ AdminRetry(d)
      PROVE  outbox'[e].status # "ABSENT"
  BY <1>1, <1>5 DEF Enqueue, AdminRetry, Release, Rows
<1> QED
  BY <1>2, <1>3, <1>4, <1>5 DEF Next, MerchantAccepts, MerchantRefuses, Tick, vars

LEMMA RequestsKnownStep ==
  ASSUME Sound, RequestsKnown, [Next]_vars
  PROVE  RequestsKnown'
<1> SUFFICES ASSUME NEW r \in (inflight \cup accepted)' PROVE outbox'[r[1]].status # "ABSENT"
  BY DEF RequestsKnown
<1>1. inflight \cup accepted \subseteq Events \X (Nat \ {0})
  BY DEF Sound, TypeOK
<1>2. CASE r \in inflight \cup accepted
  BY <1>1, <1>2, EventsStay DEF RequestsKnown
<1>3. ASSUME NEW w \in Workers, Claim(w), r = <<Ev(w), outbox[Ev(w)].attempts + 1>>
      PROVE  outbox'[r[1]].status # "ABSENT"
  <2>1. Ev(w) \in Events /\ outbox[Ev(w)].status # "ABSENT"
    BY <1>3, EventAtHand DEF Claim, ClaimRow, IsDue, Sound
  <2> QED
    BY <1>3, <2>1, EventsStay
<1> QED
  BY <1>2, <1>3
  DEF Next, Deliver, Disturb, ListDue, ReadClock, Claim, ClaimedByOther, ClaimThrows,
      Delivered, LostLease, DeliveredThrows, Refused, NoAnswer, Failed, FailedLostLease,
      FailedThrows, Crash, Stall, Enqueue, AdminRetry, MerchantAccepts, MerchantRefuses,
      Tick, vars

\* What the merchant has been promised, in the terms of EventDelivery.
enqueuedEvents == {e \in Events : outbox[e].status # "ABSENT"}
acceptedEvents == {r[1] : r \in accepted}
closedEvents   == {e \in Events : outbox[e].status = "DELIVERED"}

LEMMA PromiseStep ==
  ASSUME Sound, RequestsKnown, [Next]_vars
  PROVE  [Promise!Next]_(Promise!vars)
<1> USE DEF enqueuedEvents, acceptedEvents, closedEvents
<1>0. outbox \in [Events -> Rows]
  BY DEF Sound, TypeOK
<1>1. ASSUME UNCHANGED <<enqueuedEvents, acceptedEvents, closedEvents>>
      PROVE  [Promise!Next]_(Promise!vars)
  BY <1>1 DEF Promise!vars
<1>2. ASSUME NEW e \in Events, Enqueue(e)
      PROVE  [Promise!Next]_(Promise!vars)
  <2>1. /\ e \notin enqueuedEvents /\ enqueuedEvents' = enqueuedEvents \cup {e}
        /\ acceptedEvents' = acceptedEvents /\ closedEvents' = closedEvents
    BY <1>0, <1>2 DEF Enqueue, Rows
  <2> QED
    BY <2>1 DEF Promise!Next, Promise!Enqueue
<1>3. ASSUME NEW r \in inflight, MerchantAccepts(r)
      PROVE  [Promise!Next]_(Promise!vars)
  <2>1. r[1] \in enqueuedEvents
    BY <1>3 DEF RequestsKnown, Sound, TypeOK
  <2>2. /\ acceptedEvents' = acceptedEvents \cup {r[1]}
        /\ enqueuedEvents' = enqueuedEvents /\ closedEvents' = closedEvents
    BY <1>3 DEF MerchantAccepts
  <2>3. CASE r[1] \in acceptedEvents
    BY <1>1, <2>2, <2>3
  <2>4. CASE r[1] \notin acceptedEvents
    BY <2>1, <2>2, <2>4 DEF Promise!Next, Promise!Accept
  <2> QED
    BY <2>3, <2>4
<1>4. ASSUME NEW w \in Workers, worker[w].phase = "SENDING", Request(w) \in accepted,
             RecordDelivered(w), UNCHANGED accepted
      PROVE  [Promise!Next]_(Promise!vars)
  <2>1. Ev(w) \in Events
    BY <1>4, EventAtHand DEF Sound
  <2>2. Ev(w) \in acceptedEvents \ closedEvents
    BY <1>4 DEF Request, RecordDelivered, Holds
  <2>3. outbox[Ev(w)].status # "ABSENT"
    BY <1>4 DEF RecordDelivered, Holds
  <2>4. outbox'[Ev(w)].status = "DELIVERED"
    BY <1>0, <1>4, <2>1 DEF RecordDelivered, Release, Rows
  <2>5. \A d \in Events \ {Ev(w)} : outbox'[d] = outbox[d]
    BY <1>0, <1>4 DEF RecordDelivered
  <2>6. /\ closedEvents' = closedEvents \cup {Ev(w)}
        /\ enqueuedEvents' = enqueuedEvents /\ acceptedEvents' = acceptedEvents
    BY <1>4, <2>1, <2>3, <2>4, <2>5
  <2> QED
    BY <2>1, <2>2, <2>6 DEF Promise!Next, Promise!Close
\* A step that changes no event's being there or being delivered.
<1>5. ASSUME UNCHANGED accepted,
             \A e \in Events : (outbox'[e].status = "ABSENT" <=> outbox[e].status = "ABSENT")
                            /\ (outbox'[e].status = "DELIVERED" <=> outbox[e].status = "DELIVERED")
      PROVE  [Promise!Next]_(Promise!vars)
  BY <1>1, <1>5
<1>6. ASSUME NEW w \in Workers, ClaimRow(w), worker[w].phase # "IDLE", UNCHANGED accepted
      PROVE  [Promise!Next]_(Promise!vars)
  <2>1. outbox'[Ev(w)].status = "DELIVERING"
    BY <1>0, <1>6, EventAtHand DEF ClaimRow, Claimed, Rows, Sound
  <2>2. \A d \in Events \ {Ev(w)} : outbox'[d] = outbox[d]
    BY <1>0, <1>6 DEF ClaimRow
  <2>3. outbox[Ev(w)].status \in {"PENDING", "FAILED", "DELIVERING"}
    BY <1>6 DEF ClaimRow, IsDue
  <2> QED
    BY <1>5, <1>6, <2>1, <2>2, <2>3
<1>7. ASSUME NEW w \in Workers, RecordFailed(w), worker[w].phase # "IDLE", UNCHANGED accepted
      PROVE  [Promise!Next]_(Promise!vars)
  <2>1. outbox'[Ev(w)].status = "FAILED"
    BY <1>0, <1>7, EventAtHand DEF RecordFailed, Release, Rows, Sound
  <2>2. \A d \in Events \ {Ev(w)} : outbox'[d] = outbox[d]
    BY <1>0, <1>7 DEF RecordFailed
  <2>3. outbox[Ev(w)].status = "DELIVERING"
    BY <1>7 DEF RecordFailed, Holds
  <2> QED
    BY <1>5, <1>7, <2>1, <2>2, <2>3
<1>8. ASSUME NEW e \in Events, AdminRetry(e)
      PROVE  [Promise!Next]_(Promise!vars)
  <2>1. outbox'[e].status = "PENDING" /\ outbox[e].status = "FAILED"
    BY <1>0, <1>8 DEF AdminRetry, Release, Rows
  <2>2. \A d \in Events \ {e} : outbox'[d] = outbox[d]
    BY <1>0, <1>8 DEF AdminRetry
  <2> QED
    BY <1>5, <1>8, <2>1, <2>2 DEF AdminRetry
<1>9. CASE UNCHANGED <<outbox, accepted>>
  BY <1>1, <1>9
<1>10. ASSUME NEW w \in Workers, Deliver(w) \/ Disturb(w)
       PROVE  [Promise!Next]_(Promise!vars)
  BY <1>4, <1>6, <1>7, <1>9, <1>10
  DEF Deliver, Disturb, ListDue, ReadClock, Claim, ClaimedByOther, ClaimThrows,
      Delivered, LostLease, DeliveredThrows, Refused, NoAnswer, Failed, FailedLostLease,
      FailedThrows, Crash, Stall
<1> QED
  BY <1>2, <1>3, <1>8, <1>9, <1>10 DEF Next, MerchantRefuses, Tick, vars

\* The outbox implements EventDelivery, whose liveness TLC checks (AtLeastOnce):
\* an event is closed only once the merchant has accepted it.
THEOREM OutboxImplementsDelivery == Spec => Promise!Init /\ [][Promise!Next]_(Promise!vars)
<1>1. Init => RequestsKnown /\ Promise!Init
  BY DEF Init, RequestsKnown, Promise!Init
<1>2. Sound /\ RequestsKnown /\ [Next]_vars => RequestsKnown'
  BY RequestsKnownStep
<1>3. Sound /\ RequestsKnown /\ [Next]_vars => [Promise!Next]_(Promise!vars)
  BY PromiseStep
<1> QED
  BY <1>1, <1>2, <1>3, SoundHolds, PTL DEF Spec
-----------------------------------------------------------------------------
(* Repetitions.  Every claim of an event but the first is paid for by a     *)
(* fault, and a worker that was held up before its claim has paid in        *)
(* advance: a lease it takes may already have run out.                      *)

\* The workers held up between the clock and the claim of the event.
Delayed(e) ==
  {w \in Workers : worker[w].phase = "CLAIMING" /\ worker[w].late /\ Ev(w) = e}

\* The last attempt of the event has met no fault.
Undisturbed(e) ==
  \/ outbox[e].status = "DELIVERED"
  \/ \E w \in Workers :
       /\ worker[w].phase = "SENDING" /\ ~ worker[w].late /\ Ev(w) = e
       /\ Request(w) \in inflight \cup accepted

Paid(attempts, delayed, paid, undisturbed) ==
  /\ IsFiniteSet(delayed)
  /\ attempts + Cardinality(delayed) <= paid + (IF undisturbed THEN 1 ELSE 0)

Excused == \A e \in Events : Paid(outbox[e].attempts, Delayed(e), faults, Undisturbed(e))

\* A worker that has not read the clock for its event yet is not late for it.
Fresh == \A w \in Workers : worker[w].phase \in {"IDLE", "LISTED"} => ~ worker[w].late

\* What a step may do to the account of an event: nothing, a fault, a worker held
\* up, a claim that is on time, one that is late, and one that fails.
AccountStep(a, D, f, u, b, E, g, v) ==
  \/ E \subseteq D /\ b = a /\ g = f /\ (u => v)
  \/ E \subseteq D /\ b = a /\ g = f + 1
  \/ \E w : E \subseteq D \cup {w} /\ b = a /\ g = f + 1 /\ (u => v)
  \/ E \subseteq D /\ b = a + 1 /\ g = f /\ ~ u /\ v
  \/ \E w \in D : E \subseteq D \ {w} /\ b = a + 1 /\ g = f /\ ~ u
  \/ E \subseteq D /\ b = a + 1 /\ g = f + 1 /\ ~ u

LEMMA AccountKept ==
  ASSUME NEW a \in Nat, NEW D, NEW f \in Nat, NEW u, Paid(a, D, f, u),
         NEW b, NEW E, NEW g, NEW v, AccountStep(a, D, f, u, b, E, g, v)
  PROVE  Paid(b, E, g, v)
<1> DEFINE n == Cardinality(D)
           m == Cardinality(E)
<1>1. IsFiniteSet(D) /\ n \in Nat
  BY FS_CardinalityType DEF Paid
<1>2. ASSUME E \subseteq D
      PROVE  IsFiniteSet(E) /\ m \in Nat /\ m <= n
  BY <1>1, <1>2, FS_Subset, FS_CardinalityType
<1>3. ASSUME NEW w, E \subseteq D \cup {w}
      PROVE  IsFiniteSet(E) /\ m \in Nat /\ m <= n + 1
  <2>1. IsFiniteSet(D \cup {w}) /\ Cardinality(D \cup {w}) \in {n, n + 1}
    BY <1>1, FS_AddElement
  <2>2. IsFiniteSet(E) /\ m <= Cardinality(D \cup {w})
    BY <1>3, <2>1, FS_Subset
  <2> QED
    BY <1>1, <2>1, <2>2, FS_CardinalityType
<1>4. ASSUME NEW w \in D, E \subseteq D \ {w}
      PROVE  IsFiniteSet(E) /\ m \in Nat /\ m + 1 <= n
  <2>1. IsFiniteSet(D \ {w}) /\ Cardinality(D \ {w}) = n - 1
    BY <1>1, FS_RemoveElement
  <2>2. IsFiniteSet(E) /\ m <= Cardinality(D \ {w})
    BY <1>4, <2>1, FS_Subset
  <2> QED
    BY <1>1, <2>1, <2>2, FS_CardinalityType
<1> DEFINE p == IF u THEN 1 ELSE 0
           q == IF v THEN 1 ELSE 0
<1>5. /\ p \in {0, 1} /\ q \in {0, 1}
      /\ (u => v) => p <= q
      /\ ~ u => p = 0
      /\ v => q = 1
  OBVIOUS
<1>6. a + n <= f + p
  BY DEF Paid
<1> HIDE DEF n, m, p, q
<1>7. IsFiniteSet(E) /\ b + m <= g + q
  <2>1. CASE E \subseteq D /\ b = a /\ g = f /\ (u => v)
    BY <1>1, <1>2, <1>5, <1>6, <2>1
  <2>2. CASE E \subseteq D /\ b = a /\ g = f + 1
    BY <1>1, <1>2, <1>5, <1>6, <2>2
  <2>3. CASE \E w : E \subseteq D \cup {w} /\ b = a /\ g = f + 1 /\ (u => v)
    BY <1>1, <1>3, <1>5, <1>6, <2>3
  <2>4. CASE E \subseteq D /\ b = a + 1 /\ g = f /\ ~ u /\ v
    BY <1>1, <1>2, <1>5, <1>6, <2>4
  <2>5. CASE \E w \in D : E \subseteq D \ {w} /\ b = a + 1 /\ g = f /\ ~ u
    BY <1>1, <1>4, <1>5, <1>6, <2>5
  <2>6. CASE E \subseteq D /\ b = a + 1 /\ g = f + 1 /\ ~ u
    BY <1>1, <1>2, <1>5, <1>6, <2>6
  <2> QED
    BY <2>1, <2>2, <2>3, <2>4, <2>5, <2>6 DEF AccountStep
<1> QED
  BY <1>7 DEF Paid, m, q

LEMMA FreshStep ==
  ASSUME Sound, Fresh, [Next]_vars
  PROVE  Fresh'
<1> SUFFICES ASSUME NEW w \in Workers, worker'[w].phase \in {"IDLE", "LISTED"}
             PROVE  ~ worker'[w].late
  BY DEF Fresh
<1>1. worker \in [Workers -> WorkerStates]
  BY DEF Sound, TypeOK
<1>2. worker[w] = [phase |-> worker[w].phase, queue |-> worker[w].queue,
                   attempt |-> worker[w].attempt, startedAt |-> worker[w].startedAt,
                   late |-> worker[w].late]
  BY <1>1 DEF WorkerStates
<1>3. CASE worker'[w] = worker[w]
  BY <1>3 DEF Fresh
<1>4. CASE NextInBatch(w) \/ Crash(w)
  <2>1. CASE NextInBatch(w)
    <3>1. \E p, q : worker'[w] = [Idle EXCEPT !.phase = p, !.queue = q]
      BY <1>1, <2>1 DEF NextInBatch
    <3> QED
      BY <3>1 DEF Idle
  <2>2. CASE Crash(w)
    BY <1>1, <2>2 DEF Crash, Idle
  <2> QED
    BY <1>4, <2>1, <2>2
<1>5. CASE ListDue(w)
  <2>1. worker'[w].late = worker[w].late
    BY <1>1, <1>2, <1>5 DEF ListDue
  <2> QED
    BY <1>5, <2>1 DEF Fresh, ListDue
<1>6. CASE ReadClock(w) \/ Claim(w) \/ Failing(w) \/ Stall(w)
  <2>1. worker'[w].phase \notin {"IDLE", "LISTED"}
    BY <1>1, <1>2, <1>6 DEF ReadClock, Claim, Failing, Stall, Busy
  <2> QED
    BY <2>1
<1>7. ASSUME NEW v \in Workers, Deliver(v) \/ Disturb(v), v # w
      PROVE  worker'[w] = worker[w]
  BY <1>1, <1>7 DEF Deliver, Disturb, ListDue, ReadClock, Claim, ClaimedByOther,
      ClaimThrows, Delivered, LostLease, DeliveredThrows, Refused, NoAnswer, Failed,
      FailedLostLease, FailedThrows, Crash, Stall, NextInBatch, Failing
<1>8. CASE Deliver(w) \/ Disturb(w)
  BY <1>4, <1>5, <1>6, <1>8
  DEF Deliver, Disturb, ClaimedByOther, ClaimThrows, Delivered, LostLease,
      DeliveredThrows, Refused, NoAnswer, Failed, FailedLostLease, FailedThrows
<1> QED
  BY <1>3, <1>7, <1>8 DEF Next, Enqueue, AdminRetry, MerchantAccepts, MerchantRefuses, Tick, vars

\* An event whose last attempt has met no fault is not due.
LEMMA UndisturbedIsNotDue ==
  ASSUME Sound, Leases, NEW e \in Events, Undisturbed(e), NEW t \in Nat, t <= now
  PROVE  ~ IsDue(outbox[e], t)
<1>1. CASE outbox[e].status = "DELIVERED"
  BY <1>1 DEF IsDue
<1>2. ASSUME NEW w \in Workers, worker[w].phase = "SENDING", ~ worker[w].late, Ev(w) = e
      PROVE  ~ IsDue(outbox[e], t)
  <2>1. Holds(w) /\ now < outbox[e].leaseExpiresAt
    BY <1>2, LeasesCover DEF LeaseCoversDelivery
  <2>2. now \in Nat /\ outbox[e].leaseExpiresAt \in Nat
    BY DEF Sound, TypeOK, Rows
  <2>3. ~ (outbox[e].leaseExpiresAt <= t)
    BY <2>1, <2>2
  <2> QED
    BY <1>2, <2>1, <2>3 DEF Holds, IsDue
<1> QED
  BY <1>1, <1>2 DEF Undisturbed

\* The claims that a step leaves alone: those of the other workers.
LEMMA OthersKeepDelayed ==
  ASSUME NEW w \in Workers, NEW e,
         \A v \in Workers \ {w} : worker'[v] = worker[v]
  PROVE  Delayed(e)' \subseteq Delayed(e) \cup {w}
BY DEF Delayed, Ev

\* What a worker's step does to the account of an event.
LEMMA WorkerAccount ==
  ASSUME Sound, Leases, Fresh, NEW w \in Workers, Deliver(w) \/ Disturb(w), NEW e \in Events
  PROVE  AccountStep(outbox[e].attempts, Delayed(e), faults, Undisturbed(e),
                     outbox'[e].attempts, Delayed(e)', faults', Undisturbed(e)')
<1>1. /\ worker \in [Workers -> WorkerStates]
      /\ outbox \in [Events -> Rows]
      /\ now \in Nat /\ faults \in Nat
  BY DEF Sound, TypeOK
<1>2. worker[w] = [phase |-> worker[w].phase, queue |-> worker[w].queue,
                   attempt |-> worker[w].attempt, startedAt |-> worker[w].startedAt,
                   late |-> worker[w].late]
  BY <1>1 DEF WorkerStates
<1>3. \A v \in Workers \ {w} : worker'[v] = worker[v]
  BY <1>1 DEF Deliver, Disturb, ListDue, ReadClock, Claim, ClaimedByOther,
      ClaimThrows, Delivered, LostLease, DeliveredThrows, Refused, NoAnswer, Failed,
      FailedLostLease, FailedThrows, Crash, Stall, NextInBatch, Failing
<1>4. ASSUME worker'[w].phase = "CLAIMING" => ~ worker'[w].late
      PROVE  Delayed(e)' \subseteq Delayed(e) \ {w}
  BY <1>3, <1>4 DEF Delayed, Ev
<1>5. inflight \cup accepted \subseteq (inflight \cup accepted)'
  BY DEF Deliver, Disturb, ListDue, ReadClock, Claim, ClaimedByOther,
      ClaimThrows, Delivered, LostLease, DeliveredThrows, Refused, NoAnswer, Failed,
      FailedLostLease, FailedThrows, Crash, Stall
<1>6. ASSUME Undisturbed(e), ~ (worker[w].phase = "SENDING" /\ ~ worker[w].late /\ Ev(w) = e)
      PROVE  Undisturbed(e)'
  <2>1. CASE outbox[e].status = "DELIVERED"
    BY <2>1, DeliveredStays DEF Undisturbed, Next
  <2>2. ASSUME NEW v \in Workers, worker[v].phase = "SENDING", ~ worker[v].late, Ev(v) = e,
               Request(v) \in inflight \cup accepted
        PROVE  Undisturbed(e)'
    <3>1. worker'[v] = worker[v]
      BY <1>3, <1>6, <2>2
    <3>2. Ev(v)' = Ev(v) /\ Request(v)' = Request(v)
      BY <3>1 DEF Ev, Request
    <3> QED
      BY <1>5, <2>2, <3>1, <3>2 DEF Undisturbed
  <2> QED
    BY <1>6, <2>1, <2>2 DEF Undisturbed
<1>7. CASE (Claim(w) \/ (ClaimThrows(w) /\ ClaimRow(w))) /\ Ev(w) = e
  <2>0. ClaimRow(w) /\ worker[w].phase = "CLAIMING"
    BY <1>7 DEF Claim, ClaimThrows
  <2>1. outbox'[e].attempts = outbox[e].attempts + 1
    <3>1. outbox[e] \in Rows /\ outbox'[e] = Claimed(outbox[e], w)
      BY <1>1, <1>7, <2>0 DEF ClaimRow
    <3> QED
      BY <3>1 DEF Claimed, Rows
  <2>2. ~ Undisturbed(e)
    <3>1. IsDue(outbox[e], worker[w].startedAt)
      BY <1>7, <2>0 DEF ClaimRow
    <3>2. worker[w].startedAt \in Nat /\ worker[w].startedAt <= now
      BY <1>1, <2>0 DEF Leases, OnTime, Busy, WorkerStates
    <3> QED
      BY <3>1, <3>2, UndisturbedIsNotDue
  <2>3. CASE Claim(w) /\ worker[w].late
    <3>1. worker'[w].phase = "SENDING" /\ faults' = faults
      BY <1>1, <1>2, <2>3 DEF Claim, NoFault
    <3>2. w \in Delayed(e) /\ Delayed(e)' \subseteq Delayed(e) \ {w}
      BY <1>4, <1>7, <2>0, <2>3, <3>1 DEF Delayed
    <3> QED
      BY <2>1, <2>2, <3>1, <3>2 DEF AccountStep
  <2>4. CASE Claim(w) /\ ~ worker[w].late
    <3>1. /\ worker'[w].phase = "SENDING" /\ ~ worker'[w].late
          /\ worker'[w].queue = worker[w].queue
          /\ worker'[w].attempt = outbox[Ev(w)].attempts + 1
          /\ faults' = faults
      BY <1>1, <1>2, <2>4 DEF Claim, NoFault
    <3>2. Ev(w)' = e /\ Request(w)' = <<e, outbox[e].attempts + 1>>
      BY <1>7, <3>1 DEF Ev, Request
    <3>3. <<e, outbox[e].attempts + 1>> \in inflight'
      BY <1>7, <2>4 DEF Claim
    <3>4. Undisturbed(e)'
      BY <3>1, <3>2, <3>3 DEF Undisturbed
    <3>5. Delayed(e)' \subseteq Delayed(e)
      BY <1>4, <3>1
    <3> QED
      BY <2>1, <2>2, <3>1, <3>4, <3>5 DEF AccountStep
  <2>5. CASE ClaimThrows(w)
    <3>1. worker'[w].phase \in {"IDLE", "LISTED"} /\ faults' = faults + 1
      BY <1>1, <2>5, WorkerEffects DEF ClaimThrows, Fault
    <3>2. Delayed(e)' \subseteq Delayed(e)
      BY <1>4, <3>1
    <3> QED
      BY <2>1, <2>2, <3>1, <3>2 DEF AccountStep
  <2> QED
    BY <1>7, <2>3, <2>4, <2>5
<1>8. CASE ~ ((Claim(w) \/ (ClaimThrows(w) /\ ClaimRow(w))) /\ Ev(w) = e)
  <2>1. outbox'[e].attempts = outbox[e].attempts
    <3>1. CASE ClaimRow(w) /\ Ev(w) # e
      BY <1>1, <3>1 DEF ClaimRow
    <3>2. CASE worker[w].phase # "IDLE" /\ (RecordDelivered(w) \/ RecordFailed(w))
      <4>1. \E row : /\ outbox' = [outbox EXCEPT ![Ev(w)] = row]
                     /\ row.attempts = outbox[Ev(w)].attempts
        <5>1. outbox[Ev(w)] \in Rows
          BY <1>1, <3>2, EventAtHand DEF Sound
        <5>2. /\ Release(outbox[Ev(w)], "DELIVERED").attempts = outbox[Ev(w)].attempts
              /\ \A t : [Release(outbox[Ev(w)], "FAILED") EXCEPT !.availableAt = t].attempts
                         = outbox[Ev(w)].attempts
          BY <5>1 DEF Release, Rows
        <5> QED
          BY <3>2, <5>2 DEF RecordDelivered, RecordFailed
      <4> QED
        BY <1>1, <4>1
    <3> QED
      BY <1>8, <3>1, <3>2
      DEF Deliver, Disturb, ListDue, ReadClock, Claim, ClaimedByOther, ClaimThrows, Delivered,
          LostLease, DeliveredThrows, Refused, NoAnswer, Failed, FailedLostLease,
          FailedThrows, Crash, Stall
  <2>2. CASE Stall(w) /\ worker[w].phase = "CLAIMING"
    <3>1. Delayed(e)' \subseteq Delayed(e) \cup {w}
      BY <1>3, OthersKeepDelayed
    <3>2. faults' = faults + 1
      BY <2>2 DEF Stall, Fault
    <3> QED
      BY <1>6, <2>1, <2>2, <3>1, <3>2 DEF AccountStep
  <2>3. ASSUME ~ (Stall(w) /\ worker[w].phase = "CLAIMING")
        PROVE  Delayed(e)' \subseteq Delayed(e)
    <3>1. CASE ReadClock(w)
      <4>1. worker'[w].late = worker[w].late
        BY <1>1, <1>2, <3>1 DEF ReadClock
      <4>2. ~ worker[w].late
        BY <3>1 DEF ReadClock, Fresh
      <4> QED
        BY <1>4, <4>1, <4>2
    <3>2. CASE NextInBatch(w) \/ ListDue(w) \/ Crash(w) \/ Failing(w)
      BY <1>1, <1>4, <3>2, WorkerEffects
    <3>3. CASE Claim(w)
      BY <1>1, <1>2, <1>4, <3>3 DEF Claim
    <3>4. CASE Stall(w)
      <4>1. worker'[w].phase = worker[w].phase
        BY <1>1, <1>2, <3>4 DEF Stall
      <4> QED
        BY <1>4, <2>3, <3>4, <4>1
    <3> QED
      BY <3>1, <3>2, <3>3, <3>4
      DEF Deliver, Disturb, ClaimedByOther, ClaimThrows, Delivered, LostLease,
          DeliveredThrows, Refused, NoAnswer, Failed, FailedLostLease, FailedThrows
  <2>4. CASE Disturb(w)
    <3>1. faults' = faults + 1
      BY <2>4 DEF Disturb, ClaimThrows, DeliveredThrows, NoAnswer, FailedThrows, Crash, Stall, Fault
    <3> QED
      BY <2>1, <2>2, <2>3, <3>1 DEF AccountStep
  <2>5. CASE Deliver(w)
    <3>1. faults' = faults /\ ~ Stall(w)
      <4>1. faults' = faults
        BY <2>5 DEF Deliver, ListDue, ReadClock, Claim, ClaimedByOther, Delivered, LostLease,
          Refused, Failed, FailedLostLease, NoFault
      <4> QED
        BY <1>1, <4>1 DEF Stall, Fault
    <3>2. ASSUME Undisturbed(e), worker[w].phase = "SENDING", ~ worker[w].late, Ev(w) = e
          PROVE  Undisturbed(e)'
      <4>1. Holds(w)
        BY <3>2 DEF Leases, Claiming
      <4>2. Request(w) \in inflight \cup accepted
        <5>1. PICK v \in Workers : /\ worker[v].phase = "SENDING" /\ ~ worker[v].late
                                   /\ Ev(v) = e /\ Request(v) \in inflight \cup accepted
          BY <3>2, <4>1 DEF Undisturbed, Holds
        <5>2. Holds(v)
          BY <5>1 DEF Leases, Claiming
        <5>3. v = w
          BY <3>2, <4>1, <5>1, <5>2 DEF Holds
        <5> QED
          BY <5>1, <5>3
      <4>3. Delivered(w)
        BY <2>5, <3>2, <4>1, <4>2 DEF Deliver, ListDue, ReadClock, Claim, ClaimedByOther,
          LostLease, Refused, Failed, FailedLostLease
      <4>4. outbox'[e].status = "DELIVERED"
        <5>1. outbox[e] \in Rows /\ outbox'[e] = Release(outbox[e], "DELIVERED")
          BY <1>1, <3>2, <4>3 DEF Delivered, RecordDelivered
        <5> QED
          BY <5>1 DEF Release, Rows
      <4> QED
        BY <4>4 DEF Undisturbed
    <3> QED
      BY <1>6, <2>1, <2>3, <3>1, <3>2 DEF AccountStep
  <2> QED
    BY <2>4, <2>5
<1> QED
  BY <1>7, <1>8

LEMMA ExcusedStep ==
  ASSUME Sound, Leases, Fresh, Excused, [Next]_vars
  PROVE  Excused'
<1> SUFFICES ASSUME NEW e \in Events
             PROVE  Paid(outbox[e].attempts, Delayed(e), faults, Undisturbed(e))'
  BY DEF Excused
<1>1. outbox[e] \in Rows /\ outbox \in [Events -> Rows] /\ faults \in Nat
  BY DEF Sound, TypeOK
<1>2. AccountStep(outbox[e].attempts, Delayed(e), faults, Undisturbed(e),
                  outbox'[e].attempts, Delayed(e)', faults', Undisturbed(e)')
  <2>1. ASSUME UNCHANGED <<worker, faults>>, inflight \cup accepted \subseteq (inflight \cup accepted)',
               outbox'[e].attempts = outbox[e].attempts
        PROVE  AccountStep(outbox[e].attempts, Delayed(e), faults, Undisturbed(e),
                           outbox'[e].attempts, Delayed(e)', faults', Undisturbed(e)')
    <3>1. Delayed(e)' = Delayed(e)
      BY <2>1 DEF Delayed, Ev
    <3>2. Undisturbed(e) => Undisturbed(e)'
      BY <2>1, DeliveredStays DEF Undisturbed, Request, Ev
    <3> QED
      BY <2>1, <3>1, <3>2 DEF AccountStep
  <2>2. ASSUME NEW d \in Events, Enqueue(d) \/ AdminRetry(d)
        PROVE  outbox'[e].attempts = outbox[e].attempts
    <3>1. outbox[d] \in Rows
      BY <1>1
    <3>2. [Release(outbox[d], "PENDING") EXCEPT !.availableAt = now].attempts
            = outbox[d].attempts
      BY <3>1 DEF Release, Rows
    <3>3. CASE Enqueue(d)
      BY <1>1, <3>1, <3>3 DEF Enqueue, Rows
    <3>4. CASE AdminRetry(d)
      BY <1>1, <3>2, <3>4 DEF AdminRetry
    <3> QED
      BY <2>2, <3>3, <3>4
  <2>3. ASSUME NEW r \in inflight, MerchantRefuses(r)
        PROVE  AccountStep(outbox[e].attempts, Delayed(e), faults, Undisturbed(e),
                           outbox'[e].attempts, Delayed(e)', faults', Undisturbed(e)')
    <3>1. Delayed(e)' = Delayed(e) /\ faults' = faults + 1 /\ outbox' = outbox
      BY <2>3 DEF MerchantRefuses, Fault, Delayed, Ev
    <3> QED
      BY <3>1 DEF AccountStep
  <2> QED
    BY <2>1, <2>2, <2>3, WorkerAccount
    DEF Next, Enqueue, AdminRetry, MerchantAccepts, Tick, vars
<1>3. outbox[e].attempts \in Nat
  BY <1>1 DEF Rows
<1>4. Paid(outbox[e].attempts, Delayed(e), faults, Undisturbed(e))
  BY DEF Excused
<1>5. Paid(outbox'[e].attempts, Delayed(e)', faults', Undisturbed(e)')
  BY ONLY <1>1, <1>2, <1>3, <1>4, AccountKept
<1> QED
  BY <1>5 DEF Paid

\* RepeatsAreCaused of the runs: an event is sent again only because of a fault
\* after it was claimed, one fault for each repetition; neither the race of two
\* workers nor an operator's retry repeats a delivery that went well.
THEOREM RepeatsAreCausedHolds == Spec => []RepeatsAreCaused
<1>1. Init => Leases /\ Fresh
  BY DEF Init, Leases, Idle, Busy, Claiming, Fresh
<1>2. Init => Excused
  <2> SUFFICES ASSUME Init, NEW e \in Events
               PROVE  Paid(outbox[e].attempts, Delayed(e), faults, Undisturbed(e))
    BY DEF Excused
  <2>1. outbox[e].attempts = 0 /\ faults = 0 /\ Delayed(e) = {}
    BY DEF Init, Delayed, Idle
  <2> QED
    BY <2>1, FS_EmptySet DEF Paid
<1>3. Sound /\ Leases /\ [Next]_vars => Leases'
  BY OnTimeStep, ClaimingStep DEF Leases
<1>4. Sound /\ Leases /\ Fresh /\ Excused /\ [Next]_vars => Fresh' /\ Excused'
  BY FreshStep, ExcusedStep
<1>5. Sound /\ Excused => RepeatsAreCaused
  <2> SUFFICES ASSUME Sound, Excused, NEW e \in Events PROVE outbox[e].attempts <= 1 + faults
    BY DEF RepeatsAreCaused
  <2>1. outbox[e].attempts \in Nat /\ faults \in Nat
    BY DEF Sound, TypeOK, Rows
  <2>2. /\ IsFiniteSet(Delayed(e))
        /\ outbox[e].attempts + Cardinality(Delayed(e))
             <= faults + (IF Undisturbed(e) THEN 1 ELSE 0)
    BY DEF Excused, Paid
  <2>3. Cardinality(Delayed(e)) \in Nat
    BY <2>2, FS_CardinalityType
  <2> QED
    BY <2>1, <2>2, <2>3
<1> QED
  BY <1>1, <1>2, <1>3, <1>4, <1>5, SoundHolds, PTL DEF Spec
=============================================================================
