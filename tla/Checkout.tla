------------------------------ MODULE Checkout ------------------------------
(***************************************************************************)
(* The checkout's own settlement of attempts without an activation         *)
(* threshold: create and /check (backend/src/payments.ts), the matches     *)
(* they settle from, legacy or from the ledger (gram-ledger-source.ts),    *)
(* and the repository's markInvoicePaid, markInvoicePartial,               *)
(* markInvoiceExpired and ensureInvoiceOrder (repository.ts).              *)
(*                                                                         *)
(* A call reads the attempt, asks the provider and decides from what it    *)
(* has read; a transaction then reads the attempt again and writes it if   *)
(* its version is still the same.  It runs at READ COMMITTED: the order    *)
(* and the other attempts are read without a lock, one after the other,    *)
(* and the order is written by its id.  Other calls come in between at     *)
(* each of these points.  Amounts are in GRAM, and the fiat obligation is  *)
(* Amount.  A unit of time is longer than the minute by which the          *)
(* provider's window exceeds the search.                                   *)
(***************************************************************************)
EXTENDS Integers, FiniteSets, Functions

CONSTANTS
  Attempts,     \* the payment attempts of one order, each with a wallet
  Transfers,    \* GRAM transfers that payers may make
  TransferOf,   \* TransferOf[t]: the attempt it pays, its amount and whether the
                \* strict scanner takes it (the legacy matcher takes any)
  Callers,      \* requests in progress
  Modes,        \* gramSettlementMode of the instances that are running
  Amount,       \* the amount due
  InvoiceTtl, PartialTtl,  \* the price lock and the window of a partial payment
  Rollout,      \* until when instances of the release before are running
  MaxTime,      \* bound on the clock
  MaxEvents     \* bound on late answers, abandoned requests and what instances
                \* of the release before do

VARIABLES
  now,      \* the clock
  chain,    \* chain[t]: when the transfer was made
  journal,  \* the transfers that are movements of the ledger
  order,    \* the TonhubPaymentOrder row
  attempt,  \* attempt[i]: the TonhubPaymentInvoice row
  call,     \* call[c]: the local state of a request: IDLE, FIND, CHECKED, SEEN,
            \* DECIDED or in its transaction (BEGUN, ORDERED, JOINING, TAKEN)
  late,     \* the provider has left a transfer out of an answer
  lost,     \* a transaction has lost the attachment of an attempt to another one
  overtaken, \* the order is as written from reads that others had overtaken, and
            \* no transaction has recomputed it since
  events    \* how many late answers and the like there have been

rows == <<order, attempt>>
ghosts == <<late, lost, overtaken>>
vars == <<now, chain, journal, order, attempt, call, ghosts, events>>

Times  == 0..MaxTime
NoTime == -1
Facts  == [to: Attempts, amount: Nat \ {0}, strict: BOOLEAN]

ASSUME CheckoutAssumption ==
  /\ IsFiniteSet(Attempts) /\ IsFiniteSet(Transfers)
  /\ TransferOf \in [Transfers -> Facts]
  /\ Modes \subseteq {"legacy", "compare", "ledger"}
  /\ Amount \in Nat \ {0}
  /\ {InvoiceTtl, PartialTtl, Rollout, MaxTime, MaxEvents} \subseteq Nat

ActiveStatuses == {"PENDING", "PARTIAL"}

\* attached: orderId is set; superseded: settlementReason is
\* ROLLOUT_ATTEMPT_SUPERSEDED; paid: observedPayments, whose sum is paidNano; atomic:
\* the payments that paidAmountAtomic sums.  The row's version only grows and is only
\* compared: see fresh below.
NewRow(attached) ==
  [status |-> "PENDING", attached |-> attached, superseded |-> FALSE, createdAt |-> now,
   paid |-> {}, atomic |-> {}, credited |-> 0, start |-> NoTime, until |-> NoTime]
Absent == [NewRow(FALSE) EXCEPT !.status = "ABSENT", !.createdAt = 0]

\* Where a call is in its transaction.
Transaction == {"BEGUN", "ORDERED", "JOINING", "TAKEN"}

\* What a call makes of its matches.
Undecided == [kind |-> "NONE", paid |-> {}, start |-> NoTime, until |-> NoTime]

NewOrder == [status |-> "PENDING", credited |-> 0]
Existing(o) == IF o.status = "ABSENT" THEN NewOrder ELSE o

\* row is the attempt as the call has read it last, or what matters of it.  In a
\* transaction, terminal is what it has read of the order, actives the active attempts
\* it has found there, to the order it is about to write; fresh: the row still has the
\* version that was read; alone: the order and its attempts are still as they were.
Resting == [at |-> "IDLE", attempt |-> CHOOSE i \in Attempts : TRUE, row |-> Absent,
            now |-> 0, decision |-> Undecided, terminal |-> FALSE, actives |-> {},
            to |-> NewOrder, fresh |-> TRUE, alone |-> TRUE]

Active(i) == attempt[i].status \in ActiveStatuses
Live(r) == r.attached /\ r.status \in ActiveStatuses
At(c, place) == call[c].at = place
GoTo(c, place) == call' = [call EXCEPT ![c] = [Resting EXCEPT !.at = place]]
EndCall(c) == call' = [call EXCEPT ![c] = Resting]
Changed(a) == {i \in Attempts : a[i] # attempt[i]}
Event == events < MaxEvents /\ events' = events + 1

Lesser(m, n) == IF m < n THEN m ELSE n
Sum(ts) == FoldFunctionOnSet(+, 0, [t \in Transfers |-> TransferOf[t].amount], ts)
Earliest(ts) == chain[CHOOSE t \in ts : \A u \in ts : chain[t] <= chain[u]]
-----------------------------------------------------------------------------
(* The order of its attempts.                                               *)

\* summarizeOrderAttemptCredits, of the attempts in a.
Funded(a) == {i \in Attempts : a[i].attached /\ a[i].credited > 0}
Credit(a) ==
  Lesser(Amount, FoldFunctionOnSet(+, 0, [i \in Attempts |-> a[i].credited], Funded(a)))

\* syncOrderFromAttempts.
SyncedByOne(o, a, next, force) ==
  [credited |-> Credit(a), status |-> IF force THEN "RECOVERY" ELSE next]
Synced(o, a, next, force) ==
  [credited |-> Credit(a),
   status |-> IF \/ force
                 \/ Cardinality(Funded(a)) > 1
                 \/ next = "EXPIRED" /\ Credit(a) > 0
                 \/ o.status \in {"RECOVERY", "CANCELLED", "FAILED"} /\ next # o.status
              THEN "RECOVERY" ELSE next]

\* calculateFiatCreditMicros.
FiatCredit(paid) == Lesser(Amount, Sum(paid))

Closed == {"PAID", "RECOVERY", "CANCELLED", "FAILED"}

\* The other attempts of the order that are active, of which there is at most one.
Rivals(a, i) == {k \in Attempts \ {i} : Live(a[k])}

\* ensureInvoiceOrder, in a call with local state k: an attempt of the release before
\* joins the order, as it was when found.  One that is paid or about to be is preferred.
Prefers(k) == k.decision.kind \in {"PAID", "PARTIAL"}
Preferred(k) == Prefers(k) \/ FiatCredit(k.row.paid) > 0 \/ k.row.status = "PAID"

\* The attachment itself.  It may leave an active attempt cancelled at first, as
\* the index one_active_attempt_per_order demands.
AttachedAs(k) ==
  IF \/ k.actives \ {k.attempt} # {}
     \/ k.terminal /\ k.row.status \in ActiveStatuses /\ ~Preferred(k)
  THEN "CANCELLED" ELSE k.row.status
Attached(k, a) ==
  [a EXCEPT ![k.attempt] =
     [@ EXCEPT !.attached = TRUE, !.status = AttachedAs(k),
               !.superseded = AttachedAs(k) = "CANCELLED", !.atomic = k.row.paid,
               !.credited = IF k.row.status = "PAID" THEN Amount ELSE FiatCredit(k.row.paid)]]

\* A preferred attempt supersedes its rival and gets its status back.
NotSuperseded(a, i) == a
Superseded(a, i) ==
  [k \in Attempts |->
     IF k \in Rivals(a, i)
     THEN [a[k] EXCEPT !.status = IF a[k].credited > 0 THEN "FAILED" ELSE "CANCELLED",
                       !.superseded = TRUE]
     ELSE a[k]]

NotRestored(a, i, f) == a
Restored(a, i, f) ==
  IF a[i].status = "CANCELLED" /\ a[i].superseded /\ f.status # "CANCELLED"
  THEN [a EXCEPT ![i] = [@ EXCEPT !.status = f.status, !.superseded = FALSE]]
  ELSE a

\* What it makes of the attempts a.
Joined(k, a) ==
  LET joined == IF a[k.attempt].attached THEN a ELSE Attached(k, a)
  IN  IF k.row.attached THEN a
      ELSE IF Preferred(k) THEN Restored(Superseded(joined, k.attempt), k.attempt, k.row)
      ELSE joined

\* The order afterwards, if the attempts are then a; a paid one has its credit set.
Ensured(k, o, a) ==
  [credited |-> Credit(a),
   status |->
     IF \/ Cardinality(Funded(a)) > 1
        \/ k.row.status = "EXPIRED" /\ FiatCredit(k.row.paid) > 0
        \/ Prefers(k) /\ k.terminal
     THEN "RECOVERY"
     ELSE IF Preferred(k) /\ k.row.status \in {"PAID", "PARTIAL"} THEN k.row.status
     ELSE IF k.actives = {} /\ ~k.terminal /\ a[k.attempt].status \notin ActiveStatuses \cup {"PAID"}
     THEN a[k.attempt].status
     ELSE Existing(o).status]

\* Whoever commits first has written first: a transaction that was about to write one
\* of the rows written, or a second active attempt, meets them as they are then.
Conflicts(k, a, written) ==
  LET joined == Joined(k, attempt)
      held   == Changed(joined) \cup (IF k.row.attached THEN {k.attempt} ELSE {})
  IN  \/ written \cap held # {}
      \/ Live(joined[k.attempt]) /\ \E i \in written \ {k.attempt} : Live(a[i])

\* The calls cs after a step that makes the order o and the attempts a, those in
\* written with a new version.
OutdatedCall(k, o, a, written) ==
  LET again == k.at = "TAKEN" /\ Conflicts(k, a, written)
  IN  [k EXCEPT !.at    = IF ~again THEN @ ELSE IF k.row.attached THEN "BEGUN" ELSE "JOINING",
                !.to    = IF again THEN NewOrder ELSE @,
                !.fresh = @ /\ k.attempt \notin written,
                !.alone = @ /\ o = order /\ \A i \in written : ~a[i].attached]
Outdated(cs, o, a, written) ==
  [c \in Callers |->
     IF cs[c].at \in Transaction THEN OutdatedCall(cs[c], o, a, written) ELSE cs[c]]
-----------------------------------------------------------------------------
(* The start of a request.                                                  *)

See(c, i) ==
  call' = [call EXCEPT ![c] = [Resting EXCEPT !.at = "SEEN", !.attempt = i, !.row = attempt[i],
                                              !.now = now]]

\* checkTonhubPaymentInvoice: anything but an active attempt is answered at once.
Check(c, i) ==
  /\ At(c, "IDLE")
  /\ Active(i)
  /\ See(c, i)
  /\ UNCHANGED <<now, chain, journal, rows, ghosts, events>>

Latest(is) == {i \in is : \A k \in is : attempt[k].createdAt <= attempt[i].createdAt}
Loose == {i \in Attempts : attempt[i].status # "ABSENT" /\ ~attempt[i].attached}

\* createTonhubPaymentInvoice.  findReusableInvoice first lets the latest attempt
\* without an order join it, in a transaction of its own that has found it before.
Create(c) ==
  /\ At(c, "IDLE")
  /\ \/ Loose = {} /\ GoTo(c, "FIND")
     \/ \E i \in Latest(Loose) :
          call' = [call EXCEPT ![c] = [Resting EXCEPT !.at = "BEGUN", !.attempt = i, !.row = attempt[i]]]
  /\ UNCHANGED <<now, chain, journal, rows, ghosts, events>>

\* Then it returns the latest attempt that is paid or active, and an active one is
\* settled as by /check.
Reusable ==
  {i \in Attempts : attempt[i].attached /\ attempt[i].status \in
     {"PAID"} \cup (IF order.status = "PAID" THEN {} ELSE ActiveStatuses)}

\* What the index of active attempts asks of an insert.
NoRival == \A k \in Attempts : ~Live(attempt[k])

\* Or else createPendingInvoice goes by what it finds now; what has changed since the
\* look for a reusable attempt could only make it return earlier.
Find(c) ==
  /\ At(c, "FIND") /\ order.status # "ABSENT"
  /\ IF order.status \in {"RECOVERY", "CANCELLED", "FAILED"} THEN EndCall(c)
     ELSE IF Reusable = {}
     THEN IF order.status = "PAID" THEN EndCall(c) ELSE GoTo(c, "CHECKED")
     ELSE \E i \in Latest(Reusable) : IF Active(i) THEN See(c, i) ELSE EndCall(c)
  /\ UNCHANGED <<now, chain, journal, rows, ghosts, events>>

\* A transaction that finds no order makes it, and the next one waits for it to end.
Making == {c \in Callers : call[c].at \in {"ORDERED", "JOINING", "TAKEN"}}
MayOrder == order.status = "ABSENT" => Making = {}

\* The order's own insert is atomic with the attempt's.
MayInsert(c) == At(c, "CHECKED") \/ (At(c, "FIND") /\ order.status = "ABSENT" /\ MayOrder)

\* An order that is no longer open is left as it is, the attempt is inserted.
Insert(c, i) ==
  /\ MayInsert(c)
  /\ attempt[i].status = "ABSENT"
  /\ NoRival
  /\ order' = IF order.status \in {"ABSENT", "PENDING", "EXPIRED"} THEN NewOrder ELSE order
  /\ attempt' = [attempt EXCEPT ![i] = NewRow(TRUE)]
  /\ call' = Outdated([call EXCEPT ![c] = Resting], order', attempt', {i})
  /\ UNCHANGED <<now, chain, journal, ghosts, events>>

\* The index refuses the insert; or all Attempts are used up.
InsertFails(c) ==
  /\ MayInsert(c)
  /\ \/ ~NoRival
     \/ \A i \in Attempts : attempt[i].status # "ABSENT"
  /\ EndCall(c)
  /\ UNCHANGED <<now, chain, journal, rows, ghosts, events>>
-----------------------------------------------------------------------------
(* Settling an attempt.                                                     *)

LockUntil(r) == r.createdAt + InvoiceTtl

\* gramSettlementWindow.
SearchLimit(r) == IF r.until # NoTime THEN r.until ELSE LockUntil(r) + PartialTtl
Window(r, at) == r.createdAt..Lesser(at, SearchLimit(r))
InWindow(ts, i, r, at) == {t \in ts : TransferOf[t].to = i /\ chain[t] \in Window(r, at)}

\* settleTonhubInvoice, up to its writes: what row r and its matches ts come to.
LockPassedEarly(r, at) == LockUntil(r) <= at
LockPassed(r, at) == LockUntil(r) < at

Expired == [Undecided EXCEPT !.kind = "EXPIRED"]

\* The window opened by a first payment: all that was made in it counts together.
Counted(r, at, ts, start) ==
  LET until == IF r.until # NoTime THEN r.until ELSE start + PartialTtl
      paid  == r.paid \cup {t \in ts : chain[t] <= until}
  IN  IF Sum(paid) >= Amount
      THEN IF ts = {} THEN Undecided ELSE [Undecided EXCEPT !.kind = "PAID", !.paid = paid]
      ELSE IF until < at THEN Expired
      ELSE [kind |-> "PARTIAL", paid |-> paid, start |-> start, until |-> until]

Decision(r, at, ts) ==
  LET starters == IF r.start # NoTime THEN ts ELSE {t \in ts : chain[t] <= LockUntil(r)}
      start    == IF r.start # NoTime THEN r.start
                  ELSE IF starters # {} THEN Earliest(starters) ELSE at
  IN  IF starters # {} \/ r.paid # {} THEN Counted(r, at, ts, start)
      ELSE IF LockPassed(r, at) THEN Expired ELSE Undecided

\* settleTonhubInvoiceWithConfiguredSource.  All but legacy instances journal what
\* the strict scanner takes, and those in ledger mode settle from what has been
\* journaled, unless a stored payment is missing there.
Journaled(mode, answer) ==
  IF mode = "legacy" THEN journal ELSE journal \cup {t \in answer : TransferOf[t].strict}
Matches(c, mode, answer) ==
  IF mode = "ledger"
  THEN InWindow(Journaled(mode, answer), call[c].attempt, call[c].row, call[c].now)
  ELSE answer
Verified(c, mode, answer) ==
  mode = "ledger" =>
    /\ call[c].row.paid \subseteq Matches(c, mode, answer)
    /\ call[c].row.attached => Sum(call[c].row.atomic) = Sum(call[c].row.paid)

Settle(c) ==
  LET visible == InWindow({t \in Transfers : chain[t] # NoTime},
                          call[c].attempt, call[c].row, call[c].now)
  IN  /\ At(c, "SEEN")
      /\ \E mode \in Modes, answer \in SUBSET visible :
           LET d == Decision(call[c].row, call[c].now, Matches(c, mode, answer))
           IN  /\ IF answer = visible THEN UNCHANGED <<late, events>>
                  ELSE late' = TRUE /\ Event
               /\ journal' = Journaled(mode, answer)
               /\ IF Verified(c, mode, answer) /\ d.kind # "NONE"
                  THEN call' = [call EXCEPT ![c] =
                         [Resting EXCEPT !.at = "DECIDED", !.attempt = call[c].attempt,
                                         !.decision = d]]
                  ELSE EndCall(c)
      /\ UNCHANGED <<now, chain, rows, lost, overtaken>>

\* Of an attached row that it has found a transaction uses no more than its version.
AttachedRow == [Absent EXCEPT !.attached = TRUE]

\* The read of markInvoicePaid, markInvoicePartial and markInvoiceExpired.
Begin(c) ==
  LET i == call[c].attempt
  IN  /\ At(c, "DECIDED")
      /\ IF Active(i)
         THEN call' = [call EXCEPT ![c].at = "BEGUN", ![c].row =
                         IF attempt[i].attached THEN AttachedRow ELSE attempt[i]]
         ELSE EndCall(c)
      /\ UNCHANGED <<now, chain, journal, rows, ghosts, events>>

\* ensureInvoiceOrder reads the order, which it makes if there is none.
Join(c) ==
  /\ At(c, "BEGUN") /\ ~call[c].row.attached /\ MayOrder
  /\ call' = [call EXCEPT ![c].at = "ORDERED", ![c].terminal = order.status \in Closed,
                          ![c].alone = TRUE]
  /\ UNCHANGED <<now, chain, journal, rows, ghosts, events>>

\* Then it looks for an active attempt.
Meet(c) ==
  /\ At(c, "ORDERED")
  /\ call' = [call EXCEPT ![c].at = "JOINING", ![c].actives = {i \in Attempts : Live(attempt[i])}]
  /\ UNCHANGED <<now, chain, journal, rows, ghosts, events>>

\* The row that markInvoicePaid, markInvoicePartial and markInvoiceExpired write.
Written(r, d) ==
  CASE d.kind = "EXPIRED" -> [r EXCEPT !.status = "EXPIRED"]
    [] d.kind = "PAID" ->
         [r EXCEPT !.status = "PAID", !.paid = d.paid, !.atomic = d.paid, !.credited = Amount]
    [] d.kind = "PARTIAL" ->
         [r EXCEPT !.status = "PARTIAL", !.paid = d.paid, !.atomic = d.paid,
                   !.credited = FiatCredit(d.paid), !.start = d.start, !.until = d.until]

\* A payment that has lost to the attempt's end is kept for recovery.
Recovered(r, d) ==
  [r EXCEPT !.status = "FAILED", !.paid = d.paid, !.atomic = d.paid,
            !.credited = IF d.kind = "PAID" THEN Amount ELSE FiatCredit(d.paid),
            !.start = IF @ = NoTime /\ d.kind = "PARTIAL" THEN d.start ELSE @,
            !.until = IF @ = NoTime /\ d.kind = "PARTIAL" THEN d.until ELSE @]

\* When they write it, the attempts being as in a, and what they make of these and of
\* the order o.
FenceHolds(k, a) ==
  k.decision.kind # "NONE" /\ a[k.attempt].status \in ActiveStatuses /\ k.fresh
Recovers(k, a) ==
  /\ Prefers(k)
  /\ a[k.attempt].status \in {"EXPIRED", "CANCELLED", "FAILED"}
  /\ Sum(k.decision.paid) > Sum(a[k.attempt].atomic)
Marks(k, a) == FenceHolds(k, a) \/ Recovers(k, a)

Marked(k, a) ==
  IF FenceHolds(k, a) THEN [a EXCEPT ![k.attempt] = Written(@, k.decision)]
  ELSE IF Recovers(k, a) THEN [a EXCEPT ![k.attempt] = Recovered(@, k.decision)]
  ELSE a
MarkedOrder(k, o, a) ==
  IF FenceHolds(k, a) THEN Synced(o, Marked(k, a), k.decision.kind, FALSE)
  ELSE Synced(o, Marked(k, a), "FAILED", TRUE)

\* The attempts are written, of an attached one its end or its payment; then the order
\* and the credits of its attempts are read, for the order to be written.
TakeMarked(c) ==
  LET k == call[c]
  IN  /\ At(c, "BEGUN") /\ k.row.attached
      /\ IF Marks(k, attempt)
         THEN call' = [call EXCEPT ![c].at = "TAKEN", ![c].alone = TRUE,
                                   ![c].to = MarkedOrder(k, order, attempt)]
         ELSE EndCall(c)
      /\ UNCHANGED <<now, chain, journal, rows, ghosts, events>>

\* The index refuses a second active attempt.
TakeJoined(c) ==
  LET k == call[c]
      i == k.attempt
      joined == Joined(k, attempt)
  IN  /\ At(c, "JOINING")
      /\ ~attempt[i].attached \/ Preferred(k)
      /\ IF /\ ~attempt[i].attached /\ AttachedAs(k) \in ActiveStatuses
            /\ Rivals(attempt, i) # {}
         THEN EndCall(c)
         ELSE call' = [call EXCEPT ![c].at = "TAKEN", ![c].fresh = TRUE,
                                   ![c].to = Ensured(k, order, joined)]
      /\ UNCHANGED <<now, chain, journal, rows, ghosts, events>>

\* Another transaction has attached the attempt, which then is as any attached one.
TakeNothing(c) ==
  LET k == call[c]
  IN  /\ At(c, "JOINING")
      /\ attempt[k.attempt].attached /\ ~Preferred(k)
      /\ IF k.decision.kind = "NONE" THEN GoTo(c, "FIND")
         ELSE call' = [call EXCEPT ![c] =
                [Resting EXCEPT !.at = "BEGUN", !.attempt = k.attempt, !.row = AttachedRow,
                                !.decision = k.decision]]
      /\ UNCHANGED <<now, chain, journal, rows, ghosts, events>>

\* The order is written, and the transaction commits.  When an attempt has joined, the
\* order's row is locked from here on: what is marked then finds it as it is.
Commit(c) ==
  LET k == call[c]
      joined == Joined(k, attempt)
      beaten == ~k.row.attached /\ attempt[k.attempt].attached
      resyncs == ~k.row.attached /\ Marks(k, joined)
      written == Changed(joined) \cup (IF Marks(k, joined) THEN {k.attempt} ELSE {})
      then == [Resting EXCEPT !.at = IF k.decision.kind = "NONE" THEN "FIND" ELSE "IDLE"]
  IN  /\ At(c, "TAKEN")
      /\ attempt' = Marked(k, joined)
      /\ order' = IF resyncs THEN MarkedOrder(k, k.to, joined) ELSE k.to
      /\ call' = Outdated([call EXCEPT ![c] = then], order', attempt', written)
      /\ lost' = (lost \/ beaten)
      /\ overtaken' = (~resyncs /\ (~k.alone \/ beaten \/ (overtaken /\ ~k.row.attached)))
      /\ UNCHANGED <<now, chain, journal, late, events>>
-----------------------------------------------------------------------------
(* Everybody else.                                                          *)

\* A request fails or its instance dies; what it has not committed is gone.
Abandon(c) ==
  /\ ~At(c, "IDLE")
  /\ Event
  /\ EndCall(c)
  /\ UNCHANGED <<now, chain, journal, rows, ghosts>>

\* While a release is rolled out, instances of the one before insert attempts that
\* belong to no order, and settle them.  One that inserts an attempt is still there a
\* unit of time later, whether it settles it or not.
OldInsert(i) ==
  /\ now < Rollout /\ attempt[i].status = "ABSENT"
  /\ Event
  /\ attempt' = [attempt EXCEPT ![i] = NewRow(FALSE)]
  /\ UNCHANGED <<now, chain, journal, order, call, ghosts>>

OldSettle(i) ==
  LET r == attempt[i]
      d == Decision(r, now, InWindow({t \in Transfers : chain[t] # NoTime}, i, r, now))
      row == [Written(r, d) EXCEPT !.credited = 0, !.atomic = {}]
  IN  /\ now <= Rollout /\ Active(i) /\ ~r.attached
      /\ d.kind # "NONE" /\ row # r
      /\ attempt' = [attempt EXCEPT ![i] = row]
      /\ call' = Outdated(call, order, attempt', {i})
      /\ UNCHANGED <<now, chain, journal, order, ghosts, events>>

Pay(t) ==
  /\ chain[t] = NoTime /\ attempt[TransferOf[t].to].status # "ABSENT"
  /\ chain' = [chain EXCEPT ![t] = now]
  /\ UNCHANGED <<now, journal, rows, call, ghosts, events>>

Tick ==
  /\ now < MaxTime
  /\ now' = now + 1
  /\ UNCHANGED <<chain, journal, rows, call, ghosts, events>>
-----------------------------------------------------------------------------
Init ==
  /\ now = 0
  /\ chain = [t \in Transfers |-> NoTime]
  /\ journal = {}
  /\ order = [status |-> "ABSENT", credited |-> 0]
  /\ attempt = [i \in Attempts |-> Absent]
  /\ call = [c \in Callers |-> Resting]
  /\ late = FALSE /\ lost = FALSE /\ overtaken = FALSE
  /\ events = 0

Proceed(c) ==
  \/ Find(c) \/ (\E i \in Attempts : Insert(c, i)) \/ InsertFails(c)
  \/ Settle(c) \/ Begin(c) \/ Join(c) \/ Meet(c) \/ TakeMarked(c)
  \/ TakeJoined(c) \/ TakeNothing(c) \/ Commit(c)

Next ==
  \/ \E c \in Callers : Create(c) \/ Proceed(c) \/ Abandon(c) \/ \E i \in Attempts : Check(c, i)
  \/ \E i \in Attempts : OldInsert(i) \/ OldSettle(i)
  \/ \E t \in Transfers : Pay(t)
  \/ Tick

Spec == Init /\ [][Next]_vars
-----------------------------------------------------------------------------
\* An order has one active attempt at most, although attempts join it late.
OneAttemptIsActive ==
  \A i, k \in Attempts :
    i # k /\ attempt[i].attached /\ attempt[k].attached => ~(Active(i) /\ Active(k))

\* The order agrees with its attempts: its credit is theirs, it is PAID by one of
\* them alone, and whatever else has taken money leaves it to an operator.  When a
\* transaction has been overtaken it may not, until another one has recomputed it.
OrderMatchesAttempts ==
  order.status # "ABSENT" /\ ~overtaken =>
    /\ order.credited = Credit(attempt)
    /\ order.status = "PAID" => \E i \in Attempts : Funded(attempt) = {i} /\ attempt[i].status = "PAID"
    /\ \A i \in Funded(attempt) :
         attempt[i].status \notin {"PAID", "PARTIAL"} \/ Funded(attempt) # {i}
           => order.status = "RECOVERY"

\* However transactions overtake each other, an order is never PAID without an attempt
\* of its own that has been paid in full.
PaidOrderIsPaid ==
  order.status = "PAID" /\ ~lost =>
    \E i \in Attempts :
      attempt[i].attached /\ attempt[i].status = "PAID" /\ attempt[i].credited = Amount

\* What an attempt has received in time: within the price lock, and then within
\* the window that its first transfer opens.
InTime(i) ==
  LET received == {t \in Transfers : TransferOf[t].to = i /\ chain[t] >= attempt[i].createdAt}
      first == {t \in received : chain[t] <= LockUntil(attempt[i])}
  IN  IF first = {} THEN {}
      ELSE {t \in received : chain[t] <= Earliest(first) + PartialTtl}
Undisputed(i) ==
  \A t \in Transfers : TransferOf[t].to = i /\ chain[t] # NoTime => TransferOf[t].strict

\* An attempt that was paid in time never expires, unless the provider has left a
\* transfer out of an answer.
ExpiryIsDeserved ==
  ~late => \A i \in Attempts :
    attempt[i].status = "EXPIRED" /\ Undisputed(i) => Sum(InTime(i)) < Amount
=============================================================================
