------------------------------ MODULE Scanners ------------------------------
(***************************************************************************)
(* The blockchain scanners of one deposit and the settlement horizon.      *)
(* Every stream (GRAM, mainnet USDT) has a cursor row with a lease.  A     *)
(* scanner's batch reads the clock, claims the cursor, reads the           *)
(* provider's transfers page by page, journals them under its lease and    *)
(* moves the cursor.  Settlement of a transfer waits until the cursors of  *)
(* all streams have passed it by the horizon.                              *)
(***************************************************************************)
EXTENDS Naturals, Sequences, FiniteSets, FiniteSetsExt

CONSTANTS
  Streams,    \* the deposit's scan streams, a subset of {"GRAM", "USDT"}
  Workers,    \* scanner processes
  StreamOf,   \* the stream each of them scans
  NoOwner,    \* the null lease owner
  Gone,       \* the identity of a batch whose process died
  PageSize, MaxPages,
  Lease, Retry, Interval,
  Overlap,    \* how far a USDT scan goes back behind its cursor
  Ahead,      \* how far beyond its own clock a GRAM scan asks (60 seconds)
  Horizon,    \* TON_CROSS_SCANNER_SETTLEMENT_HORIZON_SECONDS
  Lag,        \* the provider shows a transfer within this time
  MaxTransfers, MaxFaults,
  QuietFrom,  \* no transfer and no fault at or after this time
  MaxTime     \* the clock stops here

\* What the deployment has to see to: the provider lags less than the horizon
\* and not more than the overlap.
ASSUME ScannerAssumption ==
  /\ Streams \subseteq {"GRAM", "USDT"}
  /\ IsFiniteSet(Workers) /\ StreamOf \in [Workers -> Streams]
  /\ NoOwner \notin Workers /\ Gone \notin Workers /\ Gone # NoOwner
  /\ {PageSize, MaxPages, Lease, Retry, Interval, Overlap, Horizon} \subseteq Nat \ {0}
  /\ {Ahead, Lag, MaxTransfers, MaxFaults, QuietFrom, MaxTime} \subseteq Nat
  /\ Lag < Horizon /\ Lag <= Overlap

VARIABLES
  now,             \* the clock of the database and of every worker
  chain,           \* the deposit's incoming transfers in logical-time order
  visible,         \* the transfers (indices of chain) the provider shows
  cursor,          \* TonhubScanCursor rows
  scanPriorityAt,  \* of the invoice: when GRAM is due; 0 is null
  journal,         \* the transfers with a TonhubPaymentMovement row
  settled,         \* the transfers creditMovement has settled
  worker,          \* the workers' local state
  faults

vars == <<now, chain, visible, cursor, scanPriorityAt, journal, settled, worker, faults>>

Transfers == DOMAIN chain

\* expires and through are 0 for null; last is the GRAM transfer whose hash
\* and time are kept, 0 for none; a USDT cursor's lastTimestamp is its through.
Cursors == [owner : Workers \cup {NoOwner, Gone}, expires : Nat, through : Nat, last : Nat]

WorkerStates ==
  [phase   : {"IDLE", "CLAIM", "RENEW", "FETCH", "RECORD", "COMPLETE", "FAILING"},
   batch   : Nat,              \* the batch's clock reading
   from    : Nat,              \* the cursor's last (GRAM) or through (USDT) as read
   page    : Nat,              \* pages read
   done    : BOOLEAN,          \* the history is complete
   found   : SUBSET Nat,       \* GRAM: the transfers selected so far
   newest  : Nat,              \* GRAM: the cursor to be
   todo    : SUBSET Nat,       \* the transfers still to be journaled
   late    : BOOLEAN]          \* held up for longer than its lease

Idle == [phase |-> "IDLE", batch |-> 0, from |-> 0, page |-> 0, done |-> FALSE,
         found |-> {}, newest |-> 0, todo |-> {}, late |-> FALSE]

Init ==
  /\ now = 1
  /\ chain = <<>> /\ visible = {}
  /\ cursor = [s \in Streams |-> [owner |-> NoOwner, expires |-> 0, through |-> 0, last |-> 0]]
  /\ scanPriorityAt = 0
  /\ journal = {} /\ settled = {}
  /\ worker = [w \in Workers |-> Idle]
  /\ faults = 0

Row(w) == cursor[StreamOf[w]]
Gram(w) == StreamOf[w] = "GRAM"
Goes(w, phase) == worker' = [worker EXCEPT ![w].phase = phase]
Fault == faults < MaxFaults /\ now < QuietFrom /\ faults' = faults + 1

World == <<now, chain, visible, settled>>

-----------------------------------------------------------------------------
\* The blockchain and the provider's index of it.
Arrive(s) ==
  /\ Cardinality(Transfers) < MaxTransfers /\ now < QuietFrom
  /\ chain' = Append(chain, [stream |-> s, at |-> now])
  /\ UNCHANGED <<now, visible, cursor, scanPriorityAt, journal, settled, worker, faults>>

\* A wallet's own transactions are indexed in their order; jetton transfers,
\* which several shards take part in, are not.
Index(i) ==
  /\ i \notin visible
  /\ chain[i].stream = "GRAM" =>
       \A j \in Transfers : j < i /\ chain[j].stream = "GRAM" => j \in visible
  /\ visible' = visible \cup {i}
  /\ UNCHANGED <<now, chain, cursor, scanPriorityAt, journal, settled, worker, faults>>

-----------------------------------------------------------------------------
\* A GRAM deposit is listed by its invoice's due time, a USDT deposit by its
\* cursor's.
Due(w) == IF Gram(w) THEN scanPriorityAt <= now ELSE Row(w).expires <= now

\* A batch reads the clock and lists the deposit when it is due.  A USDT scan
\* uses the cursor as listed, a GRAM scan reads it again after the claim.
Start(w) ==
  /\ worker[w].phase = "IDLE"
  /\ Due(w)
  /\ worker' = [worker EXCEPT ![w].phase = "CLAIM", ![w].batch = now,
                              ![w].from = IF Gram(w) THEN 0 ELSE Row(w).through]
  /\ UNCHANGED <<World, cursor, scanPriorityAt, journal, faults>>

\* Mutant of Reclaimable: only a released lease can be claimed.
ReclaimableIfReleased(w) == Row(w).owner = NoOwner /\ Row(w).expires <= now

Reclaimable(w) == (Gram(w) /\ Row(w).owner = NoOwner) \/ Row(w).expires <= now

Leased(w) == [Row(w) EXCEPT !.owner = w, !.expires = now + Lease]

Claim(w) ==
  /\ worker[w].phase = "CLAIM"
  /\ IF Reclaimable(w)
     THEN /\ cursor' = [cursor EXCEPT ![StreamOf[w]] = Leased(w)]
          /\ worker' = [worker EXCEPT ![w].phase = "RENEW",
                                      ![w].from = IF Gram(w) THEN Row(w).last
                                                                 ELSE worker[w].from]
     ELSE /\ worker' = [worker EXCEPT ![w] = Idle]
          /\ UNCHANGED cursor
  /\ UNCHANGED <<World, scanPriorityAt, journal, faults>>

\* What renewLease, recordObserved and completeScan require of the row.
Holds(w) == Row(w).owner = w /\ now < Row(w).expires

Renewed(w) == [Row(w) EXCEPT !.expires = now + Lease]

\* Before each page, and for GRAM before each movement.
RenewLease(w) ==
  /\ worker[w].phase = "RENEW"
  /\ worker[w].done \/ worker[w].page < MaxPages
  /\ Holds(w)
  /\ cursor' = [cursor EXCEPT ![StreamOf[w]] = Renewed(w)]
  /\ Goes(w, IF worker[w].done THEN "RECORD" ELSE "FETCH")
  /\ UNCHANGED <<World, scanPriorityAt, journal, faults>>

-----------------------------------------------------------------------------
Before(S, i) == Cardinality({j \in S : j < i})
After(S, i)  == Cardinality({j \in S : j > i})

OnPage(w, place) == worker[w].page * PageSize <= place /\ place < (worker[w].page + 1) * PageSize

\* The page is not full.
IsShort(w, window) == Cardinality(window) < (worker[w].page + 1) * PageSize

Shown(w) == {i \in visible : chain[i].stream = StreamOf[w]}

\* GRAM asks newest first, up to Ahead beyond the batch's clock.
GramWindow(w) == {i \in Shown(w) : chain[i].at <= worker[w].batch + Ahead}
GramPage(w)   == {i \in GramWindow(w) : OnPage(w, After(GramWindow(w), i))}

\* Mutant of BeyondCursor: the whole second of the cursor's transaction counts
\* as scanned.
BeyondCursorSameSecond(w, i) ==
  worker[w].from # 0 /\ chain[i].at <= chain[worker[w].from].at

\* A page is read as far as the cursor's transaction, or an older one.
BeyondCursor(w, i) ==
  worker[w].from # 0 /\ (i = worker[w].from \/ chain[i].at < chain[worker[w].from].at)

Selected(w, page) ==
  {i \in page : \A j \in page : j >= i => ~ BeyondCursor(w, j)}

\* The newest transaction of the window proper.
NewestIn(w, page) ==
  LET inWindow == {i \in page : chain[i].at <= worker[w].batch}
  IN  IF inWindow = {} THEN 0 ELSE Max(inWindow)

\* Mutant of AfterFetch: an empty page is journaled like any other.
AfterFetchOfAnyPage(w, done, todo) ==
  IF Gram(w) THEN (IF done /\ todo = {} THEN "COMPLETE" ELSE "RENEW") ELSE "RECORD"

AfterFetch(w, done, todo) ==
  IF todo = {} THEN (IF done THEN "COMPLETE" ELSE "RENEW")
  ELSE IF Gram(w) THEN "RENEW" ELSE "RECORD"

\* The pages are collected until the cursor or a short page is reached; only a
\* complete history is journaled, as far as it is within the window.
FetchGram(w) ==
  /\ worker[w].phase = "FETCH" /\ Gram(w)
  /\ LET row      == worker[w]
         page     == GramPage(w)
         selected == Selected(w, page)
         found    == row.found \cup selected
         done     == selected # page \/ IsShort(w, GramWindow(w))
         todo     == {i \in found : done /\ chain[i].at <= row.batch}
     IN  worker' = [worker EXCEPT ![w] =
         [row EXCEPT !.page   = row.page + 1,
                     !.newest = IF row.newest # 0 THEN row.newest ELSE NewestIn(w, page),
                     !.found  = IF done THEN {} ELSE found,
                     !.done   = done,
                     !.todo   = todo,
                     !.phase  = AfterFetch(w, done, todo)]]
  /\ UNCHANGED <<World, cursor, scanPriorityAt, journal, faults>>

\* Mutant of UsdtWindow: a scan starts at the cursor.
UsdtWindowNoOverlap(w) ==
  {i \in Shown(w) : worker[w].from <= chain[i].at /\ chain[i].at <= worker[w].batch}

\* USDT asks oldest first, from Overlap behind the cursor to the batch's clock.
UsdtWindow(w) ==
  {i \in Shown(w) : /\ worker[w].from <= chain[i].at + Overlap
                    /\ chain[i].at <= worker[w].batch}

UsdtPage(w) == {i \in UsdtWindow(w) : OnPage(w, Before(UsdtWindow(w), i))}

\* A page is journaled before the next is read.
FetchUsdt(w) ==
  /\ worker[w].phase = "FETCH" /\ ~ Gram(w)
  /\ LET row  == worker[w]
         page == UsdtPage(w)
         done == IsShort(w, UsdtWindow(w))
     IN  worker' = [worker EXCEPT ![w] =
         [row EXCEPT !.page  = row.page + 1,
                     !.done  = done,
                     !.todo  = page,
                     !.phase = AfterFetch(w, done, page)]]
  /\ UNCHANGED <<World, cursor, scanPriorityAt, journal, faults>>

\* recordObserved checks the lease in its own transaction.  GRAM is journaled
\* newest first, USDT oldest first.
Record(w) ==
  /\ worker[w].phase = "RECORD"
  /\ Holds(w)
  /\ LET row  == worker[w]
         todo == row.todo
         i    == IF Gram(w) THEN Max(todo) ELSE Min(todo)
     IN  /\ journal' = journal \cup {i}
         /\ worker' = [worker EXCEPT ![w] =
              [row EXCEPT !.todo  = todo \ {i},
                          !.phase = IF todo = {i} THEN IF row.done THEN "COMPLETE" ELSE "RENEW"
                                    ELSE IF Gram(w) THEN "RENEW" ELSE "RECORD"]]
  /\ UNCHANGED <<World, cursor, scanPriorityAt, faults>>

-----------------------------------------------------------------------------
\* The trigger that keeps scannedThroughAt from moving backwards.
Regresses(w) == worker[w].batch < Row(w).through

Release(row, dueAt) ==
  [row EXCEPT !.owner = NoOwner, !.expires = dueAt]

\* GRAM keeps its due time on the invoice, whose update is skipped when the
\* invoice has changed since it was listed; USDT keeps it in leaseExpiresAt.
Released(w, row, delay) ==
  LET dueAt == worker[w].batch + delay
  IN  /\ cursor' = [cursor EXCEPT ![StreamOf[w]] = Release(row, IF Gram(w) THEN 0 ELSE dueAt)]
      /\ scanPriorityAt' \in {scanPriorityAt} \cup (IF Gram(w) THEN {dueAt} ELSE {})

\* The row of a completed scan; a GRAM scan that met nothing newer keeps its
\* transfer.
Scanned(w) ==
  [Row(w) EXCEPT !.through = worker[w].batch,
                 !.last = IF worker[w].newest # 0 THEN worker[w].newest ELSE Row(w).last]

Complete(w) ==
  /\ worker[w].phase = "COMPLETE"
  /\ Holds(w) /\ ~ Regresses(w)
  /\ Released(w, Scanned(w), Interval)
  /\ worker' = [worker EXCEPT ![w] = Idle]
  /\ UNCHANGED <<World, journal, faults>>

\* The lease is gone, the trigger raises, or the last page allowed is not the
\* last one.
Refused(w) ==
  /\ \/ worker[w].phase \in {"RENEW", "RECORD", "COMPLETE"} /\ ~ Holds(w)
     \/ worker[w].phase = "COMPLETE" /\ Regresses(w)
     \/ worker[w].phase = "RENEW" /\ ~ worker[w].done /\ worker[w].page = MaxPages
  /\ Goes(w, "FAILING")
  /\ UNCHANGED <<World, cursor, scanPriorityAt, journal, faults>>

\* The provider or the database fails.
Throws(w) ==
  /\ worker[w].phase \in {"RENEW", "FETCH", "RECORD", "COMPLETE"}
  /\ Goes(w, "FAILING")
  /\ Fault
  /\ UNCHANGED <<World, cursor, scanPriorityAt, journal>>

\* failScan releases what is still this batch's, expired or not.
FailScan(w) ==
  /\ worker[w].phase = "FAILING"
  /\ IF Row(w).owner = w
     THEN Released(w, Row(w), Retry)
     ELSE UNCHANGED <<cursor, scanPriorityAt>>
  /\ worker' = [worker EXCEPT ![w] = Idle]
  /\ UNCHANGED <<World, journal, faults>>

\* The process dies; the lease of its batch stays until it expires, and the
\* batches of the next process have other identities.
Crash(w) ==
  /\ worker[w].phase # "IDLE"
  /\ worker' = [worker EXCEPT ![w] = Idle]
  /\ cursor' = IF Row(w).owner = w
               THEN [cursor EXCEPT ![StreamOf[w]].owner = Gone] ELSE cursor
  /\ Fault
  /\ UNCHANGED <<World, scanPriorityAt, journal>>

\* The process is held up, and its lease may run out.
Stall(w) ==
  /\ Row(w).owner = w /\ ~ worker[w].late
  /\ worker' = [worker EXCEPT ![w].late = TRUE]
  /\ Fault
  /\ UNCHANGED <<World, cursor, scanPriorityAt, journal>>

-----------------------------------------------------------------------------
\* Mutant of Passed: a scan up to the transfer's own time is enough.
PassedWithoutHorizon(s, i) == cursor[s].through >= chain[i].at

Passed(s, i) == cursor[s].through >= chain[i].at + Horizon

\* Mutant of HorizonReady: the cursor of the transfer's own asset is enough.
HorizonReadyOwnStream(i) ==
  LET row == cursor[chain[i].stream]
  IN  Passed(chain[i].stream, i) /\ (row.owner # NoOwner => row.expires <= now)

\* mainnetScannerHorizonReady
HorizonReady(i) ==
  \A s \in Streams : Passed(s, i) /\ (cursor[s].owner # NoOwner => cursor[s].expires <= now)

\* creditMovement gives a movement its outcome, after all earlier ones.
Settle(i) ==
  /\ i \in journal \ settled
  /\ \A j \in journal \ settled : j >= i
  /\ HorizonReady(i)
  /\ settled' = settled \cup {i}
  /\ UNCHANGED <<now, chain, visible, cursor, scanPriorityAt, journal, worker, faults>>

\* The provider lags at most Lag; who is not held up renews in time.
Tick ==
  /\ now < MaxTime
  /\ \A i \in Transfers \ visible : now < chain[i].at + Lag
  /\ \A w \in Workers : Row(w).owner = w /\ ~ worker[w].late => now + 1 < Row(w).expires
  /\ now' = now + 1
  /\ UNCHANGED <<chain, visible, cursor, scanPriorityAt, journal, settled, worker, faults>>

Scan(w) ==
  \/ Start(w) \/ Claim(w) \/ RenewLease(w) \/ FetchGram(w) \/ FetchUsdt(w)
  \/ Record(w) \/ Complete(w) \/ Refused(w) \/ FailScan(w)

Disturb(w) == Throws(w) \/ Crash(w) \/ Stall(w)

Next ==
  \/ \E s \in Streams : Arrive(s)
  \/ \E i \in Transfers : Index(i) \/ Settle(i)
  \/ \E w \in Workers : Scan(w) \/ Disturb(w)
  \/ Tick

Spec == Init /\ [][Next]_vars

\* The scanners run in --watch mode, the provider catches up, time passes.
FairSpec ==
  /\ Spec
  /\ WF_vars(Tick)
  /\ WF_vars(\E i \in Transfers : Index(i))
  /\ \A w \in Workers : WF_vars(Scan(w))
-----------------------------------------------------------------------------
TypeOK ==
  /\ {now, faults, scanPriorityAt} \subseteq Nat
  /\ chain \in Seq([stream : Streams, at : Nat])
  /\ visible \subseteq Transfers
  /\ settled \subseteq journal /\ journal \subseteq visible
  /\ cursor \in [Streams -> Cursors]
  /\ worker \in [Workers -> WorkerStates]
  /\ \A w \in Workers : worker[w].phase = "RECORD" => worker[w].todo # {}

\* What no later scan looks at: behind the transaction a GRAM scan stops at,
\* before the window of a USDT scan.
Behind(s) ==
  {i \in Transfers :
     /\ chain[i].stream = s
     /\ IF s = "GRAM"
        THEN cursor[s].last # 0 /\ i <= cursor[s].last
        ELSE chain[i].at + Overlap < cursor[s].through}

\* No transfer is left behind unjournaled, whichever scan moves the cursor after
\* whatever pages, faults and overtaken leases.
NothingSkipped == \A s \in Streams : Behind(s) \subseteq journal

\* Once a transfer may be settled, every transfer that happened no later is
\* journaled, in either asset ("Mainnet fiat settlement waits until both deposit
\* scanners have completed a successful pass", README.md:65).
HorizonSound ==
  \A i \in journal : HorizonReady(i) =>
    \A j \in Transfers : chain[j].at <= chain[i].at => j \in journal

\* Hence settlement follows the blockchain: nothing is settled before a transfer
\* that precedes it, however late that one is discovered.
SettledInOrder ==
  \A i \in settled : \A j \in Transfers : j < i => j \in settled

\* A batch that read the clock before another one, and finishes after it, does
\* not withdraw what settlement relies on.
PassedIsForGood ==
  [][\A s \in Streams : \A i \in Transfers : Passed(s, i) => Passed(s, i)']_vars

\* Every transfer is journaled, and passed by all the cursors that settlement
\* asks, although scanners crash, stall and lose their leases.
EveryTransferPasses ==
  \A i \in 1 .. MaxTransfers :
    (i \in Transfers) ~> (i \in journal /\ \A s \in Streams : Passed(s, i))
=============================================================================
