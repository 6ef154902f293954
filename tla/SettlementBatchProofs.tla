----------------------- MODULE SettlementBatchProofs -----------------------
(***************************************************************************)
(* Theorems about the settlement workers and the rates they value payments *)
(* with, for any number of deposits, movements, workers and faults, any    *)
(* age of the observations and any length of the batches.                  *)
(*                                                                         *)
(* A payment that keeps an earlier payment's rate leads back to one that   *)
(* was valued with a rate of its own time.  It leads back in the order of  *)
(* the chain because a deposit's payments are decided in that order        *)
(* (DecidedInOrder), which in turn needs that they are also found in it.   *)
(***************************************************************************)
EXTENDS SettlementBatch, SumTheorems

Times == Nat \cup {Never}

Snapshot == [asset : {"GRAM", "USDT"}, quote : Currencies, at : Nat, of : SUBSET Nat]
Cached   == [at : Times, until : Int]
Asked    == [place : {"IDLE", "ASKING", "STORED"}, at : Int, got : [Currencies -> Times]]

RatesTyped ==
  /\ now \in Nat /\ now <= MaxTime
  /\ snapshots \subseteq Snapshot
  /\ cache \in [Currencies -> Cached]
  /\ refresh \in Asked

\* Two observations that a cross rate is derived from are of one time.
OfOneTime(observed) == \A t, u \in observed : t - u <= MaxAge

SnapshotsOfOneTime == \A s \in snapshots : OfOneTime(s.of)

\* What the refresh under way has in hand is not from the future, and is of one
\* time once the old answers have been dropped.
AnswersAreKnown ==
  /\ \A c \in Currencies : cache[c].at <= now /\ refresh.got[c] <= now
  /\ refresh.place = "STORED" =>
       \A c, d \in Currencies :
         refresh.got[c] # Never /\ refresh.got[d] # Never =>
           refresh.got[c] - refresh.got[d] <= MaxAge

RatesSound == RatesTyped /\ SnapshotsOfOneTime /\ AnswersAreKnown

Waiting == {"UNSEEN", "OBSERVED", "RATE_PENDING"}
Settled == {"HELD_UNDER_MINIMUM", "CREDITED"}

Movement == [status : Waiting \cup Settled, at : Nat, rate : Times, age : Nat]

MovementsTyped == movements \in [Movements -> Movement]

\* What a worker has left to settle is among the movements.
HasTodo(worker) == "todo" \in DOMAIN worker /\ worker.todo \subseteq Movements

TodoTyped == DOMAIN workers = Workers /\ \A w \in Workers : HasTodo(workers[w])

\* The reports of a deposit's transfers arrive in the order of the chain.
SeenInOrder ==
  \A m, k \in Movements :
    k < m /\ DepositOf[k] = DepositOf[m] /\ Status(m) # "UNSEEN" => Status(k) # "UNSEEN"

\* And so they are held or credited.
DecidedInOrder ==
  \A m, k \in Movements :
    k < m /\ DepositOf[k] = DepositOf[m] /\ Status(m) \in Settled => Status(k) \in Settled

\* The payment k that the rate of m was first taken for.
Root(k, m) ==
  /\ DepositOf[k] = DepositOf[m]
  /\ k = m \/ (k < m /\ AssetOf[k] = "GRAM" /\ AssetOf[m] = "GRAM")
  /\ movements[k].rate = movements[m].rate
  /\ movements[k].at - movements[k].rate \in 0..MaxAge

Valued ==
  \A m \in Movements :
    IF Status(m) \in Settled
      THEN movements[m].rate \in Nat /\ \E k \in Movements : Root(k, m)
      ELSE movements[m].rate = Never

MovementsSound == MovementsTyped /\ SeenInOrder /\ DecidedInOrder /\ Valued

Sound == RatesSound /\ TodoTyped /\ MovementsSound
-----------------------------------------------------------------------------
(* What the operators of the models yield.                                  *)

LEMMA MinIsMember ==
  ASSUME NEW S \in SUBSET Nat, S # {}
  PROVE  /\ Min(S) \in S
         /\ \A x \in S : Min(S) <= x
<1>1. \E n \in S : \A m \in S : n <= m
  BY LeastNumber
<1> QED
  BY <1>1 DEF Min

\* findAt answers with one of the snapshots that are known.
LEMMA NewestIsKnown ==
  ASSUME RatesTyped, NEW asset, NEW quote, NEW at \in Nat, Known(asset, quote, at) # {}
  PROVE  Newest(asset, quote, at) \in Known(asset, quote, at)
<1> DEFINE known == Known(asset, quote, at)
           Ages  == {at - s.at : s \in known}
<1>1. \A s \in known : s.at \in Nat /\ at - s.at \in Nat
  BY DEF RatesTyped, Known, Snapshot
<1>2. Ages \in SUBSET Nat /\ Ages # {}
  BY <1>1
<1>3. PICK n \in Ages : \A m \in Ages : n <= m
  BY <1>2, LeastNumber
<1>4. PICK s \in known : n = at - s.at
  BY <1>3
<1>5. ASSUME NEW other \in known PROVE other.at <= s.at
  <2>1. at - s.at <= at - other.at
    BY <1>3, <1>4
  <2>2. other.at \in Nat /\ s.at \in Nat
    BY <1>1
  <2> QED
    BY <2>1, <2>2
<1> HIDE DEF known
<1> QED
  BY <1>5 DEF Newest, known

\* A rate that is taken at a time is at most MaxAge older.
LEMMA RateOfItsTime ==
  ASSUME RatesTyped, NEW asset, NEW quote, NEW at \in Nat, HasRate(asset, quote, at)
  PROVE  /\ Newest(asset, quote, at).at \in Nat
         /\ at - Newest(asset, quote, at).at \in 0..MaxAge
<1>1. Newest(asset, quote, at) \in Known(asset, quote, at)
  BY NewestIsKnown DEF HasRate
<1>2. Newest(asset, quote, at).at \in Nat /\ Newest(asset, quote, at).at <= at
  BY <1>1 DEF Known, RatesTyped, Snapshot
<1> QED
  BY <1>2, RatesAssumption DEF HasRate

\* The cross rate is as new as one of the two observations.
LEMMA MaxOfTwo ==
  ASSUME NEW x \in Nat, NEW y \in Nat
  PROVE  Max({x, y}) \in {x, y}
BY DEF Max
-----------------------------------------------------------------------------
(* The rates.                                                               *)

LEMMA RatesInitSound ==
  ASSUME RatesInit
  PROVE  RatesSound
<1>1. RatesTyped
  <2>1. NotCached \in Cached /\ RefreshEnded(-Interval) \in Asked
    BY RatesAssumption DEF NotCached, Cached, Asked, RefreshEnded, Times, Never
  <2> QED
    BY <2>1, RatesAssumption DEF RatesInit, RatesTyped
<1>2. SnapshotsOfOneTime
  BY DEF RatesInit, SnapshotsOfOneTime
<1>3. AnswersAreKnown
  BY DEF RatesInit, AnswersAreKnown, NotCached, RefreshEnded, Never, Currencies
<1> QED
  BY <1>1, <1>2, <1>3 DEF RatesSound

LEMMA RefreshSound ==
  ASSUME RatesSound, Refresh
  PROVE  RatesSound'
<1>1. RatesTyped'
  BY DEF RatesSound, RatesTyped, Refresh, Asked, Cached, Times
<1>2. SnapshotsOfOneTime'
  BY DEF RatesSound, SnapshotsOfOneTime, Refresh
<1>3. AnswersAreKnown'
  BY DEF RatesSound, RatesTyped, AnswersAreKnown, Refresh, Never, Cached, Times
<1> QED
  BY <1>1, <1>2, <1>3 DEF RatesSound

LEMMA FetchedSound ==
  ASSUME RatesSound, NEW c \in Currencies, Fetched(c)
  PROVE  RatesSound'
<1>1. PICK lag \in Lags :
        /\ lag <= now
        /\ refresh' = [refresh EXCEPT !.got[c] = now - lag]
        /\ cache' = [cache EXCEPT ![c] =
                       [at |-> now - lag, until |-> refresh.at + CacheTime]]
  BY DEF Fetched
<1>2. now - lag \in Nat /\ now - lag <= now /\ lag \in Nat
  BY <1>1, RatesAssumption DEF RatesSound, RatesTyped
<1>3. /\ now' = now /\ snapshots' = snapshots /\ refresh.place = "ASKING"
      /\ refresh \in Asked /\ cache \in [Currencies -> Cached]
  BY DEF Fetched, RatesSound, RatesTyped
<1>4. refresh.at + CacheTime \in Int
  BY <1>3, RatesAssumption DEF Asked
<1> DEFINE entry == [at |-> now - lag, until |-> refresh.at + CacheTime]
<1>5. entry \in Cached
  BY <1>2, <1>4 DEF Cached, Times
<1>6. cache' = [cache EXCEPT ![c] = entry]
  BY <1>1
<1>7. entry.at = now - lag
  OBVIOUS
<1> HIDE DEF entry
<1>8. cache' \in [Currencies -> Cached]
  BY <1>3, <1>5, <1>6
<1>9. refresh' \in Asked /\ refresh'.place = "ASKING"
  BY <1>1, <1>2, <1>3 DEF Asked, Times
<1>10. \A d \in Currencies : refresh'.got[d] = IF d = c THEN now - lag ELSE refresh.got[d]
  BY <1>1, <1>3 DEF Asked
<1>11. \A d \in Currencies : cache'[d].at = IF d = c THEN now - lag ELSE cache[d].at
  BY <1>3, <1>6, <1>7
<1>12. RatesTyped'
  BY <1>3, <1>8, <1>9 DEF RatesSound, RatesTyped
<1>13. SnapshotsOfOneTime'
  BY <1>3 DEF RatesSound, SnapshotsOfOneTime
<1>14. AnswersAreKnown'
  BY <1>2, <1>3, <1>9, <1>10, <1>11 DEF RatesSound, AnswersAreKnown
<1> QED
  BY <1>12, <1>13, <1>14 DEF RatesSound

LEMMA RecordGramSound ==
  ASSUME RatesSound, RecordGram
  PROVE  RatesSound'
<1> DEFINE kept == {c \in Currencies : Recent(refresh.got[c])}
           got  == [c \in Currencies |-> IF c \in kept THEN refresh.got[c] ELSE Never]
<1>1. /\ refresh \in Asked /\ now \in Nat
      /\ now' = now /\ cache' = cache
      /\ cache \in [Currencies -> Cached]
  BY DEF RecordGram, RatesSound, RatesTyped
<1>2. \A c \in Currencies : refresh.got[c] \in Times /\ refresh.got[c] <= now
  BY <1>1 DEF RatesSound, AnswersAreKnown, Asked
<1>3. \A c \in kept :
        /\ refresh.got[c] \in Nat
        /\ now - refresh.got[c] <= MaxAge
        /\ Gram(c, refresh.got[c]) \in Snapshot
        /\ Gram(c, refresh.got[c]).of = {}
  BY <1>2 DEF Recent, Times, Snapshot, Gram
<1>4. snapshots' = snapshots \cup {Gram(c, refresh.got[c]) : c \in kept}
  BY DEF RecordGram
<1>5. refresh' = [refresh EXCEPT !.place = "STORED", !.got = got]
  BY DEF RecordGram
<1>6. got \in [Currencies -> Times]
  BY <1>2 DEF Times
<1>7. \A c \in Currencies :
        got[c] <= now /\ (got[c] # Never => c \in kept /\ got[c] = refresh.got[c])
  BY <1>1, <1>2 DEF Never
<1> HIDE DEF kept, got
<1>8. refresh' \in Asked /\ refresh'.got = got
  BY <1>1, <1>5, <1>6 DEF Asked
<1>9. RatesTyped'
  BY <1>1, <1>3, <1>4, <1>8 DEF RatesSound, RatesTyped
<1>10. SnapshotsOfOneTime'
  BY <1>3, <1>4 DEF RatesSound, SnapshotsOfOneTime, OfOneTime
<1>11. \A c, d \in Currencies : got[c] # Never /\ got[d] # Never => got[c] - got[d] <= MaxAge
  <2> SUFFICES ASSUME NEW c \in Currencies, NEW d \in Currencies, got[c] # Never, got[d] # Never
               PROVE  got[c] - got[d] <= MaxAge
    OBVIOUS
  <2>1. got[c] \in Nat /\ got[d] \in Nat /\ got[c] <= now /\ now - got[d] <= MaxAge
    BY <1>3, <1>7
  <2> QED
    BY <1>1, <2>1, RatesAssumption
<1>12. AnswersAreKnown'
  BY <1>1, <1>7, <1>8, <1>11 DEF RatesSound, AnswersAreKnown
<1> QED
  BY <1>9, <1>10, <1>12 DEF RatesSound

\* A refresh that has ended has nothing in hand.
LEMMA EndedIsSound ==
  ASSUME NEW at \in Int
  PROVE  /\ RefreshEnded(at) \in Asked
         /\ RefreshEnded(at).place = "IDLE"
         /\ \A c \in Currencies : RefreshEnded(at).got[c] = Never
BY DEF RefreshEnded, Asked, Times

LEMMA RecordPegsSound ==
  ASSUME RatesSound, RecordPegs
  PROVE  RatesSound'
<1> DEFINE observed == {refresh.got[c] : c \in Currencies}
<1>1. /\ refresh \in Asked /\ now \in Nat /\ refresh.place = "STORED"
      /\ now' = now /\ cache' = cache /\ refresh' = RefreshEnded(now)
  BY DEF RecordPegs, RatesSound, RatesTyped
<1>2. \/ snapshots' = snapshots
      \/ Never \notin observed /\ snapshots' = snapshots \cup Cross(observed)
  BY DEF RecordPegs
<1>3. ASSUME Never \notin observed
      PROVE  \A s \in Cross(observed) : s \in Snapshot /\ OfOneTime(s.of)
  <2>1. \A c \in Currencies : refresh.got[c] \in Nat
    BY <1>1, <1>3 DEF Asked, Times
  <2>2. observed = {refresh.got["USD"], refresh.got["EUR"]}
    BY DEF Currencies
  <2>3. observed \subseteq Nat /\ Max(observed) \in observed
    BY <2>1, <2>2, MaxOfTwo DEF Currencies
  <2>4. OfOneTime(observed)
    BY <1>1, <1>3, <2>1 DEF RatesSound, AnswersAreKnown, OfOneTime
  <2> DEFINE new == [asset |-> "USDT", quote |-> "EUR", at |-> Max(observed), of |-> observed]
  <2>5. \A s \in Cross(observed) : s \in snapshots \/ s = new
    BY DEF Cross
  <2> HIDE DEF observed
  <2>6. new \in Snapshot /\ new.of = observed
    BY <2>3 DEF Snapshot, Currencies
  <2> QED
    BY <2>4, <2>5, <2>6 DEF RatesSound, RatesTyped, SnapshotsOfOneTime
<1> HIDE DEF observed
<1>4. \A s \in snapshots' : s \in Snapshot /\ OfOneTime(s.of)
  BY <1>2, <1>3 DEF RatesSound, RatesTyped, SnapshotsOfOneTime
<1>5. RatesTyped'
  BY <1>1, <1>4, EndedIsSound DEF RatesSound, RatesTyped
<1>6. SnapshotsOfOneTime'
  BY <1>4 DEF SnapshotsOfOneTime
<1>7. AnswersAreKnown'
  BY <1>1, EndedIsSound DEF RatesSound, AnswersAreKnown, Never
<1> QED
  BY <1>5, <1>6, <1>7 DEF RatesSound

LEMMA RefreshFailsSound ==
  ASSUME RatesSound, RefreshFails
  PROVE  RatesSound'
<1>1. NotCached \in Cached /\ NotCached.at = Never
  BY DEF NotCached, Cached, Times, Never
<1>2. /\ now' = now /\ snapshots' = snapshots
      /\ refresh' = RefreshEnded(-Interval)
      /\ cache' = [c \in Currencies |-> NotCached]
      /\ -Interval \in Int
  BY RatesAssumption DEF RefreshFails
<1>3. RatesTyped'
  BY <1>1, <1>2, EndedIsSound DEF RatesSound, RatesTyped
<1>4. SnapshotsOfOneTime'
  BY <1>2 DEF RatesSound, SnapshotsOfOneTime
<1>5. AnswersAreKnown'
  BY <1>1, <1>2, EndedIsSound DEF RatesSound, RatesTyped, AnswersAreKnown, Never
<1> QED
  BY <1>3, <1>4, <1>5 DEF RatesSound

LEMMA ClockSound ==
  ASSUME RatesSound, Tick
  PROVE  RatesSound'
<1>1. /\ now \in Nat /\ now' \in Nat /\ now <= now' /\ now' <= MaxTime
      /\ snapshots' = snapshots /\ cache' = cache /\ refresh' = refresh
  BY RatesAssumption DEF Tick, Smaller, RatesSound, RatesTyped, rates
<1>2. \A c \in Currencies : cache[c].at \in Int /\ refresh.got[c] \in Int
  BY DEF RatesSound, RatesTyped, Cached, Asked, Times, Never
<1>3. RatesTyped' /\ SnapshotsOfOneTime'
  BY <1>1 DEF RatesSound, RatesTyped, SnapshotsOfOneTime
<1>4. AnswersAreKnown'
  BY <1>1, <1>2 DEF RatesSound, AnswersAreKnown
<1> QED
  BY <1>3, <1>4 DEF RatesSound
-----------------------------------------------------------------------------
(* The movements.                                                           *)

LEMMA MovementIsTyped ==
  ASSUME MovementsTyped, NEW m \in Movements
  PROVE  /\ movements[m] \in Movement
         /\ Status(m) \in Waiting \cup Settled
         /\ movements[m].at \in Nat
         /\ movements[m].rate \in Times
BY DEF MovementsTyped, Movement, Status

\* What a step does that neither settles a movement nor changes a settled one.
LEMMA SettledUntouched ==
  ASSUME MovementsSound, MovementsTyped', SeenInOrder',
         \A m \in Movements :
           /\ Status(m)' \in Settled <=> Status(m) \in Settled
           /\ movements'[m].rate = movements[m].rate
           /\ Status(m) \in Settled => movements'[m].at = movements[m].at
  PROVE  MovementsSound'
<1>1. DecidedInOrder'
  BY DEF MovementsSound, DecidedInOrder
<1>2. Valued'
  <2>1. ASSUME NEW m \in Movements, NEW k \in Movements, Root(k, m), Status(m) \in Settled
        PROVE  Root(k, m)'
    <3>1. movements[k].rate \in Nat
      BY <2>1 DEF MovementsSound, Valued, Root
    <3>2. Status(k) \in Settled
      BY <3>1 DEF MovementsSound, Valued, Never
    <3> QED
      BY <2>1, <3>2 DEF Root
  <2> QED
    BY <2>1 DEF MovementsSound, Valued
<1> QED
  BY <1>1, <1>2 DEF MovementsSound

\* The ledger values a payment it can value at a rate of its time, or at that of a
\* payment before it, which was.
LEMMA RateHasRoot ==
  ASSUME RatesTyped, MovementsSound,
         NEW m \in Unresolved, Earlier(m) = {}, Rated(m)
  PROVE  /\ Rate(m) \in Nat
         /\ \/ movements[m].at - Rate(m) \in 0..MaxAge
            \/ \E k \in Movements :
                 /\ DepositOf[k] = DepositOf[m]
                 /\ k < m /\ AssetOf[k] = "GRAM" /\ AssetOf[m] = "GRAM"
                 /\ Status(k) \in Settled
                 /\ movements[k].rate = Rate(m)
                 /\ movements[k].at - Rate(m) \in 0..MaxAge
<1>1. /\ m \in Movements /\ movements[m].at \in Nat
      /\ Movements \subseteq Nat
      /\ Status(m) \in {"OBSERVED", "RATE_PENDING"}
  BY MovementIsTyped, BatchAssumption DEF Unresolved, MovementsSound
<1>2. CASE Kept(m) = {}
  <2>1. HasRate(AssetOf[m], "EUR", movements[m].at)
    BY <1>2 DEF Kept, Rated
  <2>2. Rate(m) = Newest(AssetOf[m], "EUR", movements[m].at).at
    BY <1>2 DEF Rate
  <2> QED
    BY <1>1, <2>1, <2>2, RateOfItsTime
<1>3. CASE Kept(m) # {}
  <2>1. \A r \in Kept(m) :
          \E k \in Movements :
            /\ r = movements[k].rate /\ DepositOf[k] = DepositOf[m]
            /\ AssetOf[m] = "GRAM" /\ AssetOf[k] = "GRAM"
            /\ Status(k) \in Settled
    BY DEF Kept, Locked, GramRates, Credited, HeldOf, MovementsOf, Settled
  <2>2. Kept(m) \in SUBSET Nat
    BY <2>1 DEF MovementsSound, Valued
  <2>3. Rate(m) \in Kept(m)
    BY <1>3, <2>2, MinIsMember DEF Rate
  <2>4. PICK k \in Movements :
            /\ Rate(m) = movements[k].rate /\ DepositOf[k] = DepositOf[m]
            /\ AssetOf[m] = "GRAM" /\ AssetOf[k] = "GRAM"
            /\ Status(k) \in Settled
    BY <2>1, <2>3
  <2>5. k < m
    <3>1. k # m
      BY <1>1, <2>4 DEF Settled
    <3>2. ~(m < k)
      BY <1>1, <2>4 DEF MovementsSound, DecidedInOrder, Settled
    <3> QED
      BY <1>1, <3>1, <3>2
  <2>6. PICK j \in Movements : Root(j, k)
    BY <2>4 DEF MovementsSound, Valued
  <2>7. /\ movements[j].rate = Rate(m) /\ Rate(m) \in Nat
        /\ DepositOf[j] = DepositOf[m]
        /\ movements[j].at - Rate(m) \in 0..MaxAge
    BY <2>2, <2>3, <2>4, <2>6 DEF Root
  <2>8. Status(j) \in Settled
    BY <2>7 DEF MovementsSound, Valued, Never
  <2>9. j < m /\ AssetOf[j] = "GRAM"
    BY <1>1, <2>4, <2>5, <2>6 DEF Root
  <2> QED
    BY <2>4, <2>7, <2>8, <2>9
<1> QED
  BY <1>2, <1>3

\* Settling a movement, with those that were held or alone, keeps the order of the
\* chain: nothing before it waits.
LEMMA SettledInOrder ==
  ASSUME RatesTyped, MovementsSound, MovementsTyped',
         NEW m \in Unresolved, Earlier(m) = {}, Rated(m),
         movements'[m].rate = Rate(m), Status(m)' \in Settled,
         \A k \in Movements :
           /\ movements'[k].at = movements[k].at
           /\ k # m => /\ Status(k)' \in Settled <=> Status(k) \in Settled
                       /\ Status(k)' = "UNSEEN" <=> Status(k) = "UNSEEN"
                       /\ movements'[k].rate = movements[k].rate
  PROVE  MovementsSound'
<1>1. m \in Movements /\ Movements \subseteq Nat /\ Status(m) \in {"OBSERVED", "RATE_PENDING"}
  BY BatchAssumption DEF Unresolved
<1>2. SeenInOrder'
  BY <1>1 DEF MovementsSound, SeenInOrder, Settled
<1>3. \A k \in Movements : k < m /\ DepositOf[k] = DepositOf[m] => Status(k) \in Settled
  <2> SUFFICES ASSUME NEW k \in Movements, k < m, DepositOf[k] = DepositOf[m]
               PROVE  Status(k) \in Settled
    OBVIOUS
  <2>1. Status(k) # "UNSEEN"
    BY <1>1 DEF MovementsSound, SeenInOrder
  <2>2. k \notin Unresolved
    BY DEF Earlier, MovementsOf
  <2> QED
    BY <2>1, <2>2, MovementIsTyped DEF MovementsSound, Unresolved, Waiting
<1>4. DecidedInOrder'
  BY <1>1, <1>3 DEF MovementsSound, DecidedInOrder
<1>5. Valued'
  <2>1. ASSUME NEW k \in Movements, k # m
        PROVE  IF Status(k)' \in Settled
                 THEN movements'[k].rate \in Nat /\ \E j \in Movements : Root(j, k)'
                 ELSE movements'[k].rate = Never
    <3>1. CASE Status(k) \in Settled
      <4>1. PICK j \in Movements : Root(j, k)
        BY <3>1 DEF MovementsSound, Valued
      <4>2. Status(j) \in Settled
        BY <3>1, <4>1 DEF MovementsSound, Valued, Root, Never
      <4>3. j # m
        BY <1>1, <4>2 DEF Settled
      <4>4. Root(j, k)'
        BY <2>1, <4>1, <4>3 DEF Root
      <4> QED
        BY <2>1, <3>1, <4>4 DEF MovementsSound, Valued
    <3>2. CASE Status(k) \notin Settled
      BY <2>1, <3>2 DEF MovementsSound, Valued
    <3> QED
      BY <3>1, <3>2
  <2>2. movements'[m].rate \in Nat
    BY RateHasRoot
  <2>3. \E j \in Movements : Root(j, m)'
    <3>1. CASE movements[m].at - Rate(m) \in 0..MaxAge
      <4>1. Root(m, m)'
        BY <1>1, <3>1 DEF Root
      <4> QED
        BY <1>1, <4>1
    <3>2. CASE ~(movements[m].at - Rate(m) \in 0..MaxAge)
      <4>1. PICK k \in Movements :
                 /\ DepositOf[k] = DepositOf[m]
                 /\ k < m /\ AssetOf[k] = "GRAM" /\ AssetOf[m] = "GRAM"
                 /\ Status(k) \in Settled
                 /\ movements[k].rate = Rate(m)
                 /\ movements[k].at - Rate(m) \in 0..MaxAge
        BY <3>2, RateHasRoot
      <4>2. k # m
        BY <1>1, <4>1
      <4>3. Root(k, m)'
        BY <4>1, <4>2 DEF Root
      <4> QED
        BY <4>3
    <3> QED
      BY <3>1, <3>2
  <2> QED
    BY <2>1, <2>2, <2>3 DEF Valued
<1> QED
  BY <1>2, <1>4, <1>5 DEF MovementsSound
-----------------------------------------------------------------------------
(* The steps of the ledger.                                                 *)

LEMMA PostponeSound ==
  ASSUME MovementsSound, NEW m \in Movements, Postpone(m)
  PROVE  MovementsSound'
<1>1. CASE movements' = movements
  BY <1>1 DEF MovementsSound, MovementsTyped, SeenInOrder, DecidedInOrder, Valued, Root, Status
<1>2. CASE movements' = [movements EXCEPT ![m].status = "RATE_PENDING", ![m].age = 0]
  <2>1. Status(m) \in {"OBSERVED", "RATE_PENDING"} /\ movements \in [Movements -> Movement]
    BY DEF Postpone, Waits, Unresolved, MovementsSound, MovementsTyped
  <2> DEFINE row == [movements[m] EXCEPT !.status = "RATE_PENDING", !.age = 0]
  <2>2. PICK x \in Movement : x = movements[m]
    BY <2>1
  <2>3. row \in Movement /\ row.status = "RATE_PENDING" /\ row.at = x.at /\ row.rate = x.rate
    BY <2>2 DEF Movement, Waiting
  <2>4. movements' = [movements EXCEPT ![m] = row]
    BY <1>2
  <2> HIDE DEF row
  <2>5. \A k \in Movements :
          /\ k # m => movements'[k] = movements[k]
          /\ movements'[k].at = movements[k].at /\ movements'[k].rate = movements[k].rate
    BY <2>1, <2>2, <2>3, <2>4
  <2>6. Status(m)' = "RATE_PENDING" /\ \A k \in Movements : k # m => Status(k)' = Status(k)
    BY <2>1, <2>3, <2>4, <2>5 DEF Status
  <2>7. MovementsTyped'
    BY <2>1, <2>3, <2>4 DEF MovementsTyped
  <2>8. SeenInOrder'
    BY <2>1, <2>6 DEF MovementsSound, SeenInOrder
  <2>9. \A k \in Movements : Status(k)' \in Settled <=> Status(k) \in Settled
    BY <2>1, <2>6 DEF Settled
  <2> QED
    BY <2>5, <2>7, <2>8, <2>9, SettledUntouched
<1> QED
  BY <1>1, <1>2 DEF Postpone

LEMMA HoldSound ==
  ASSUME RatesTyped, MovementsSound, NEW m \in Unresolved, ~Waits(m), Hold(m)
  PROVE  MovementsSound'
<1>1. m \in Movements /\ Earlier(m) = {} /\ Rated(m)
  BY DEF Waits, Unresolved
<1>2. Rate(m) \in Nat /\ movements \in [Movements -> Movement]
  BY <1>1, RateHasRoot DEF MovementsSound, MovementsTyped
<1> DEFINE rate == Rate(m)
           row  == [movements[m] EXCEPT !.status = "HELD_UNDER_MINIMUM", !.rate = rate]
<1>3. movements' = [movements EXCEPT ![m] = row]
  BY DEF Hold
<1>4. PICK x \in Movement : x = movements[m]
  BY <1>1, <1>2
<1>5. rate \in Times
  BY <1>2 DEF Times
<1> HIDE DEF rate
<1>6. row \in Movement /\ row.status \in Settled /\ row.rate = rate /\ row.at = x.at
  BY <1>4, <1>5 DEF Movement, Settled
<1> HIDE DEF row
<1>7. MovementsTyped'
  BY <1>1, <1>2, <1>3, <1>6 DEF MovementsTyped
<1>8. movements'[m].rate = Rate(m) /\ Status(m)' \in Settled
  BY <1>1, <1>2, <1>3, <1>6 DEF Status, rate
<1>9. \A k \in Movements :
           /\ movements'[k].at = movements[k].at
           /\ k # m => movements'[k] = movements[k]
  BY <1>1, <1>2, <1>3, <1>4, <1>6
<1>10. \A k \in Movements : k # m => Status(k)' = Status(k)
  BY <1>9 DEF Status
<1> QED
  BY <1>1, <1>7, <1>8, <1>9, <1>10, SettledInOrder

LEMMA CreditSound ==
  ASSUME RatesTyped, MovementsSound, NEW m \in Unresolved, ~Waits(m), Credit(m)
  PROVE  MovementsSound'
<1>1. m \in Movements /\ Earlier(m) = {} /\ Rated(m)
  BY DEF Waits, Unresolved
<1>2. Rate(m) \in Nat /\ movements \in [Movements -> Movement]
  BY <1>1, RateHasRoot DEF MovementsSound, MovementsTyped
<1> DEFINE rate    == Rate(m)
           row     == [movements[m] EXCEPT !.status = "CREDITED", !.rate = rate]
           Free(k) == [movements[k] EXCEPT !.status = "CREDITED"]
<1>3. movements' = [k \in Movements |->
        IF k = m THEN row ELSE IF k \in HeldOf(DepositOf[m]) THEN Free(k) ELSE movements[k]]
  BY DEF Credit
<1>4. PICK x \in Movement : x = movements[m]
  BY <1>1, <1>2
<1>5. rate \in Times
  BY <1>2 DEF Times
<1> HIDE DEF rate
<1>6. row \in Movement /\ row.status \in Settled /\ row.rate = rate /\ row.at = x.at
  BY <1>4, <1>5 DEF Movement, Settled
<1>7. ASSUME NEW k \in Movements
      PROVE  /\ Free(k) \in Movement /\ Free(k).status \in Settled
             /\ Free(k).rate = movements[k].rate /\ Free(k).at = movements[k].at
  <2>1. PICK y \in Movement : y = movements[k]
    BY <1>2
  <2> QED
    BY <2>1 DEF Movement, Settled
<1> HIDE DEF row, Free
<1>8. MovementsTyped'
  BY <1>2, <1>3, <1>6, <1>7 DEF MovementsTyped
<1>9. movements'[m].rate = Rate(m) /\ Status(m)' \in Settled
  BY <1>1, <1>3, <1>6 DEF Status, rate
<1>10. ASSUME NEW k \in Movements, k # m
       PROVE  /\ movements'[k].at = movements[k].at
              /\ movements'[k].rate = movements[k].rate
              /\ Status(k)' \in Settled <=> Status(k) \in Settled
              /\ Status(k)' = "UNSEEN" <=> Status(k) = "UNSEEN"
  <2>1. CASE k \in HeldOf(DepositOf[m])
    <3>1. Status(k) \in Settled
      BY <2>1 DEF HeldOf, Settled
    <3>2. movements'[k] = Free(k)
      BY <1>3, <1>10, <2>1
    <3> QED
      BY <1>7, <3>1, <3>2 DEF Status, Settled
  <2>2. CASE k \notin HeldOf(DepositOf[m])
    BY <1>3, <1>10, <2>2 DEF Status
  <2> QED
    BY <2>1, <2>2
<1>11. movements'[m].at = movements[m].at
  BY <1>1, <1>3, <1>4, <1>6
<1> QED
  BY <1>1, <1>8, <1>9, <1>10, <1>11, SettledInOrder

LEMMA DecideSound ==
  ASSUME RatesTyped, MovementsSound, NEW m \in Movements, Decide(m)
  PROVE  MovementsSound'
<1>1. CASE m \in Unresolved
  BY <1>1, HoldSound, CreditSound DEF Decide
<1>2. CASE m \notin Unresolved
  <2>1. movements' = movements
    BY <1>2 DEF Decide
  <2> QED
    BY <2>1 DEF MovementsSound, MovementsTyped, SeenInOrder, DecidedInOrder, Valued, Root, Status
<1> QED
  BY <1>1, <1>2

LEMMA ArriveSound ==
  ASSUME RatesTyped, MovementsSound, NEW m \in Movements, Arrive(m)
  PROVE  MovementsSound'
<1>1. /\ Status(m) = "UNSEEN" /\ now \in Nat
      /\ \A k \in Movements : k < m => Status(k) # "UNSEEN"
      /\ movements \in [Movements -> Movement] /\ Movements \subseteq Nat
  BY BatchAssumption DEF Arrive, RatesTyped, MovementsSound, MovementsTyped
<1> DEFINE row == [movements[m] EXCEPT !.status = "OBSERVED", !.at = now]
<1>2. PICK x \in Movement : x = movements[m]
  BY <1>1
<1>3. row \in Movement /\ row.status = "OBSERVED" /\ row.rate = x.rate
  BY <1>1, <1>2 DEF Movement, Waiting
<1>4. movements' = [movements EXCEPT ![m] = row]
  BY DEF Arrive
<1> HIDE DEF row
<1>5. Status(m)' = "OBSERVED" /\ \A k \in Movements : k # m => movements'[k] = movements[k]
  BY <1>1, <1>3, <1>4 DEF Status
<1>6. \A k \in Movements : k # m => Status(k)' = Status(k)
  BY <1>5 DEF Status
<1>7. MovementsTyped'
  BY <1>1, <1>3, <1>4 DEF MovementsTyped
<1>8. SeenInOrder'
  BY <1>1, <1>5, <1>6 DEF MovementsSound, SeenInOrder
<1>9. \A k \in Movements :
        /\ Status(k)' \in Settled <=> Status(k) \in Settled
        /\ movements'[k].rate = movements[k].rate
        /\ Status(k) \in Settled => movements'[k].at = movements[k].at
  BY <1>1, <1>2, <1>3, <1>4, <1>5, <1>6 DEF Settled
<1> QED
  BY <1>7, <1>8, <1>9, SettledUntouched

LEMMA TickSound ==
  ASSUME MovementsSound, Tick
  PROVE  MovementsSound'
<1> DEFINE Old(k) == IF Status(k) = "RATE_PENDING"
                       THEN Smaller(movements[k].age + 1, Retry + MaxLag) ELSE 0
           Row(k) == [movements[k] EXCEPT !.age = Old(k)]
<1>1. movements' = [k \in Movements |-> Row(k)] /\ movements \in [Movements -> Movement]
  BY DEF Tick, MovementsSound, MovementsTyped
<1>2. ASSUME NEW k \in Movements
      PROVE  /\ Row(k) \in Movement /\ Row(k).status = movements[k].status
             /\ Row(k).rate = movements[k].rate /\ Row(k).at = movements[k].at
  <2>1. PICK y \in Movement : y = movements[k]
    BY <1>1
  <2>2. Old(k) \in Nat
    BY <2>1, BatchAssumption DEF Movement, Smaller
  <2> HIDE DEF Old
  <2> QED
    BY <2>1, <2>2 DEF Movement
<1> HIDE DEF Row
<1>3. MovementsTyped'
  BY <1>1, <1>2 DEF MovementsTyped
<1>4. \A k \in Movements : Status(k)' = Status(k)
  BY <1>1, <1>2 DEF Status
<1>5. SeenInOrder'
  BY <1>4 DEF MovementsSound, SeenInOrder
<1> QED
  BY <1>1, <1>2, <1>3, <1>4, <1>5, SettledUntouched
-----------------------------------------------------------------------------
(* The steps of the batch.                                                  *)

LEMMA TodoSet ==
  ASSUME TodoTyped, NEW w \in Workers, NEW worker, HasTodo(worker),
         workers' = [workers EXCEPT ![w] = worker]
  PROVE  TodoTyped'
BY DEF TodoTyped, HasTodo

LEMMA IdleHasTodo ==
  ASSUME NEW lag
  PROVE  HasTodo([Idle EXCEPT !.lag = lag])
BY DEF Idle, HasTodo

LEMMA DoneHasTodo ==
  ASSUME TodoTyped, NEW w \in Workers, workers' = Done(w)
  PROVE  TodoTyped'
<1> DEFINE rest   == Tail(workers[w].list)
           ended  == [Idle EXCEPT !.lag = workers[w].lag]
           onward == [workers[w] EXCEPT !.place = "NEXT", !.list = rest, !.todo = {}]
<1>1. HasTodo(ended)
  BY IdleHasTodo
<1>2. HasTodo(onward)
  BY DEF HasTodo, TodoTyped
<1>3. workers' = [workers EXCEPT ![w] = ended] \/ workers' = [workers EXCEPT ![w] = onward]
  BY DEF Done
<1> HIDE DEF ended, onward
<1> QED
  BY <1>1, <1>2, <1>3, TodoSet

LEMMA BatchTodo ==
  ASSUME TodoTyped, NEW w \in Workers, Batch(w)
  PROVE  TodoTyped'
<1>1. HasTodo(Idle) /\ \A list : HasTodo([Idle EXCEPT !.place = "NEXT", !.list = list, !.at = now])
  BY DEF Idle, HasTodo
<1>2. \/ workers' = [workers EXCEPT ![w] = Idle]
      \/ \E list : workers' = [workers EXCEPT ![w] =
                                 [Idle EXCEPT !.place = "NEXT", !.list = list, !.at = now]]
  BY DEF Batch
<1> QED
  BY <1>1, <1>2, TodoSet

LEMMA ClaimTodo ==
  ASSUME TodoTyped, NEW w \in Workers, Claim(w)
  PROVE  TodoTyped'
<1> DEFINE todo(d) == {m \in MovementsOf(d) : Eligible(m, workers[w].at, workers[w].lag)}
           claimed(d) == [workers[w] EXCEPT !.place = "SETTLING", !.todo = todo(d)]
<1>1. \A d : todo(d) \subseteq Movements
  BY DEF MovementsOf
<1>2. workers' = Done(w) \/ \E d : workers' = [workers EXCEPT ![w] = claimed(d)]
  BY DEF Claim, TodoTyped
<1> HIDE DEF todo
<1>3. \A d : HasTodo(claimed(d))
  BY <1>1 DEF HasTodo, TodoTyped
<1> HIDE DEF claimed
<1> QED
  BY <1>2, <1>3, TodoSet, DoneHasTodo

LEMMA SettleNextTodo ==
  ASSUME TodoTyped, NEW w \in Workers, SettleNext(w)
  PROVE  TodoTyped'
<1> DEFINE m       == Min(workers[w].todo)
           further == [workers[w] EXCEPT !.todo = @ \ {m}]
<1>1. workers' = Done(w) \/ workers' = [workers EXCEPT ![w] = further]
  BY DEF SettleNext, TodoTyped
<1> HIDE DEF m
<1>2. HasTodo(further)
  BY DEF HasTodo, TodoTyped
<1> HIDE DEF further
<1> QED
  BY <1>1, <1>2, TodoSet, DoneHasTodo

\* What a worker settles next is one of the movements.
LEMMA NextIsMovement ==
  ASSUME TodoTyped, NEW w \in Workers, workers[w].todo # {}
  PROVE  Min(workers[w].todo) \in Movements
<1>1. workers[w].todo \in SUBSET Nat /\ workers[w].todo \subseteq Movements
  BY BatchAssumption DEF TodoTyped, HasTodo
<1> QED
  BY <1>1, MinIsMember

LEMMA TickTodo ==
  ASSUME TodoTyped, Tick
  PROVE  TodoTyped'
BY DEF TodoTyped, HasTodo, Tick
-----------------------------------------------------------------------------
(* The invariant.                                                           *)

LEMMA InitSound ==
  ASSUME Init
  PROVE  Sound
<1>1. RatesSound
  BY RatesInitSound DEF Init
<1>2. TodoTyped
  BY DEF Init, TodoTyped, HasTodo, Idle
<1>3. \A m \in Movements :
        /\ movements[m].status = IF DepositOf[m] \in Broken THEN "OBSERVED" ELSE "UNSEEN"
        /\ movements[m].rate = Never
        /\ movements[m] \in Movement
  BY DEF Init, Movement, Waiting, Times
<1>4. MovementsTyped
  BY <1>3 DEF Init, MovementsTyped
<1>5. SeenInOrder /\ DecidedInOrder /\ Valued
  BY <1>3 DEF SeenInOrder, DecidedInOrder, Valued, Status, Settled
<1> QED
  BY <1>1, <1>2, <1>4, <1>5 DEF Sound, MovementsSound

\* A step that leaves the movements, and one that leaves the rates.
LEMMA MovementsKept ==
  ASSUME MovementsSound, movements' = movements
  PROVE  MovementsSound'
BY DEF MovementsSound, MovementsTyped, SeenInOrder, DecidedInOrder, Valued, Root, Status

LEMMA RatesKept ==
  ASSUME RatesSound, now' = now, rates' = rates
  PROVE  RatesSound'
BY DEF RatesSound, RatesTyped, SnapshotsOfOneTime, AnswersAreKnown, rates

LEMMA SettleSound ==
  ASSUME Sound, NEW w \in Workers, Settle(w) \/ Crash(w)
  PROVE  Sound'
<1> USE DEF Sound
<1>1. RatesSound'
  <2>1. now' = now /\ rates' = rates
    BY DEF Settle, Crash, Batch, Claim, SettleNext, Finish, Throws, rates
  <2> QED
    BY <2>1, RatesKept
<1>2. CASE Batch(w)
  BY <1>1, <1>2, BatchTodo, MovementsKept DEF Batch
<1>3. CASE Claim(w)
  BY <1>1, <1>3, ClaimTodo, MovementsKept DEF Claim
<1>4. CASE SettleNext(w)
  <2>1. MovementsSound'
    <3> DEFINE m == Min(workers[w].todo)
    <3>1. workers[w].todo # {} /\ (Postpone(m) \/ Decide(m))
      BY <1>4 DEF SettleNext
    <3>2. m \in Movements
      BY <3>1, NextIsMovement
    <3> HIDE DEF m
    <3> QED
      BY <3>1, <3>2, PostponeSound, DecideSound DEF RatesSound
  <2> QED
    BY <1>1, <1>4, <2>1, SettleNextTodo
<1>5. CASE Finish(w)
  <2>1. workers' = Done(w) /\ movements' = movements
    BY <1>5 DEF Finish
  <2> QED
    BY <1>1, <2>1, DoneHasTodo, MovementsKept
<1>6. CASE Throws(w)
  <2>1. workers' = Done(w) /\ movements' = movements
    BY <1>6 DEF Throws
  <2> QED
    BY <1>1, <2>1, DoneHasTodo, MovementsKept
<1>7. CASE Crash(w)
  <2>1. /\ workers' = [workers EXCEPT ![w] = [Idle EXCEPT !.lag = workers[w].lag]]
        /\ movements' = movements
    BY <1>7 DEF Crash
  <2> QED
    BY <1>1, <2>1, IdleHasTodo, TodoSet, MovementsKept
<1> QED
  BY <1>2, <1>3, <1>4, <1>5, <1>6, <1>7 DEF Settle

LEMMA StepSound ==
  ASSUME Sound, [Next]_vars
  PROVE  Sound'
<1> USE DEF Sound
<1>1. CASE RateWorker /\ UNCHANGED settlement
  <2>1. movements' = movements /\ workers' = workers
    BY <1>1 DEF settlement
  <2>2. RatesSound'
    BY <1>1, RefreshSound, FetchedSound, RecordGramSound, RecordPegsSound DEF RateWorker
  <2> QED
    BY <2>1, <2>2, MovementsKept DEF TodoTyped
<1>2. CASE RateWorkerFails
  <2>1. RefreshFails /\ movements' = movements /\ workers' = workers
    BY <1>2 DEF RateWorkerFails
  <2> QED
    BY <2>1, RefreshFailsSound, MovementsKept DEF TodoTyped
<1>3. CASE \E w \in Workers : Settle(w) \/ Crash(w)
  BY <1>3, SettleSound
<1>4. CASE \E m \in Movements : Arrive(m)
  <2>1. now' = now /\ rates' = rates /\ workers' = workers
    BY <1>4 DEF Arrive
  <2>2. MovementsSound'
    BY <1>4, ArriveSound DEF RatesSound
  <2> QED
    BY <2>1, <2>2, RatesKept DEF TodoTyped
<1>5. CASE Tick
  BY <1>5, ClockSound, TickSound, TickTodo
<1>6. CASE UNCHANGED vars
  <2>1. now' = now /\ rates' = rates /\ movements' = movements /\ workers' = workers
    BY <1>6 DEF vars, settlement
  <2> QED
    BY <2>1, RatesKept, MovementsKept DEF TodoTyped
<1> QED
  BY <1>1, <1>2, <1>3, <1>4, <1>5, <1>6 DEF Next

\* Rates, movements and what the workers have left to settle are in order, in every
\* reachable state (recordDraft, creditMovement, runMixedSettlementBatch).
THEOREM SoundHolds == Spec => []Sound
<1>1. Init => Sound
  BY InitSound
<1>2. Sound /\ [Next]_vars => Sound'
  BY StepSound
<1> QED
  BY <1>1, <1>2, PTL DEF Spec

\* A payment is valued at a rate that was known when it, or the earlier GRAM payment
\* whose rate it keeps, was made and was at most MaxAge old then (findAt, creditMovement).
\* A cross rate comes from observations that are at most MaxAge apart
\* (refreshPaymentRateSnapshots), whatever failed, was cached or came late.
THEOREM RatesAreOfTheirTimeHolds == Spec => []RatesAreOfTheirTime
<1>1. Sound => RatesAreOfTheirTime
  <2> SUFFICES ASSUME Sound, NEW m \in Movements, movements[m].rate # Never
               PROVE  /\ \E k \in MovementsOf(DepositOf[m]) :
                           /\ k = m \/ (k < m /\ AssetOf[k] = "GRAM" /\ AssetOf[m] = "GRAM")
                           /\ movements[k].rate = movements[m].rate
                           /\ movements[k].at - movements[k].rate \in 0..MaxAge
                      /\ \A s \in Known(AssetOf[m], "EUR", movements[m].at) :
                           s.at = movements[m].rate => \A t, u \in s.of : t - u <= MaxAge
    BY DEF RatesAreOfTheirTime
  <2>1. PICK k \in Movements : Root(k, m)
    BY DEF Sound, MovementsSound, Valued
  <2>2. k \in MovementsOf(DepositOf[m])
    BY <2>1 DEF Root, MovementsOf
  <2>3. \A s \in snapshots : \A t, u \in s.of : t - u <= MaxAge
    BY DEF Sound, RatesSound, SnapshotsOfOneTime, OfOneTime
  <2> QED
    BY <2>1, <2>2, <2>3 DEF Root, Known
<1> QED
  BY <1>1, SoundHolds, PTL

\* No payment of a deposit is held or credited before one that precedes it on the chain,
\* however batches of several workers overlap (creditMovement, blocked-earlier-movement).
THEOREM DepositsAreDecidedInOrder == Spec => []DecidedInOrder
<1>1. Sound => DecidedInOrder
  BY DEF Sound, MovementsSound
<1> QED
  BY <1>1, SoundHolds, PTL
=============================================================================
