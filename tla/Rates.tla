------------------------------- MODULE Rates -------------------------------
(***************************************************************************)
(* The rate snapshots a payment is valued with, and the worker that makes  *)
(* them (backend/rate-snapshots.ts, backend/rates.ts,                      *)
(* worker/rate-worker.ts).  The worker asks CoinGecko for GRAM in both     *)
(* currencies at the same time, keeps what is recent enough once both have *)
(* answered, stores it, and derives USDT from what it stored.              *)
(*                                                                         *)
(* Prices are left out: a snapshot is what it is the rate of, when that    *)
(* was observed, and which observations it was derived from.  The clock    *)
(* stops at MaxTime: nothing whose time is told apart happens later.       *)
(***************************************************************************)
EXTENDS Integers, FiniteSets, FiniteSetsExt

CONSTANTS
  MaxTime,       \* bound on the clock
  MaxAge,        \* TON_RATE_SNAPSHOT_MAX_AGE_SECONDS
  CacheTime,     \* rateCacheMs
  Interval,      \* TON_RATE_SNAPSHOT_INTERVAL_SECONDS
  Lags           \* how old an observation is when CoinGecko returns it

VARIABLES
  now,
  snapshots,   \* TonhubRateSnapshot: [asset, quote, at, of], of: the times of the
               \* observations that a cross rate was derived from
  cache,       \* rateCache of the worker: what it holds, and until when
  refresh      \* the refresh under way

ASSUME RatesAssumption ==
  /\ {MaxTime, MaxAge, CacheTime, Interval} \subseteq Nat
  /\ Lags \subseteq Nat

rates == <<snapshots, cache, refresh>>

Currencies == {"USD", "EUR"}
Never == -1

NotCached == [at |-> Never, until |-> Never]
RefreshEnded(at) == [place |-> "IDLE", at |-> at, got |-> [c \in Currencies |-> Never]]

RatesInit ==
  /\ now = 0
  /\ snapshots = {}
  /\ cache = [c \in Currencies |-> NotCached]
  /\ refresh = RefreshEnded(-Interval)
-----------------------------------------------------------------------------
(* findAt: the latest observation up to a time, unless it is too old then.  *)

Known(asset, quote, at) ==
  {s \in snapshots : s.asset = asset /\ s.quote = quote /\ s.at <= at}

Newest(asset, quote, at) ==
  LET known == Known(asset, quote, at)
  IN  CHOOSE s \in known : \A other \in known : other.at <= s.at

HasRate(asset, quote, at) ==
  Known(asset, quote, at) # {} /\ at - Newest(asset, quote, at).at <= MaxAge
-----------------------------------------------------------------------------
(* refreshPaymentRateSnapshots.                                             *)

\* A rate of the last minute is answered from the cache.
Refresh ==
  /\ refresh.place = "IDLE"
  /\ refresh.at + Interval <= now
  /\ refresh' = [place |-> "ASKING", at |-> now,
                 got |-> [c \in Currencies |->
                            IF cache[c].until > now THEN cache[c].at ELSE Never]]
  /\ UNCHANGED <<now, snapshots, cache>>

Fetched(c) ==
  /\ refresh.place = "ASKING" /\ refresh.got[c] = Never
  /\ \E lag \in Lags :
       /\ lag <= now
       /\ refresh' = [refresh EXCEPT !.got[c] = now - lag]
       /\ cache' = [cache EXCEPT ![c] =
                      [at |-> now - lag, until |-> refresh.at + CacheTime]]
  /\ UNCHANGED <<now, snapshots>>

RecentEver(at) == at # Never
\* What counts is the age when the last of the answers is there.
Recent(at) == at # Never /\ now - at <= MaxAge

Gram(c, at) == [asset |-> "GRAM", quote |-> c, at |-> at, of |-> {}]

\* What was not fetched by now has failed.
RecordGram ==
  /\ refresh.place = "ASKING"
  /\ LET kept == {c \in Currencies : Recent(refresh.got[c])}
     IN  /\ snapshots' = snapshots \cup {Gram(c, refresh.got[c]) : c \in kept}
         /\ refresh' = [refresh EXCEPT !.place = "STORED",
                          !.got = [c \in Currencies |-> IF c \in kept THEN @[c] ELSE Never]]
  /\ UNCHANGED <<now, cache>>

\* The cross rate is as new as the newer of its observations; the one that is
\* stored for that time already is kept (skipDuplicates).
Cross(observed) ==
  LET at == Max(observed)
      stored == {s \in snapshots : s.asset = "USDT" /\ s.quote = "EUR" /\ s.at = at}
  IN  IF stored # {} THEN stored
      ELSE {[asset |-> "USDT", quote |-> "EUR", at |-> at, of |-> observed]}

\* The observations it names are stored.
Backed(observed) ==
  \A at \in observed : \E c \in Currencies : Gram(c, at) \in snapshots

\* The snapshot of USDT/USD, which is 1 at any time, is left out: no order here
\* is in USD.
RecordPegs ==
  /\ refresh.place = "STORED"
  /\ LET observed == {refresh.got[c] : c \in Currencies}
     IN  \/ /\ Never \in observed
           /\ UNCHANGED snapshots
        \/ /\ Never \notin observed /\ Backed(observed)
           /\ snapshots' = snapshots \cup Cross(observed)
  /\ refresh' = RefreshEnded(now)
  /\ UNCHANGED <<now, cache>>

\* The database refuses, or the process dies; it is started again.
RefreshFails ==
  /\ refresh.place # "IDLE"
  /\ refresh' = RefreshEnded(-Interval)
  /\ cache' = [c \in Currencies |-> NotCached]
  /\ UNCHANGED <<now, snapshots>>

RateWorker ==
  \/ Refresh \/ RecordGram \/ RecordPegs
  \/ \E c \in Currencies : Fetched(c)
=============================================================================
