------------------------ MODULE PaymentOrderProofs ------------------------
(***************************************************************************)
(* What holds of PaymentOrder for every value of its constants: of the     *)
(* journal and its evidence, of the attempts, of the credits and their     *)
(* sums, of paid orders, and of the books, with any number of attempts and *)
(* with one.                                                               *)
(***************************************************************************)
EXTENDS PaymentOrder, SumTheorems, WellFoundedInduction, FiniteSetTheorems, TLAPS

-----------------------------------------------------------------------------
(* The order of the blockchain.                                             *)

LEMMA SentFacts ==
  ASSUME JournalTypeOK, NEW m \in Sent
  PROVE  /\ m \in Movements /\ m \in Nat /\ At(m) \in Times /\ At(m) \in Nat
         /\ Invoice(m) \in Invoices /\ Asset(m) \in Assets
BY StateAssumption
DEF JournalTypeOK, Sent, At, Invoice, Asset, Transfers, Times, NoTransfer

\* compareMovementChronology is a strict total order of the transfers.
LEMMA BeforeOrders ==
  ASSUME JournalTypeOK, NEW k \in Sent, NEW m \in Sent
  PROVE  /\ k = m \/ Before(k, m) \/ Before(m, k)
         /\ ~ (Before(k, m) /\ Before(m, k))
         /\ ~ Before(m, m)
         /\ \A n \in Sent : Before(k, m) /\ Before(m, n) => Before(k, n)
BY SentFacts DEF Before

LEMMA EarliestFirst ==
  ASSUME JournalTypeOK, NEW S, S \subseteq Sent, S # {}
  PROVE  /\ Earliest(S) \in S
         /\ \A k \in S \ {Earliest(S)} : Before(Earliest(S), k)
<1> DEFINE ats == {At(m) : m \in S}
<1>1. \A m \in S : m \in Nat /\ At(m) \in Nat
  BY SentFacts
<1>2. PICK t \in ats : \A u \in ats : t <= u
  <2>1. ats \subseteq Nat /\ ats # {}
    BY <1>1
  <2> QED
    BY <2>1, LeastNumber
<1> DEFINE firsts == {m \in S : At(m) = t}
<1>3. PICK m \in firsts : \A n \in firsts : m <= n
  <2>1. firsts \subseteq Nat /\ firsts # {}
    BY <1>1, <1>2
  <2> QED
    BY <2>1, LeastNumber
<1>4. \A k \in S \ {m} : Before(m, k)
  BY <1>1, <1>2, <1>3 DEF Before
<1> QED
  BY <1>3, <1>4 DEF Earliest

\* Finitely many transfers have a last one.
LEMMA LatestLast ==
  ASSUME JournalTypeOK, NEW S, S \subseteq Sent, S # {}, IsFiniteSet(S)
  PROVE  /\ Latest(S) \in S
         /\ \A k \in S \ {Latest(S)} : Before(k, Latest(S))
<1> DEFINE upto(m) == {k \in S : k = m \/ Before(k, m)}
           later == {S \ upto(m) : m \in S}
<1>1. later \subseteq SUBSET S /\ later # {}
  OBVIOUS
<1>2. PICK T \in later : \A U \in SUBSET T : U # T => U \notin later
  <2> HIDE DEF later
  <2> QED
    BY <1>1, MinimalSet
<1>3. PICK m \in S : T = S \ upto(m)
  BY <1>2
<1>4. \A k \in S \ {m} : Before(k, m)
  <2> SUFFICES ASSUME NEW k \in S \ {m}, ~ Before(k, m) PROVE FALSE
    OBVIOUS
  <2>1. Before(m, k) /\ ~ Before(k, k)
    BY BeforeOrders
  <2>2. upto(m) \subseteq upto(k)
    BY <2>1, BeforeOrders
  <2>3. k \in T /\ k \notin S \ upto(k)
    BY <1>3, <2>1
  <2>4. S \ upto(k) \in later /\ S \ upto(k) \subseteq T
    BY <1>3, <2>2
  <2> HIDE DEF later, upto
  <2> QED
    BY <1>2, <2>3, <2>4
<1> QED
  BY <1>4 DEF Latest

\* Among the quotes known by the time of a transfer one is the latest.
LEMMA LatestRateIn ==
  ASSUME JournalTypeOK, NEW m \in Sent, KnownRates(m) # {}
  PROVE  LatestRate(m) \in KnownRates(m)
<1> DEFINE ages == {MaxTime - t : t \in KnownRates(m)}
<1>1. KnownRates(m) \subseteq 0..MaxTime
  BY DEF JournalTypeOK, KnownRates, Sent, Asset, Transfers, Times, NoTransfer
<1>2. ages \subseteq Nat /\ ages # {}
  BY <1>1, StateAssumption
<1>3. PICK a \in ages : \A b \in ages : a <= b
  BY <1>2, LeastNumber
<1>4. PICK t \in KnownRates(m) : a = MaxTime - t
  BY <1>3
<1>5. ASSUME NEW u \in KnownRates(m)
      PROVE  u <= t
  <2>1. MaxTime - t <= MaxTime - u
    BY <1>3, <1>4
  <2> QED
    BY <1>1, <2>1, StateAssumption
<1> QED
  BY <1>4, <1>5 DEF LatestRate

\* calculateMovementFiatMicros of a transfer at a published quote is an amount.
LEMMA FiatType ==
  ASSUME JournalTypeOK, NEW m \in Sent, NEW t \in Times
  PROVE  Fiat(m, t) \in Nat
<1>1. chain[m].amount \in Nat /\ Asset(m) \in Assets
  BY DEF JournalTypeOK, Sent, Asset, Transfers, NoTransfer
<1>2. Price[Asset(m)][t] \in Nat
  BY <1>1, StateAssumption
<1>3. \A a, b \in Nat : a * b \in Nat
  OBVIOUS
<1>4. \A a \in Nat, b \in Nat \ {0} : a \div b \in Nat
  OBVIOUS
<1> QED
  BY <1>1, <1>2, <1>3, <1>4, StateAssumption DEF Fiat
-----------------------------------------------------------------------------
(* The evidence about movements.                                            *)

\* What the ledger knows of a movement by its status.
Evidence ==
  /\ \A m \in Movements :
       /\ movements[m].status = "UNSEEN" =>
            movements[m].code = "NONE" /\ movements[m].rate = NoTime /\ movements[m].fiat = NoTime
       /\ movements[m].status # "UNSEEN" => m \in Sent
       /\ IsHeld(m) => movements[m].rate \in Times
  /\ \A r \in allocations : movements[r.movement].status = "CREDITED"

Journal == JournalTypeOK /\ Evidence /\ CreditsMatchEvidence

\* Every rate that a GRAM credit has locked is a time quotes are published at.
LEMMA GramRatesType ==
  ASSUME Journal
  PROVE  GramRates(allocations) \subseteq Times
<1>1. \A r \in allocations : /\ r.movement \in Sent
                            /\ movements[r.movement].rate \in 0..At(r.movement)
  BY DEF Journal, JournalTypeOK, Evidence, CreditsMatchEvidence, Allocations
<1>2. \A m \in Sent : At(m) \in 0..MaxTime
  BY DEF Journal, JournalTypeOK, Sent, At, Transfers, Times, NoTransfer
<1>3. \A r \in allocations : movements[r.movement].rate \in 0..MaxTime
  BY <1>1, <1>2, StateAssumption
<1> QED
  BY <1>3 DEF GramRates, Times

\* The rate a decided movement is valued at exists.
LEMMA OwnRateType ==
  ASSUME Journal, NEW m \in Movements, NEW code, Values(m, code)
  PROVE  OwnRate(m) \in Times
<1>1. m \in Sent
  BY DEF Values, Decides, Accepts, Journaled
<1>2. CASE IsHeld(m)
  BY <1>2 DEF OwnRate, Journal, Evidence
<1>3. CASE ~IsHeld(m) /\ RateLocked(m)
  BY <1>3, GramRatesType DEF OwnRate, RateLocked, LockedRate
<1>4. CASE ~IsHeld(m) /\ ~RateLocked(m)
  <2>1. KnownRates(m) # {}
    BY <1>4 DEF Values, RatePends
  <2>2. LatestRate(m) \in KnownRates(m)
    BY <1>1, <2>1, LatestRateIn DEF Journal
  <2> QED
    BY <1>1, <1>4, <2>2
    DEF OwnRate, KnownRates, Journal, JournalTypeOK, Sent, Asset, Transfers, NoTransfer
<1> QED
  BY <1>2, <1>3, <1>4

\* What is valued together: transfers to one deposit that are not settled yet,
\* at rates that exist.
LEMMA GroupFacts ==
  ASSUME Journal, NEW m \in Movements, NEW code, Values(m, code)
  PROVE  /\ m \in Group(m) /\ Group(m) \subseteq Sent
         /\ \A k \in Group(m) :
              /\ movements[k].status \notin {"UNSEEN", "CREDITED", "REJECTED"}
              /\ Invoice(k) = Invoice(m)
              /\ GroupRate(m, k) \in Times
              /\ GroupFiat(m, k) \in Nat
<1>1. m \in Sent /\ movements[m].status \notin {"UNSEEN", "CREDITED", "REJECTED"}
  BY DEF Values, Decides, Accepts, Journaled
<1>2. /\ m \in Group(m) /\ Group(m) \subseteq Sent
      /\ \A k \in Group(m) : /\ Invoice(k) = Invoice(m)
                             /\ movements[k].status \notin {"UNSEEN", "CREDITED", "REJECTED"}
  BY <1>1 DEF Group, Held, IsHeld
<1>3. \A k \in Group(m) : BaseRate(m, k) \in Times
  BY OwnRateType DEF BaseRate, Group, Held, Journal, Evidence, Sent
<1>4. ASSUME NEW k \in Group(m)
      PROVE  GroupRate(m, k) \in Times
  <2>1. CASE Asset(k) = "GRAM"
    <3>1. GramGroup(m) # {} /\ GramGroup(m) \subseteq Sent
      BY <1>2, <2>1 DEF GramGroup
    <3>2. Earliest(GramGroup(m)) \in Group(m)
      BY <3>1, EarliestFirst DEF Journal, GramGroup
    <3> QED
      BY <1>3, <2>1, <3>2 DEF GroupRate
  <2>2. CASE Asset(k) # "GRAM"
    BY <1>3, <2>2 DEF GroupRate
  <2> QED
    BY <2>1, <2>2
<1>5. \A k \in Group(m) : GroupFiat(m, k) \in Nat
  BY <1>2, <1>4, FiatType DEF GroupFiat, Journal
<1> QED
  BY <1>2, <1>4, <1>5

Cases == [movement: Movements, reason: Reasons, open: BOOLEAN]

LEMMA OpenCaseType ==
  ASSUME NEW cs, cs \subseteq Cases, NEW m \in Movements, NEW reason \in Reasons
  PROVE  OpenCase(cs, m, reason) \subseteq Cases
<1>1. [movement |-> m, reason |-> reason, open |-> TRUE] \in Cases
  BY DEF Cases
<1> QED
  BY <1>1 DEF OpenCase

\* A step that leaves the transfers, movements and allocations alone.
LEMMA JournalFrame ==
  ASSUME Journal, UNCHANGED <<chain, movements, allocations>>,
         now' \in Times, snapshots' \in [Assets -> SUBSET Times], cases' \subseteq Cases
  PROVE  Journal'
<1>1. JournalTypeOK'
  BY DEF Journal, JournalTypeOK, Cases
<1>2. Evidence'
  BY DEF Journal, Evidence, IsHeld, Sent
<1>3. CreditsMatchEvidence'
  BY DEF Journal, CreditsMatchEvidence, Invoice, At, Fiat, Asset
<1> QED
  BY <1>1, <1>2, <1>3 DEF Journal

\* A step that changes one movement, which is neither credited before nor after.
LEMMA JournalOneMovement ==
  ASSUME Journal, UNCHANGED <<world, allocations>>, cases' \subseteq Cases,
         NEW m \in Sent, movements[m].status # "CREDITED",
         NEW row \in [status: MovementStatuses, code: Codes,
                      rate: Times \cup {NoTime}, fiat: Nat \cup {NoTime}],
         movements' = [movements EXCEPT ![m] = row],
         row.status \notin {"UNSEEN", "CREDITED"},
         row.status = "HELD_UNDER_MINIMUM" => row.rate \in Times
  PROVE  Journal'
<1>1. JournalTypeOK'
  BY DEF Journal, JournalTypeOK, Cases, world
<1>2. movements'[m] = row /\ \A k \in Movements \ {m} : movements'[k] = movements[k]
  BY DEF Journal, JournalTypeOK, Sent
<1>3. Evidence'
  <2>1. \A k \in Movements :
       /\ movements'[k].status = "UNSEEN" =>
            movements'[k].code = "NONE" /\ movements'[k].rate = NoTime /\ movements'[k].fiat = NoTime
       /\ movements'[k].status # "UNSEEN" => k \in Sent
       /\ movements'[k].status = "HELD_UNDER_MINIMUM" => movements'[k].rate \in Times
    BY <1>2 DEF Journal, Evidence, IsHeld
  <2>2. \A r \in allocations : movements'[r.movement].status = "CREDITED"
    BY <1>2 DEF Journal, Evidence, JournalTypeOK, Allocations
  <2> QED
    BY <2>1, <2>2 DEF Evidence, IsHeld, Sent, world
<1>4. CreditsMatchEvidence'
  <2>1. \A r \in allocations : movements'[r.movement] = movements[r.movement]
    BY <1>2 DEF Journal, Evidence, JournalTypeOK, Allocations
  <2>2. \A k \in Movements :
          movements'[k].status = "CREDITED" <=> movements[k].status = "CREDITED"
    BY <1>2
  <2>3. (\A k \in Movements : movements[k].status = "CREDITED" <=>
            \E r \in allocations : r.kind = "CREDIT" /\ r.movement = k)'
    BY <1>2, <2>2 DEF Journal, CreditsMatchEvidence
  <2>4. ASSUME NEW r \in allocations
        PROVE  /\ (r.invoice = Invoice(r.movement))'
               /\ (movements[r.movement].rate \in 0..At(r.movement))'
               /\ (r.fiat = movements[r.movement].fiat)'
               /\ (r.fiat = Fiat(r.movement, movements[r.movement].rate))'
    BY <2>1, <2>4 DEF Journal, CreditsMatchEvidence, Invoice, At, Fiat, Asset, world
  <2> QED
    BY <2>3, <2>4 DEF CreditsMatchEvidence
<1> QED
  BY <1>1, <1>3, <1>4 DEF Journal

LEMMA JournalInit == Init => Journal
<1> SUFFICES ASSUME Init PROVE Journal
  OBVIOUS
<1>1. JournalTypeOK
  BY StateAssumption
  DEF Init, JournalTypeOK, Times, NoTime, MovementStatuses, Codes
<1>2. Evidence
  BY DEF Init, Evidence, IsHeld
<1>3. CreditsMatchEvidence
  BY DEF Init, CreditsMatchEvidence
<1> QED
  BY <1>1, <1>2, <1>3 DEF Journal

\* The environment: a new transfer is one nobody has journaled.
LEMMA JournalEnvironment ==
  ASSUME Journal, Environment
  PROVE  Journal'
<1>1. CASE Tick
  BY <1>1, JournalFrame, StateAssumption
  DEF Tick, Times, rows, Journal, JournalTypeOK, Cases
<1>2. ASSUME NEW k \in TransferKinds, Transfer(k)
      PROVE  Journal'
  <2>1. PICK m \in Movements \ Sent :
          chain' = [chain EXCEPT ![m] =
            [asset |-> k.asset, invoice |-> k.invoice, amount |-> k.amount, at |-> now]]
    BY <1>2 DEF Transfer
  <2>2. UNCHANGED <<now, snapshots, movements, allocations, cases>>
    BY <1>2 DEF Transfer, rows
  <2>3. [asset |-> k.asset, invoice |-> k.invoice, amount |-> k.amount, at |-> now] \in Transfers
    BY StateAssumption DEF Journal, JournalTypeOK, Transfers
  <2>4. JournalTypeOK'
    BY <2>1, <2>2, <2>3 DEF Journal, JournalTypeOK
  <2>5. \A n \in Sent : chain'[n] = chain[n] /\ n \in Sent'
    BY <2>1 DEF Sent, Journal, JournalTypeOK
  <2>6. Evidence'
    BY <2>2, <2>5 DEF Journal, Evidence, IsHeld
  <2>7. \A r \in allocations : chain'[r.movement] = chain[r.movement]
    BY <2>5 DEF Journal, JournalTypeOK, Evidence, Allocations
  <2>8. CreditsMatchEvidence'
    BY <2>2, <2>7 DEF Journal, CreditsMatchEvidence, Invoice, At, Fiat, Asset
  <2> QED
    BY <2>4, <2>6, <2>8 DEF Journal
<1>3. ASSUME NEW a \in Assets, RecordRate(a)
      PROVE  Journal'
  <2>1. PICK t \in RateTimes[a] : snapshots' = [snapshots EXCEPT ![a] = @ \cup {t}]
    BY <1>3 DEF RecordRate
  <2>2. t \in Times
    BY StateAssumption
  <2>3. snapshots' \in [Assets -> SUBSET Times]
    BY <2>1, <2>2 DEF Journal, JournalTypeOK
  <2> QED
    BY <1>3, <2>3, JournalFrame DEF RecordRate, rows, Journal, JournalTypeOK, Cases
<1> QED
  BY <1>1, <1>2, <1>3 DEF Environment

\* recordObserved and recordRejected.
LEMMA JournalRecord ==
  ASSUME Journal, NEW m \in Movements, RecordObserved(m) \/ RecordRejected(m)
  PROVE  Journal'
<1>1. m \in Sent /\ movements[m].status = "UNSEEN"
  BY DEF RecordObserved, RecordRejected
<1>2. movements[m] \in [status: MovementStatuses, code: Codes,
                       rate: Times \cup {NoTime}, fiat: Nat \cup {NoTime}]
  BY DEF Journal, JournalTypeOK
<1>3. CASE RecordObserved(m)
  <2> DEFINE row == [movements[m] EXCEPT !.status = "OBSERVED"]
  <2>1. movements' = [movements EXCEPT ![m] = row]
    BY <1>3 DEF RecordObserved
  <2>2. /\ row.status = "OBSERVED"
        /\ row \in [status: MovementStatuses, code: Codes,
                    rate: Times \cup {NoTime}, fiat: Nat \cup {NoTime}]
    BY <1>2 DEF MovementStatuses
  <2>3. UNCHANGED <<world, allocations>> /\ cases' \subseteq Cases
    BY <1>3 DEF RecordObserved, Journal, JournalTypeOK, Cases
  <2> QED
    BY <1>1, <2>1, <2>2, <2>3, JournalOneMovement
<1>4. CASE RecordRejected(m)
  <2> DEFINE row == [movements[m] EXCEPT !.status = "REJECTED", !.code = "SCANNER"]
  <2>1. movements' = [movements EXCEPT ![m] = row]
    BY <1>2, <1>4 DEF RecordRejected
  <2>2. /\ row.status = "REJECTED"
        /\ row \in [status: MovementStatuses, code: Codes,
                    rate: Times \cup {NoTime}, fiat: Nat \cup {NoTime}]
    BY <1>2 DEF MovementStatuses, Codes
  <2>3. UNCHANGED <<world, allocations>> /\ cases' \subseteq Cases
    BY <1>4, OpenCaseType DEF RecordRejected, Journal, JournalTypeOK, Cases, Reasons
  <2> QED
    BY <1>1, <2>1, <2>2, <2>3, JournalOneMovement
<1> QED
  BY <1>3, <1>4

\* The outcomes of creditMovement that credit nothing.
LEMMA JournalSetAside ==
  ASSUME Journal, NEW m \in Movements, NEW code \in ValidationCodes,
         \/ CreditReplay(m, code) \/ Defer(m, code)
         \/ RecoverRateLock(m, code) \/ AwaitRate(m, code)
         \/ HoldDust(m, code) \/ HoldUnderMinimum(m, code)
  PROVE  Journal'
<1> DEFINE Rows == [status: MovementStatuses, code: Codes,
                    rate: Times \cup {NoTime}, fiat: Nat \cup {NoTime}]
<1>1. code \in Codes
  BY CodesAssumption DEF Codes
<1>2. movements[m] \in Rows
  BY DEF Journal, JournalTypeOK
<1>3. CASE CreditReplay(m, code) \/ Defer(m, code)
  <2>1. UNCHANGED <<world, movements, allocations, cases>>
    BY <1>3 DEF CreditReplay, Defer
  <2> QED
    BY <2>1, JournalFrame DEF world, Journal, JournalTypeOK, Cases
<1>4. ASSUME RecoverRateLock(m, code) \/ AwaitRate(m, code)
      PROVE  Journal'
  <2>1. m \in Sent /\ movements[m].status # "CREDITED"
    BY <1>4 DEF RecoverRateLock, AwaitRate, Decides, Accepts, Journaled
  <2>2. PICK st \in {"RECOVERY", "RATE_PENDING"} :
          movements' = [movements EXCEPT ![m].status = st, ![m].code = code]
    BY <1>4 DEF RecoverRateLock, AwaitRate
  <2> DEFINE row == [movements[m] EXCEPT !.status = st, !.code = code]
  <2>3. movements' = [movements EXCEPT ![m] = row]
    BY <1>2, <2>2
  <2>4. row \in Rows /\ row.status = st
    BY <1>1, <1>2, <2>2 DEF MovementStatuses
  <2>5. UNCHANGED <<world, allocations>> /\ cases' \subseteq Cases
    BY <1>4, OpenCaseType
    DEF RecoverRateLock, AwaitRate, Journal, JournalTypeOK, Cases, Reasons
  <2> QED
    BY <2>1, <2>2, <2>3, <2>4, <2>5, JournalOneMovement
<1>5. ASSUME NEW rate \in Times, NEW fiat \in Nat,
             NEW reason \in Reasons, Values(m, code), Hold(m, code, rate, fiat, reason)
      PROVE  Journal'
  <2>1. m \in Sent /\ movements[m].status # "CREDITED"
    BY <1>5 DEF Values, Decides, Accepts, Journaled
  <2> DEFINE row == [status |-> "HELD_UNDER_MINIMUM", code |-> code,
                     rate |-> rate, fiat |-> fiat]
  <2>2. movements' = [movements EXCEPT ![m] = row]
    BY <1>5 DEF Hold
  <2>3. row \in Rows
    BY <1>1 DEF MovementStatuses
  <2>4. UNCHANGED <<world, allocations>> /\ cases' \subseteq Cases
    BY <1>5, OpenCaseType DEF Hold, Journal, JournalTypeOK, Cases
  <2> QED
    BY <2>1, <2>2, <2>3, <2>4, JournalOneMovement
<1>6. CASE HoldDust(m, code)
  BY <1>5, <1>6, OwnRateType DEF HoldDust, Reasons
<1>7. CASE HoldUnderMinimum(m, code)
  BY <1>5, <1>7, GroupFacts DEF HoldUnderMinimum, Reasons
<1> QED
  BY <1>3, <1>4, <1>5, <1>6, <1>7

\* What crediting a group does to the tables of the evidence.
LEMMA CreditGroupEffect ==
  ASSUME NEW m, NEW code, CreditGroup(m, code)
  PROVE  /\ Values(m, code) /\ CreditsAllowed(m)
         /\ allocations' = allocations \cup
              {[kind |-> "CREDIT", movement |-> k, invoice |-> Invoice(m),
                fiat |-> GroupFiat(m, k)] : k \in Group(m)}
         /\ movements' = Claimed(m, code)
         /\ UNCHANGED <<world, others>>
BY DEF CreditGroup

\* The cases of the group's hold are closed, and a forced recovery opens one.
LEMMA CreditGroupCases ==
  ASSUME Journal, NEW m \in Movements, NEW code, CreditGroup(m, code)
  PROVE  cases' \subseteq Cases
<1> DEFINE closed ==
      {[c EXCEPT !.open = IF c.movement \in Held(m) /\
                             c.reason = "INITIAL_PAYMENT_UNDER_MINIMUM"
                          THEN FALSE ELSE @] : c \in cases}
<1>1. closed \subseteq Cases
  BY DEF Journal, JournalTypeOK, Cases
<1>2. RecoveryReason(m) \in Reasons
  BY DEF RecoveryReason, Reasons
<1>3. cases' = IF ForceRecovery(m) THEN OpenCase(closed, m, RecoveryReason(m)) ELSE closed
  BY DEF CreditGroup
<1> QED
  BY <1>1, <1>2, <1>3, OpenCaseType

LEMMA JournalCreditGroup ==
  ASSUME Journal, NEW m \in Movements, NEW code \in ValidationCodes, CreditGroup(m, code)
  PROVE  Journal'
<1> DEFINE credit(k) == [kind |-> "CREDIT", movement |-> k, invoice |-> Invoice(m),
                         fiat |-> GroupFiat(m, k)]
<1>1. /\ m \in Group(m) /\ Group(m) \subseteq Sent
      /\ \A k \in Group(m) :
           /\ movements[k].status \notin {"UNSEEN", "CREDITED", "REJECTED"}
           /\ Invoice(k) = Invoice(m)
           /\ GroupRate(m, k) \in Times
           /\ GroupFiat(m, k) \in Nat
  BY CreditGroupEffect, GroupFacts
<1>2. Group(m) \subseteq Movements
  BY <1>1 DEF Sent
<1>3. \A k \in Group(m) : GroupRate(m, k) <= At(k)
  BY CreditGroupEffect DEF CreditsAllowed
<1>4. /\ \A k \in Movements \ Group(m) : movements'[k] = movements[k]
      /\ \A k \in Group(m) : /\ movements'[k].status = "CREDITED"
                             /\ movements'[k].rate = GroupRate(m, k)
                             /\ movements'[k].fiat = GroupFiat(m, k)
  BY <1>2, CreditGroupEffect DEF Claimed
<1>5. allocations' = allocations \cup {credit(k) : k \in Group(m)}
  BY CreditGroupEffect
<1>6. \A r \in allocations : movements'[r.movement] = movements[r.movement]
  BY <1>1, <1>4 DEF Journal, Evidence, JournalTypeOK, Allocations
<1>7. UNCHANGED <<now, chain, snapshots>>
  BY CreditGroupEffect DEF world
<1>8. JournalTypeOK'
  <2>1. movements' \in [Movements -> [status: MovementStatuses, code: Codes,
                                     rate: Times \cup {NoTime}, fiat: Nat \cup {NoTime}]]
    BY <1>1, CreditGroupEffect, CodesAssumption
    DEF Claimed, Journal, JournalTypeOK, MovementStatuses, Codes
  <2>2. \A k \in Group(m) : Invoice(k) \in Invoices
    BY <1>1 DEF Journal, JournalTypeOK, Sent, Transfers, NoTransfer, Invoice
  <2>3. \A k \in Group(m) : credit(k) \in Allocations
    BY <1>1, <1>2, <2>2 DEF Allocations
  <2> QED
    BY <1>5, <1>7, <2>1, <2>3, CreditGroupCases DEF Journal, JournalTypeOK, Cases
<1>9. Evidence'
  <2>1. \A k \in Movements : movements'[k].status = "CREDITED" \/ movements'[k] = movements[k]
    BY <1>4
  <2>2. \A r \in allocations' : movements'[r.movement].status = "CREDITED"
    BY <1>4, <1>5, <1>6 DEF Journal, Evidence
  <2>3. \A k \in Movements : movements'[k].status # "UNSEEN" => k \in Sent
    BY <1>1, <1>4 DEF Journal, Evidence
  <2> QED
    BY <1>7, <2>1, <2>2, <2>3 DEF Journal, Evidence, IsHeld, Sent
<1>10. CreditsMatchEvidence'
  <2>1. ASSUME NEW k \in Movements
        PROVE  movements'[k].status = "CREDITED" <=>
                 \E r \in allocations' : r.kind = "CREDIT" /\ r.movement = k
    <3>1. CASE k \in Group(m)
      <4>1. credit(k) \in allocations' /\ credit(k).kind = "CREDIT" /\ credit(k).movement = k
        BY <1>5, <3>1
      <4> QED
        BY <1>4, <3>1, <4>1
    <3>2. CASE k \notin Group(m)
      BY <1>4, <1>5, <3>2 DEF Journal, CreditsMatchEvidence
    <3> QED
      BY <3>1, <3>2
  <2>2. ASSUME NEW r \in allocations'
        PROVE  /\ r.invoice = Invoice(r.movement)
               /\ movements'[r.movement].rate \in 0..At(r.movement)
               /\ r.fiat = movements'[r.movement].fiat
               /\ r.fiat = Fiat(r.movement, movements'[r.movement].rate)
    <3>1. CASE r \in allocations
      BY <1>6, <3>1 DEF Journal, CreditsMatchEvidence
    <3>2. ASSUME NEW k \in Group(m), r = credit(k)
          PROVE  /\ r.invoice = Invoice(r.movement)
                 /\ movements'[r.movement].rate \in 0..At(r.movement)
                 /\ r.fiat = movements'[r.movement].fiat
                 /\ r.fiat = Fiat(r.movement, movements'[r.movement].rate)
      <4>1. GroupRate(m, k) \in Nat /\ At(k) \in Nat
        BY <1>1, StateAssumption
        DEF Journal, JournalTypeOK, Sent, At, Transfers, NoTransfer, Times
      <4>2. GroupRate(m, k) \in 0..At(k)
        BY <1>3, <4>1
      <4> QED
        BY <1>1, <1>4, <3>2, <4>2 DEF GroupFiat
    <3> QED
      BY <1>5, <3>1, <3>2
  <2> QED
    BY <1>7, <2>1, <2>2 DEF CreditsMatchEvidence, Invoice, At, Fiat, Asset
<1> QED
  BY <1>8, <1>9, <1>10 DEF Journal

\* reverseAllocation: the reversal carries over the evidence of the credit.
LEMMA JournalReverse ==
  ASSUME Journal, NEW r \in allocations, ReverseAllocation(r)
  PROVE  Journal'
<1>1. /\ UNCHANGED <<world, movements>>
      /\ allocations' = allocations \cup {Reversal(r)}
      /\ cases' = OpenCase(cases, r.movement, "ALLOCATION_REVERSED")
  BY DEF ReverseAllocation
<1>2. r \in Allocations
  BY DEF Journal, JournalTypeOK
<1>3. /\ Reversal(r).kind = "REVERSAL" /\ Reversal(r).movement = r.movement
      /\ Reversal(r).invoice = r.invoice /\ Reversal(r).fiat = r.fiat
      /\ Reversal(r) \in Allocations
  BY <1>2 DEF Reversal, Allocations
<1>4. JournalTypeOK'
  <2>1. cases' \subseteq Cases
    BY <1>1, <1>2, OpenCaseType DEF Allocations, Reasons, Journal, JournalTypeOK, Cases
  <2> QED
    BY <1>1, <1>3, <2>1 DEF Journal, JournalTypeOK, Cases, world
<1>5. Evidence'
  BY <1>1, <1>3 DEF Journal, Evidence, IsHeld, Sent, world
<1>6. CreditsMatchEvidence'
  <2>1. \A k \in Movements :
          (\E q \in allocations' : q.kind = "CREDIT" /\ q.movement = k) <=>
          (\E q \in allocations : q.kind = "CREDIT" /\ q.movement = k)
    BY <1>1, <1>3
  <2>2. \A q \in allocations' : \E p \in allocations :
          q.movement = p.movement /\ q.invoice = p.invoice /\ q.fiat = p.fiat
    BY <1>1, <1>3
  <2>3. \A q \in allocations' :
          /\ q.invoice = Invoice(q.movement)
          /\ movements[q.movement].rate \in 0..At(q.movement)
          /\ q.fiat = movements[q.movement].fiat
          /\ q.fiat = Fiat(q.movement, movements[q.movement].rate)
    BY <2>2 DEF Journal, CreditsMatchEvidence
  <2>4. UNCHANGED <<chain, movements>>
    BY <1>1 DEF world
  <2> QED
    BY <2>1, <2>3, <2>4 DEF Journal, CreditsMatchEvidence, Invoice, At, Fiat, Asset
<1> QED
  BY <1>4, <1>5, <1>6 DEF Journal

\* The ledger does not touch the world, nor what the checkout is doing.
LEMMA LedgerFrame ==
  ASSUME Ledger
  PROVE  UNCHANGED <<world, others>>
<1>1. ASSUME NEW m \in Movements, NEW code \in ValidationCodes, CreditMovement(m, code)
      PROVE  UNCHANGED <<world, others>>
  <2>1. ASSUME CreditReplay(m, code) \/ Defer(m, code) \/ RecoverRateLock(m, code)
                 \/ AwaitRate(m, code)
        PROVE  UNCHANGED <<world, others>>
    BY <2>1 DEF CreditReplay, Defer, RecoverRateLock, AwaitRate
  <2>2. ASSUME HoldDust(m, code) \/ HoldUnderMinimum(m, code)
        PROVE  UNCHANGED <<world, others>>
    BY <2>2 DEF HoldDust, HoldUnderMinimum, Hold
  <2> QED
    BY <1>1, <2>1, <2>2, CreditGroupEffect DEF CreditMovement
<1>2. ASSUME NEW m, RecordObserved(m) \/ RecordRejected(m)
      PROVE  UNCHANGED <<world, others>>
  BY <1>2 DEF RecordObserved, RecordRejected
<1>3. ASSUME NEW r, ReverseAllocation(r)
      PROVE  UNCHANGED <<world, others>>
  BY <1>3 DEF ReverseAllocation
<1> QED
  BY <1>1, <1>2, <1>3 DEF Ledger

\* The checkout does not touch the ledger's tables.
LEMMA CheckoutFrame ==
  ASSUME Checkout
  PROVE  UNCHANGED <<world, movements, allocations, adjustments, cases>>
BY DEF Checkout, FindOverdue, CheckNewAttempt, CreateAttempt, CreateAttemptFails, SelectAsset,
       BeginExpiry, FinishExpiry, AbortExpiry, rows

LEMMA JournalStep ==
  ASSUME Journal, [Next]_vars
  PROVE  Journal'
<1>1. CASE Environment
  BY <1>1, JournalEnvironment
<1>2. CASE Ledger
  <2>1. ASSUME NEW m \in Movements, NEW code \in ValidationCodes, CreditMovement(m, code)
        PROVE  Journal'
    BY <2>1, JournalSetAside, JournalCreditGroup DEF CreditMovement
  <2> QED
    BY <1>2, <2>1, JournalRecord, JournalReverse DEF Ledger
<1>3. CASE Checkout \/ UNCHANGED vars
  <2>1. UNCHANGED <<world, movements, allocations, cases>>
    BY <1>3, CheckoutFrame DEF vars, rows
  <2> QED
    BY <2>1, JournalFrame DEF world, Journal, JournalTypeOK, Cases
<1> QED
  BY <1>1, <1>2, <1>3 DEF Next

\* The journal's rows have their types, and what they say of a movement agrees
\* with its status, its transfer and its credits (movement-ledger.ts, whole).
THEOREM JournalCorrect == Spec => []Journal
<1>1. Init => Journal
  BY JournalInit
<1>2. Journal /\ [Next]_vars => Journal'
  BY JournalStep
<1> QED
  BY <1>1, <1>2, PTL DEF Spec

\* A movement is credited exactly once, to the attempt whose wallet it reached,
\* for its value at a rate published by then (creditMovement, reverseAllocation).
THEOREM CreditsMatchEvidenceHolds == Spec => []CreditsMatchEvidence
<1>1. Journal => CreditsMatchEvidence
  BY DEF Journal
<1> QED
  BY <1>1, JournalCorrect, PTL

\* What a movement was found to be worth and what became of it is never revised
\* (creditMovement with tonhub_guard_payment_movement).
LEMMA EvidenceStep ==
  ASSUME Journal, [Next]_vars, NEW m \in Movements
  PROVE  /\ movements[m].status \in {"CREDITED", "REJECTED"} => movements'[m] = movements[m]
         /\ movements[m].rate # NoTime => movements'[m].rate = movements[m].rate
         /\ movements[m].fiat # NoTime => movements'[m].fiat = movements[m].fiat
         /\ movements[m].code # "NONE" => movements'[m].code = movements[m].code
<1> DEFINE Kept ==
      /\ movements[m].status \in {"CREDITED", "REJECTED"} => movements'[m] = movements[m]
      /\ movements[m].rate # NoTime => movements'[m].rate = movements[m].rate
      /\ movements[m].fiat # NoTime => movements'[m].fiat = movements[m].fiat
      /\ movements[m].code # "NONE" => movements'[m].code = movements[m].code
<1> SUFFICES Kept
  OBVIOUS
<1>1. CASE movements' = movements
  BY <1>1
<1>2. ASSUME NEW k \in Movements, RecordObserved(k) \/ RecordRejected(k)
      PROVE  Kept
  BY <1>2 DEF RecordObserved, RecordRejected, Journal, JournalTypeOK, Evidence
<1>3. ASSUME NEW k \in Movements, NEW code, RecoverRateLock(k, code) \/ AwaitRate(k, code)
      PROVE  Kept
  BY <1>3 DEF RecoverRateLock, AwaitRate, Decides, Accepts, Journal, JournalTypeOK
<1>4. ASSUME NEW k \in Movements, NEW code, NEW rate, NEW fiat, NEW reason,
             Decides(k, code), Hold(k, code, rate, fiat, reason)
      PROVE  Kept
  BY <1>4 DEF Hold, KeepsEvidence, Decides, Accepts, Journal, JournalTypeOK
<1>5. ASSUME NEW k \in Movements, NEW code \in ValidationCodes, CreditGroup(k, code)
      PROVE  Kept
  <2>1. /\ Values(k, code) /\ CreditsAllowed(k)
        /\ movements' = Claimed(k, code)
    BY <1>5, CreditGroupEffect
  <2>2. CASE m \in Group(k)
    <3>1. movements[m].status \notin {"CREDITED", "REJECTED"}
      BY <2>1, <2>2, GroupFacts
    <3>2. /\ movements[m].rate \in {NoTime, GroupRate(k, m)}
          /\ movements[m].fiat \in {NoTime, GroupFiat(k, m)}
      BY <2>1, <2>2 DEF CreditsAllowed, KeepsEvidence
    <3>3. movements'[m] =
            [status |-> "CREDITED",
             code   |-> IF movements[m].code = "NONE" THEN code ELSE movements[m].code,
             rate   |-> GroupRate(k, m), fiat |-> GroupFiat(k, m)]
      BY <2>1, <2>2 DEF Claimed
    <3> QED
      BY <3>1, <3>2, <3>3
  <2>3. CASE m \notin Group(k)
    BY <2>1, <2>3 DEF Claimed
  <2> QED
    BY <2>2, <2>3
<1>6. CASE Ledger
  <2>1. ASSUME NEW k \in Movements, NEW code \in ValidationCodes, CreditMovement(k, code)
        PROVE  Kept
    BY <1>1, <1>3, <1>4, <1>5, <2>1
    DEF CreditMovement, CreditReplay, Defer, HoldDust, HoldUnderMinimum, Values
  <2> QED
    BY <1>1, <1>2, <1>6, <2>1 DEF Ledger, ReverseAllocation
<1>7. CASE Environment \/ Checkout \/ UNCHANGED vars
  BY <1>1, <1>7, CheckoutFrame DEF Environment, Tick, Transfer, RecordRate, vars, rows
<1> QED
  BY <1>6, <1>7 DEF Next

\* What a movement was found to be worth and what became of it is never revised, by
\* the code's own updates as by the guard tonhub_guard_payment_movement.
THEOREM EvidenceIsFinalHolds == Spec => EvidenceIsFinal
<1>1. Journal /\ [Next]_vars =>
        [\A m \in Movements :
           /\ movements[m].status \in {"CREDITED", "REJECTED"} => movements'[m] = movements[m]
           /\ movements[m].rate # NoTime => movements'[m].rate = movements[m].rate
           /\ movements[m].fiat # NoTime => movements'[m].fiat = movements[m].fiat
           /\ movements[m].code # "NONE" => movements'[m].code = movements[m].code]_vars
  BY EvidenceStep
<1> QED
  BY <1>1, JournalCorrect, PTL DEF Spec, EvidenceIsFinal
-----------------------------------------------------------------------------
(* The rate lock.                                                           *)

OneGramRate == \A s, t \in GramRates(allocations) : s = t

\* The rate a credit locked stays what it was: a step can only add credits.
LEMMA GramRatesKept ==
  ASSUME Journal, [Next]_vars,
         NEW r \in allocations
  PROVE  /\ movements'[r.movement] = movements[r.movement]
         /\ Asset(r.movement)' = Asset(r.movement)
<1>1. r.movement \in Movements /\ r.movement \in Sent
      /\ movements[r.movement].status = "CREDITED"
  BY DEF Journal, JournalTypeOK, Evidence, Allocations
<1>2. movements'[r.movement] = movements[r.movement]
  BY <1>1, EvidenceStep
<1>3. chain'[r.movement] = chain[r.movement]
  <2>1. CASE UNCHANGED chain
    BY <2>1
  <2>2. ASSUME NEW k \in TransferKinds, Transfer(k)
        PROVE  chain'[r.movement] = chain[r.movement]
    BY <1>1, <2>2 DEF Transfer, Journal, JournalTypeOK
  <2> QED
    BY <2>1, <2>2, LedgerFrame, CheckoutFrame
    DEF Next, Environment, Tick, RecordRate, vars, world
<1> QED
  BY <1>2, <1>3 DEF Asset

\* Only a group that is credited adds credits.
LEMMA CreditsAdded ==
  ASSUME Journal, [Next]_vars
  PROVE  \/ \A r \in allocations' : r.kind = "CREDIT" => r \in allocations
         \/ \E m \in Movements, code \in ValidationCodes : CreditGroup(m, code)
<1>1. CASE UNCHANGED allocations
  BY <1>1
<1>2. ASSUME NEW r \in allocations, ReverseAllocation(r)
      PROVE  \A q \in allocations' : q.kind = "CREDIT" => q \in allocations
  <2>1. Reversal(r).kind = "REVERSAL"
    BY DEF Reversal, Allocations, Journal, JournalTypeOK
  <2> QED
    BY <1>2, <2>1 DEF ReverseAllocation
<1>3. ASSUME NEW m \in Movements, NEW code \in ValidationCodes, CreditMovement(m, code),
             ~CreditGroup(m, code)
      PROVE  UNCHANGED allocations
  BY <1>3 DEF CreditMovement, CreditReplay, Defer, RecoverRateLock, AwaitRate,
              HoldDust, HoldUnderMinimum, Hold
<1>4. CASE Ledger
  BY <1>2, <1>3, <1>4 DEF Ledger, RecordObserved, RecordRejected
<1> QED
  BY <1>1, <1>4, CheckoutFrame
  DEF Next, Environment, Tick, Transfer, RecordRate, vars, rows

LEMMA OneGramRateStep ==
  ASSUME Journal, OneGramRate, [Next]_vars
  PROVE  OneGramRate'
<1> DEFINE rate(r) == movements'[r.movement].rate
           gram(r) == r.kind = "CREDIT" /\ chain'[r.movement].asset = "GRAM"
<1> SUFFICES ASSUME NEW p \in allocations', NEW q \in allocations', gram(p), gram(q)
             PROVE  rate(p) = rate(q)
  BY DEF OneGramRate, GramRates, Asset
<1>1. \A r \in allocations : gram(r) => rate(r) \in GramRates(allocations)
  BY GramRatesKept DEF GramRates, Asset
<1>2. CASE \A r \in allocations' : r.kind = "CREDIT" => r \in allocations
  BY <1>1, <1>2 DEF OneGramRate
<1>3. ASSUME NEW m \in Movements, NEW code \in ValidationCodes, CreditGroup(m, code)
      PROVE  rate(p) = rate(q)
  <2> DEFINE base == BaseRate(m, Earliest(GramGroup(m)))
             credit(k) == [kind |-> "CREDIT", movement |-> k, invoice |-> Invoice(m),
                           fiat |-> GroupFiat(m, k)]
  <2>1. /\ CreditsAllowed(m) /\ movements' = Claimed(m, code) /\ chain' = chain
        /\ allocations' = allocations \cup {credit(k) : k \in Group(m)}
        /\ Group(m) \subseteq Movements
    BY <1>3, CreditGroupEffect, GroupFacts DEF world, Sent
  <2>2. ASSUME NEW k \in Group(m), gram(credit(k))
        PROVE  rate(credit(k)) = base
               /\ (GramRates(allocations) # {} => base \in GramRates(allocations))
    <3>1. k \in GramGroup(m)
      BY <2>1, <2>2 DEF GramGroup, Asset
    <3>2. GroupRate(m, k) = base
      BY <3>1 DEF GroupRate, GramGroup
    <3>3. rate(credit(k)) = GroupRate(m, k)
      BY <2>1 DEF Claimed
    <3> QED
      BY <2>1, <3>1, <3>2, <3>3 DEF CreditsAllowed, KeepsGramRate
  <2>3. \A r \in allocations' : r \in allocations \/ \E k \in Group(m) : r = credit(k)
    BY <2>1
  <2> HIDE DEF credit, base, rate, gram
  <2>4. CASE p \in allocations /\ q \in allocations
    BY <1>1, <2>4 DEF OneGramRate
  <2>5. CASE p \in allocations /\ q \notin allocations
    BY <1>1, <2>2, <2>3, <2>5 DEF OneGramRate
  <2>6. CASE p \notin allocations /\ q \in allocations
    BY <1>1, <2>2, <2>3, <2>6 DEF OneGramRate
  <2>7. CASE p \notin allocations /\ q \notin allocations
    BY <2>2, <2>3, <2>7
  <2> QED
    BY <2>4, <2>5, <2>6, <2>7
<1> QED
  BY <1>2, <1>3, CreditsAdded

\* All GRAM of an order is valued at one rate, across attempts, held groups, late
\* discoveries and reversals (findLockedGramRate, tonhub_enforce_gram_rate_lock).
THEOREM SingleGramRateHolds == Spec => []SingleGramRate
<1>1. Init => OneGramRate
  BY DEF Init, OneGramRate, GramRates
<1>2. OneGramRate /\ Journal /\ [Next]_vars => OneGramRate'
  BY OneGramRateStep
<1>3. OneGramRate => SingleGramRate
  <2> SUFFICES ASSUME OneGramRate PROVE SingleGramRate
    OBVIOUS
  <2>1. CASE GramRates(allocations) = {}
    BY <2>1, FS_EmptySet DEF SingleGramRate
  <2>2. ASSUME NEW t \in GramRates(allocations)
        PROVE  SingleGramRate
    <3>1. GramRates(allocations) = {t}
      BY <2>2 DEF OneGramRate
    <3> QED
      BY <3>1, FS_Singleton DEF SingleGramRate
  <2> QED
    BY <2>1, <2>2
<1> QED
  BY <1>1, <1>2, <1>3, JournalCorrect, PTL DEF Spec
-----------------------------------------------------------------------------
(* The operator's list.                                                     *)

\* A case is closed only when its movement has been credited.
Listed ==
  /\ SetAsideIsListed
  /\ \A c \in cases : c.open \/ movements[c.movement].status = "CREDITED"

SetAside(m) == movements[m].status \in {"HELD_UNDER_MINIMUM", "RECOVERY", "REJECTED"}

LEMMA OpenCaseAdds ==
  ASSUME NEW cs, NEW m, NEW reason
  PROVE  /\ cs \subseteq OpenCase(cs, m, reason)
         /\ \E c \in OpenCase(cs, m, reason) : c.movement = m
         /\ \A c \in OpenCase(cs, m, reason) : c \in cs \/ c.open
<1> DEFINE new == [movement |-> m, reason |-> reason, open |-> TRUE]
<1>1. new.movement = m /\ new.open
  OBVIOUS
<1>2. CASE \E c \in cs : c.movement = m /\ c.reason = reason
  BY <1>2 DEF OpenCase
<1>3. CASE ~ \E c \in cs : c.movement = m /\ c.reason = reason
  <2>1. OpenCase(cs, m, reason) = cs \cup {new}
    BY <1>3 DEF OpenCase
  <2> HIDE DEF new
  <2> QED
    BY <1>1, <2>1
<1> QED
  BY <1>2, <1>3

\* A step that sets aside at most the movement it opens a case for.
LEMMA ListedAfterOpening ==
  ASSUME Journal, Listed, NEW m \in Movements, NEW reason,
         cases' = OpenCase(cases, m, reason),
         movements[m].status # "CREDITED" \/ UNCHANGED movements,
         \A k \in Movements \ {m} : movements'[k] = movements[k]
  PROVE  Listed'
<1>1. \A c \in cases' : c.open \/ movements'[c.movement].status = "CREDITED"
  BY OpenCaseAdds DEF Listed, Journal, JournalTypeOK
<1>2. ASSUME NEW k \in Movements, SetAside(k)'
      PROVE  \E c \in cases' : c.movement = k /\ c.open
  <2>1. CASE k = m
    BY <1>1, <1>2, <2>1, OpenCaseAdds DEF SetAside
  <2>2. CASE k # m
    BY <1>2, <2>2, OpenCaseAdds DEF Listed, SetAside, SetAsideIsListed
  <2> QED
    BY <2>1, <2>2
<1> QED
  BY <1>1, <1>2 DEF Listed, SetAside, SetAsideIsListed

LEMMA ListedCreditGroup ==
  ASSUME Journal, Listed, NEW m \in Movements, NEW code \in ValidationCodes,
         CreditGroup(m, code)
  PROVE  Listed'
<1> DEFINE closing(c) == c.movement \in Held(m) /\ c.reason = "INITIAL_PAYMENT_UNDER_MINIMUM"
           after(c)   == [c EXCEPT !.open = IF closing(c) THEN FALSE ELSE @]
           closed     == {after(c) : c \in cases}
<1>1. cases' = closed \/ cases' = OpenCase(closed, m, RecoveryReason(m))
  BY DEF CreditGroup
<1>2. movements' = Claimed(m, code) /\ Values(m, code)
  BY CreditGroupEffect
<1>3. \A k \in Movements : IF k \in Group(m) THEN movements'[k].status = "CREDITED"
                           ELSE movements'[k] = movements[k]
  BY <1>2 DEF Claimed
<1>4. \A c \in cases : /\ after(c).movement = c.movement
                      /\ c.movement \in Movements
                      /\ after(c).open = IF closing(c) THEN FALSE ELSE c.open
  BY DEF Journal, JournalTypeOK
<1>5. \A c \in cases : closing(c) => c.movement \in Group(m)
  BY DEF Group
<1> HIDE DEF after, closing
<1>6. \A c \in closed : c.open \/ movements'[c.movement].status = "CREDITED"
  <2>1. ASSUME NEW c \in cases
        PROVE  after(c).open \/ movements'[after(c).movement].status = "CREDITED"
    <3>1. c.movement \in Movements /\ after(c).movement = c.movement
      BY <1>4
    <3>2. CASE c.movement \in Group(m)
      BY <1>3, <3>1, <3>2
    <3>3. CASE c.movement \notin Group(m)
      <4>1. after(c).open = c.open
        BY <1>4, <1>5, <3>3
      <4>2. movements'[c.movement] = movements[c.movement]
        BY <1>3, <3>1, <3>3
      <4> QED
        BY <3>1, <4>1, <4>2 DEF Listed
    <3> QED
      BY <3>2, <3>3
  <2> QED
    BY <2>1
<1>7. closed \subseteq cases' /\ \A c \in cases' : c \in closed \/ c.open
  BY <1>1, OpenCaseAdds
<1>8. ASSUME NEW k \in Movements, SetAside(k)'
      PROVE  \E c \in cases' : c.movement = k /\ c.open
  <2>1. k \notin Group(m) /\ SetAside(k)
    BY <1>3, <1>8 DEF SetAside
  <2>2. PICK c \in cases : c.movement = k /\ c.open
    BY <2>1 DEF Listed, SetAsideIsListed, SetAside
  <2>3. after(c) \in cases' /\ after(c).movement = k /\ after(c).open
    BY <1>4, <1>5, <1>7, <2>1, <2>2
  <2> QED
    BY <2>3
<1> QED
  BY <1>6, <1>7, <1>8 DEF Listed, SetAsideIsListed, SetAside

LEMMA ListedStep ==
  ASSUME Journal, Listed, [Next]_vars
  PROVE  Listed'
<1>1. CASE UNCHANGED <<movements, cases>>
  BY <1>1 DEF Listed, SetAsideIsListed
<1>2. ASSUME NEW m \in Movements, RecordObserved(m)
      PROVE  Listed'
  <2>1. /\ cases' = cases /\ movements[m].status = "UNSEEN" /\ movements'[m].status = "OBSERVED"
        /\ \A k \in Movements \ {m} : movements'[k] = movements[k]
    BY <1>2 DEF RecordObserved, Journal, JournalTypeOK
  <2> QED
    BY <2>1 DEF Listed, SetAsideIsListed, Journal, JournalTypeOK
<1>3. ASSUME NEW m \in Movements, RecordRejected(m)
      PROVE  Listed'
  BY <1>3, ListedAfterOpening DEF RecordRejected, Journal, JournalTypeOK
<1>4. ASSUME NEW m \in Movements, NEW code \in ValidationCodes, CreditMovement(m, code)
      PROVE  Listed'
  <2>1. CASE CreditReplay(m, code) \/ Defer(m, code)
    BY <1>1, <2>1 DEF CreditReplay, Defer
  <2>2. CASE RecoverRateLock(m, code)
    BY <2>2, ListedAfterOpening DEF RecoverRateLock, Decides, Journal, JournalTypeOK
  <2>3. CASE AwaitRate(m, code)
    <3>1. /\ cases' = cases /\ movements[m].status # "CREDITED"
          /\ movements'[m].status = "RATE_PENDING"
          /\ \A k \in Movements \ {m} : movements'[k] = movements[k]
      BY <2>3 DEF AwaitRate, Decides, Journal, JournalTypeOK
    <3> QED
      BY <3>1 DEF Listed, SetAsideIsListed, Journal, JournalTypeOK
  <2>4. ASSUME NEW rate, NEW fiat, NEW reason, Decides(m, code), Hold(m, code, rate, fiat, reason)
        PROVE  Listed'
    BY <2>4, ListedAfterOpening DEF Hold, Decides, Journal, JournalTypeOK
  <2>5. CASE HoldDust(m, code) \/ HoldUnderMinimum(m, code)
    BY <2>4, <2>5 DEF HoldDust, HoldUnderMinimum, Values
  <2> QED
    BY <1>4, <2>1, <2>2, <2>3, <2>5, ListedCreditGroup DEF CreditMovement
<1>5. ASSUME NEW r \in allocations, ReverseAllocation(r)
      PROVE  Listed'
  <2>1. r.movement \in Movements
    BY DEF Journal, JournalTypeOK, Allocations
  <2> QED
    BY <1>5, <2>1, ListedAfterOpening DEF ReverseAllocation
<1>6. CASE Environment \/ Checkout \/ UNCHANGED vars
  BY <1>1, <1>6, CheckoutFrame DEF Environment, Tick, Transfer, RecordRate, vars, rows
<1> QED
  BY <1>2, <1>3, <1>4, <1>5, <1>6 DEF Next, Ledger

\* Money that is held or set aside is on an operator's list, though createRecoveryCase
\* opens no second case and a later group closes some (creditMovement).
THEOREM SetAsideIsListedHolds == Spec => []SetAsideIsListed
<1>1. Init => Listed
  BY DEF Init, Listed, SetAsideIsListed
<1>2. Listed /\ Journal /\ [Next]_vars => Listed'
  BY ListedStep
<1>3. Listed => SetAsideIsListed
  BY DEF Listed
<1> QED
  BY <1>1, <1>2, <1>3, JournalCorrect, PTL DEF Spec

-----------------------------------------------------------------------------
(* The attempts of the order: at most one is active, and the asset of one   *)
(* with a journaled movement is frozen.  Neither depends on the amounts, so *)
(* nothing is assumed of them.                                              *)

IsRow(x) ==
  x = [status |-> x.status, credited |-> x.credited, firstAt |-> x.firstAt,
       partialExpiresAt |-> x.partialExpiresAt, expiresAt |-> x.expiresAt,
       asset |-> x.asset, lockedAsset |-> x.lockedAsset]

\* The rows of the attempts; the locked asset is the selected one.
AttemptRows ==
  /\ invoices = [i \in Invoices |-> invoices[i]]
  /\ \A i \in Invoices : /\ IsRow(invoices[i])
                         /\ invoices[i].asset \in Assets
                         /\ invoices[i].lockedAsset \in {"NONE", invoices[i].asset}
  /\ expiry # NoExpiry => expiry.invoice \in Invoices

\* What a transaction of the ledger may do to the attempt i it is about.
Touches(i) ==
  /\ i \in Invoices
  /\ invoices' = [j \in Invoices |-> invoices'[j]]
  /\ \A j \in Invoices \ {i} : invoices'[j] = invoices[j]
  /\ IsRow(invoices'[i])
  /\ invoices'[i].asset = invoices[i].asset
  /\ \/ invoices'[i].lockedAsset = invoices[i].lockedAsset
     \/ /\ invoices[i].lockedAsset = "NONE"
        /\ invoices'[i].lockedAsset = invoices[i].asset
  /\ invoices'[i].status = "ABSENT" => invoices[i].status = "ABSENT"
  /\ invoices'[i].status \in ActiveStatuses =>
       Active(i) \/ \A j \in Invoices \ {i} : ~Active(j)

LEMMA AttemptOfSent ==
  ASSUME JournalTypeOK, NEW m \in Sent
  PROVE  Invoice(m) \in Invoices
BY DEF JournalTypeOK, Sent, Invoice, Transfers, NoTransfer

\* lockInvoicePaymentSelection.
LEMMA LockTouches ==
  ASSUME AttemptRows, NEW i \in Invoices, invoices' = LockSelection(i)
  PROVE  /\ Touches(i)
         /\ invoices'[i].lockedAsset = invoices[i].asset
<1>1. invoices' = [j \in Invoices |-> IF j = i
        THEN [invoices[i] EXCEPT !.lockedAsset = IF @ = "NONE" THEN invoices[i].asset ELSE @]
        ELSE invoices[j]]
  BY DEF LockSelection, AttemptRows
<1>2. IsRow(invoices[i])
  BY DEF AttemptRows
<1>3. /\ IsRow(invoices'[i])
      /\ invoices'[i].asset = invoices[i].asset
      /\ invoices'[i].status = invoices[i].status
      /\ invoices'[i].lockedAsset = IF invoices[i].lockedAsset = "NONE"
                                    THEN invoices[i].asset ELSE invoices[i].lockedAsset
  BY <1>1, <1>2 DEF IsRow
<1> QED
  BY <1>1, <1>3 DEF Touches, Active, AttemptRows

\* syncInvoiceAccounting, with a status that activates no second attempt.
LEMMA SyncTouches ==
  ASSUME AttemptRows, NEW i \in Invoices, NEW allocs, NEW adjs, NEW status,
         invoices' = [invoices EXCEPT ![i] = SyncedInvoice(i, allocs, adjs, status)],
         status = "ABSENT" => invoices[i].status = "ABSENT",
         status \in ActiveStatuses => Active(i) \/ \A j \in Invoices \ {i} : ~Active(j)
  PROVE  Touches(i)
<1>1. IsRow(invoices[i])
  BY DEF AttemptRows
<1>2. LockSelection(i)[i] =
        [invoices[i] EXCEPT !.lockedAsset = IF @ = "NONE" THEN invoices[i].asset ELSE @]
  BY DEF LockSelection, AttemptRows
<1> DEFINE row == SyncedInvoice(i, allocs, adjs, status)
<1>3. /\ IsRow(LockSelection(i)[i])
      /\ LockSelection(i)[i].asset = invoices[i].asset
      /\ LockSelection(i)[i].lockedAsset = IF invoices[i].lockedAsset = "NONE"
                                           THEN invoices[i].asset ELSE invoices[i].lockedAsset
  BY <1>1, <1>2 DEF IsRow
<1>4. \E a, b, c : row =
        [LockSelection(i)[i] EXCEPT !.status = status, !.credited = a,
                                    !.firstAt = b, !.partialExpiresAt = c]
  BY DEF SyncedInvoice
<1>5. /\ IsRow(row) /\ row.status = status
      /\ row.asset = LockSelection(i)[i].asset
      /\ row.lockedAsset = LockSelection(i)[i].lockedAsset
  <2> HIDE DEF row
  <2> QED
    BY <1>3, <1>4 DEF IsRow
<1>6. invoices' = [j \in Invoices |-> IF j = i THEN row ELSE invoices[j]]
  BY DEF AttemptRows
<1> HIDE DEF row
<1> QED
  BY <1>3, <1>5, <1>6 DEF Touches

LEMMA LedgerTouches ==
  ASSUME Journal, AttemptRows, Ledger
  PROVE  \E i \in Invoices : Touches(i)
<1>1. UNCHANGED invoices => Touches(FirstInvoice)
  BY StateAssumption DEF Touches, AttemptRows, Active
<1>2. ASSUME NEW m \in Sent, invoices' = LockSelection(Invoice(m))
      PROVE  Touches(Invoice(m))
  BY <1>2, AttemptOfSent, LockTouches DEF Journal
<1>3. ASSUME NEW m \in Movements, RecordObserved(m) \/ RecordRejected(m)
      PROVE  \E i \in Invoices : Touches(i)
  BY <1>1, <1>2, <1>3, AttemptOfSent, StateAssumption
  DEF RecordObserved, RecordRejected, Journal
<1>4. ASSUME NEW m \in Movements, NEW code \in ValidationCodes, CreditMovement(m, code)
      PROVE  Touches(Invoice(m))
  <2>1. m \in Sent /\ Invoice(m) \in Invoices
    BY <1>4, AttemptOfSent
    DEF CreditMovement, CreditReplay, Defer, RecoverRateLock, AwaitRate, HoldDust,
        HoldUnderMinimum, CreditGroup, Values, Decides, Accepts, Journaled, Journal
  <2>2. CASE invoices' = LockSelection(Invoice(m))
    BY <1>2, <2>1, <2>2
  <2>3. ASSUME NEW allocs, NEW status, Active(Invoice(m)) \/ ~ConflictingAttempt(m)
        PROVE  SettledStatus(Invoice(m), allocs, status) \in ActiveStatuses =>
                 Active(Invoice(m)) \/ \A j \in Invoices \ {Invoice(m)} : ~Active(j)
    BY <2>3 DEF ConflictingAttempt
  <2>4. \A allocs, status : SettledStatus(Invoice(m), allocs, status) # "ABSENT"
    BY DEF SettledStatus
  <2>5. CASE CreditReplay(m, code) /\ invoices' # LockSelection(Invoice(m))
    <3> DEFINE i == Invoice(m)
               adjs == Discounted(i, allocations, adjustments)
               ord == SyncedOrder(allocations, adjs, FALSE, FALSE)
               status == SettledStatus(i, allocations, ord.status)
    <3>1. Active(i) /\ invoices' = [invoices EXCEPT
            ![i] = SyncedInvoice(i, allocations, adjs, status)]
      BY <2>5 DEF CreditReplay
    <3>2. status # "ABSENT"
      BY <2>4
    <3> HIDE DEF i, adjs, ord, status
    <3> QED
      BY <2>1, <3>1, <3>2, SyncTouches DEF i
  <2>6. CASE CreditGroup(m, code)
    <3>1. PICK allocs, adjs, ord : invoices' = [invoices EXCEPT ![Invoice(m)] =
            SyncedInvoice(Invoice(m), allocs, adjs,
              IF ForceRecovery(m) THEN RecoveredStatus(Invoice(m))
              ELSE SettledStatus(Invoice(m), allocs, ord.status))]
      BY <2>6 DEF CreditGroup
    <3> DEFINE status == IF ForceRecovery(m) THEN RecoveredStatus(Invoice(m))
                         ELSE SettledStatus(Invoice(m), allocs, ord.status)
    <3>2. /\ status = "ABSENT" => invoices[Invoice(m)].status = "ABSENT"
          /\ status \in ActiveStatuses =>
               Active(Invoice(m)) \/ \A j \in Invoices \ {Invoice(m)} : ~Active(j)
      BY <2>3, <2>4 DEF ForceRecovery, RecoveredStatus, Active, ActiveStatuses
    <3> HIDE DEF status
    <3> QED
      BY <2>1, <3>1, <3>2, SyncTouches DEF status
  <2> QED
    BY <1>4, <2>2, <2>5, <2>6
    DEF CreditMovement, Defer, RecoverRateLock, AwaitRate, HoldDust, HoldUnderMinimum, Hold
<1>5. ASSUME NEW r \in allocations, ReverseAllocation(r)
      PROVE  Touches(r.invoice)
  <2>1. r.invoice \in Invoices
    BY DEF Journal, JournalTypeOK, Allocations
  <2>2. PICK allocs, adjs : invoices' =
          [invoices EXCEPT ![r.invoice] = SyncedInvoice(r.invoice, allocs, adjs, "FAILED")]
    BY <1>5 DEF ReverseAllocation
  <2> QED
    BY <2>1, <2>2, SyncTouches DEF ActiveStatuses
<1> QED
  BY <1>3, <1>4, <1>5 DEF Ledger, Touches
-----------------------------------------------------------------------------
(* The checkout's steps.                                                    *)

\* Writing one field of a row leaves the others.
LEMMA AssetWritten ==
  ASSUME NEW x, IsRow(x), NEW v
  PROVE  LET y == [x EXCEPT !.asset = v]
         IN  IsRow(y) /\ y.asset = v /\ y.status = x.status /\ y.lockedAsset = x.lockedAsset
<1>1. PICK a, b, c, d, e, f, g :
        x = [status |-> a, credited |-> b, firstAt |-> c, partialExpiresAt |-> d,
             expiresAt |-> e, asset |-> f, lockedAsset |-> g]
  BY DEF IsRow
<1> QED
  BY <1>1 DEF IsRow

LEMMA StatusWritten ==
  ASSUME NEW x, IsRow(x), NEW v
  PROVE  LET y == [x EXCEPT !.status = v]
         IN  IsRow(y) /\ y.status = v /\ y.asset = x.asset /\ y.lockedAsset = x.lockedAsset
<1>1. PICK a, b, c, d, e, f, g :
        x = [status |-> a, credited |-> b, firstAt |-> c, partialExpiresAt |-> d,
             expiresAt |-> e, asset |-> f, lockedAsset |-> g]
  BY DEF IsRow
<1> QED
  BY <1>1 DEF IsRow

\* What a step of the checkout may make of the attempt i: a new one while none
\* is active, another asset while none is locked, or an expired one.
Alters(i, row) ==
  /\ i \in Invoices
  /\ invoices' = [j \in Invoices |-> IF j = i THEN row ELSE invoices[j]]
  /\ IsRow(row) /\ row.asset \in Assets /\ row.lockedAsset \in {"NONE", row.asset}
  /\ \/ /\ invoices[i].status = "ABSENT" /\ row.status # "ABSENT"
        /\ \A j \in Invoices : ~Active(j)
     \/ invoices[i].lockedAsset = "NONE" /\ row.status = invoices[i].status
     \/ /\ row.status = "EXPIRED"
        /\ row.asset = invoices[i].asset /\ row.lockedAsset = invoices[i].lockedAsset

LEMMA CheckoutAlters ==
  ASSUME AttemptRows, Checkout
  PROVE  UNCHANGED invoices \/ \E i \in Invoices : \E row : Alters(i, row)
<1>1. \A i \in Invoices : IsRow(invoices[i])
  BY DEF AttemptRows
<1>2. ASSUME NEW i \in Invoices, NEW asset \in CheckoutAssets, CreateAttempt(i, asset)
      PROVE  Alters(i, NewInvoice(asset, now))
  <2>1. /\ IsRow(NewInvoice(asset, now)) /\ NewInvoice(asset, now).asset = asset
        /\ NewInvoice(asset, now).lockedAsset = "NONE"
        /\ NewInvoice(asset, now).status = "PENDING"
    BY DEF NewInvoice, IsRow
  <2>2. /\ invoices[i].status = "ABSENT" /\ \A j \in Invoices : ~Active(j)
        /\ invoices' = [j \in Invoices |->
                         IF j = i THEN NewInvoice(asset, now) ELSE invoices[j]]
    BY <1>2 DEF CreateAttempt, AttemptRows
  <2> QED
    BY <2>1, <2>2, StateAssumption DEF Alters
<1>3. ASSUME NEW i \in Invoices, NEW asset \in CheckoutAssets, SelectAsset(i, asset)
      PROVE  Alters(i, [invoices[i] EXCEPT !.asset = asset])
  <2> DEFINE row == [invoices[i] EXCEPT !.asset = asset]
  <2>1. /\ invoices[i].lockedAsset = "NONE"
        /\ invoices' = [j \in Invoices |-> IF j = i THEN row ELSE invoices[j]]
    BY <1>3 DEF SelectAsset, SelectionOpen, AttemptRows
  <2>2. /\ IsRow(row) /\ row.asset = asset /\ row.status = invoices[i].status
        /\ row.lockedAsset = invoices[i].lockedAsset
    <3>1. PICK x : x = invoices[i]
      OBVIOUS
    <3>2. IsRow(x)
      BY <3>1, <1>1
    <3>3. LET y == [x EXCEPT !.asset = asset]
          IN  IsRow(y) /\ y.asset = asset /\ y.status = x.status /\ y.lockedAsset = x.lockedAsset
      BY ONLY <3>2, AssetWritten
    <3> QED
      BY <3>1, <3>3
  <2>3. asset \in Assets
    BY StateAssumption
  <2> HIDE DEF row
  <2>4. Alters(i, row)
    BY <2>1, <2>2, <2>3 DEF Alters
  <2> QED
    BY <2>4 DEF row
<1>4. ASSUME FinishExpiry
      PROVE  \E i \in Invoices : \E row : Alters(i, row)
  <2> DEFINE i == expiry.invoice
             row == [invoices[i] EXCEPT !.status = "EXPIRED"]
  <2>1. /\ i \in Invoices
        /\ invoices' = [j \in Invoices |-> IF j = i THEN row ELSE invoices[j]]
        /\ invoices[i].asset \in Assets /\ invoices[i].lockedAsset \in {"NONE", invoices[i].asset}
    BY <1>4 DEF FinishExpiry, AttemptRows
  <2>2. /\ IsRow(row) /\ row.asset = invoices[i].asset /\ row.status = "EXPIRED"
        /\ row.lockedAsset = invoices[i].lockedAsset
    <3>1. PICK x : x = invoices[i]
      OBVIOUS
    <3>2. IsRow(x)
      BY <3>1, <1>1, <2>1
    <3>3. LET y == [x EXCEPT !.status = "EXPIRED"]
          IN  IsRow(y) /\ y.status = "EXPIRED" /\ y.asset = x.asset /\ y.lockedAsset = x.lockedAsset
      BY ONLY <3>2, StatusWritten
    <3> QED
      BY <3>1, <3>3
  <2> HIDE DEF row, i
  <2> QED
    BY <2>1, <2>2 DEF Alters
<1> QED
  BY <1>2, <1>3, <1>4
  DEF Checkout, FindOverdue, CheckNewAttempt, CreateAttemptFails, BeginExpiry, AbortExpiry, rows

LEMMA EnvironmentFrame ==
  ASSUME Environment \/ UNCHANGED vars
  PROVE  UNCHANGED <<movements, allocations, cases, invoices, expiry>>
BY DEF Environment, Tick, Transfer, RecordRate, vars, rows, others

LEMMA AttemptRowsInit == Init => AttemptRows
<1> SUFFICES ASSUME Init PROVE AttemptRows
  OBVIOUS
<1>1. PICK a \in CheckoutAssets : invoices = [i \in Invoices |->
        IF i = FirstInvoice THEN NewInvoice(a, 0) ELSE NoInvoice]
  BY DEF Init
<1>2. a \in Assets /\ IsRow(NewInvoice(a, 0)) /\ IsRow(NoInvoice)
  BY StateAssumption DEF IsRow, NewInvoice, NoInvoice
<1> QED
  BY <1>1, <1>2 DEF Init, AttemptRows, NewInvoice, NoInvoice, Assets

LEMMA AttemptRowsStep ==
  ASSUME Journal, AttemptRows, [Next]_vars
  PROVE  AttemptRows'
<1>1. CASE UNCHANGED <<invoices, expiry>>
  BY <1>1 DEF AttemptRows, IsRow
<1>2. CASE Ledger
  <2>1. PICK i \in Invoices : Touches(i)
    BY <1>2, LedgerTouches
  <2>2. UNCHANGED expiry
    BY <1>2, LedgerFrame DEF others
  <2> QED
    BY <2>1, <2>2 DEF Touches, AttemptRows
<1>3. CASE Checkout
  <2>1. (expiry # NoExpiry => expiry.invoice \in Invoices)'
    BY <1>3 DEF Checkout, FindOverdue, CheckNewAttempt, CreateAttempt, CreateAttemptFails, SelectAsset,
                BeginExpiry, FinishExpiry, AbortExpiry, others, AttemptRows
  <2>2. ASSUME NEW i, NEW row, Alters(i, row)
        PROVE  AttemptRows'
    BY <2>1, <2>2 DEF Alters, AttemptRows
  <2>3. CASE UNCHANGED invoices
    BY <2>1, <2>3 DEF AttemptRows, IsRow
  <2> QED
    BY <1>3, <2>2, <2>3, CheckoutAlters
<1> QED
  BY <1>1, <1>2, <1>3, EnvironmentFrame DEF Next

\* The attempts' rows have their types under every transaction of the ledger and of
\* the checkout, and an expiry under way holds the row that it read.
THEOREM AttemptRowsHold == Spec => []AttemptRows
<1>1. AttemptRows /\ Journal /\ [Next]_vars => AttemptRows'
  BY AttemptRowsStep
<1> QED
  BY <1>1, AttemptRowsInit, JournalCorrect, PTL DEF Spec
-----------------------------------------------------------------------------
(* One active attempt.                                                      *)

AtMostOneActive == \A i, j \in Invoices : Active(i) /\ Active(j) => i = j

LEMMA AtMostOneActiveStep ==
  ASSUME Journal, AttemptRows, AtMostOneActive, [Next]_vars
  PROVE  AtMostOneActive'
<1>1. CASE UNCHANGED invoices
  BY <1>1 DEF AtMostOneActive, Active
<1>2. CASE Ledger
  <2>1. PICK i \in Invoices : Touches(i)
    BY <1>2, LedgerTouches
  <2> QED
    BY <2>1 DEF Touches, AtMostOneActive, Active
<1>3. ASSUME NEW i, NEW row, Alters(i, row)
      PROVE  AtMostOneActive'
  BY <1>3 DEF Alters, AtMostOneActive, Active, ActiveStatuses
<1> QED
  BY <1>1, <1>2, <1>3, EnvironmentFrame, CheckoutAlters DEF Next

\* The payer is shown at most one wallet to pay to, whatever createPendingInvoice,
\* markInvoiceExpired and the ledger's revival of an expired order do to each other.
THEOREM OneActiveAttemptHolds == Spec => []OneActiveAttempt
<1>1. Init => AtMostOneActive
  BY DEF Init, AtMostOneActive, Active, ActiveStatuses, NoInvoice, NewInvoice
<1>2. AtMostOneActive /\ AttemptRows /\ Journal /\ [Next]_vars => AtMostOneActive'
  BY AtMostOneActiveStep
<1>3. AtMostOneActive => OneActiveAttempt
  <2> SUFFICES ASSUME AtMostOneActive PROVE OneActiveAttempt
    OBVIOUS
  <2> DEFINE active == {i \in Invoices : Active(i)}
  <2>1. CASE active = {}
    BY <2>1, FS_EmptySet DEF OneActiveAttempt
  <2>2. ASSUME NEW i \in active
        PROVE  OneActiveAttempt
    <3>1. active = {i}
      BY <2>2 DEF AtMostOneActive
    <3>2. Cardinality(active) = 1
      BY <3>1, FS_Singleton
    <3> QED
      BY <3>2 DEF OneActiveAttempt
  <2> QED
    BY <2>1, <2>2
<1> QED
  BY <1>1, <1>2, <1>3, AttemptRowsHold, JournalCorrect, PTL DEF Spec
-----------------------------------------------------------------------------
(* The frozen selection.                                                    *)

\* Every transfer went to an attempt that exists, and one with a journaled
\* movement has its asset locked.
Frozen ==
  /\ \A m \in Sent : invoices[Invoice(m)].status # "ABSENT"
  /\ \A m \in Journaled : movements[m].status # "REJECTED" =>
       invoices[Invoice(m)].lockedAsset # "NONE"

\* A transfer that is journaled was so before, or is journaled by this step.
LEMMA JournaledBefore ==
  ASSUME Journal, Ledger, NEW m \in Sent,
         movements'[m].status \notin {"UNSEEN", "REJECTED"}
  PROVE  movements[m].status \notin {"UNSEEN", "REJECTED"} \/ RecordObserved(m)
<1>1. m \in Movements
  BY DEF Sent
<1>2. CASE UNCHANGED movements
  BY <1>2
<1>3. ASSUME NEW k \in Movements, RecordObserved(k) \/ RecordRejected(k)
      PROVE  movements[m].status \notin {"UNSEEN", "REJECTED"} \/ RecordObserved(m)
  <2>1. CASE k = m /\ RecordObserved(k)
    BY <2>1
  <2>2. CASE k = m /\ RecordRejected(k)
    <3>1. movements'[m].status = "REJECTED"
      BY <1>1, <2>2 DEF RecordRejected, Journal, JournalTypeOK
    <3> QED
      BY <3>1
  <2>3. CASE k # m
    <3>1. movements'[m] = movements[m]
      BY <1>1, <1>3, <2>3 DEF RecordObserved, RecordRejected, Journal, JournalTypeOK
    <3> QED
      BY <3>1
  <2> QED
    BY <1>3, <2>1, <2>2, <2>3
<1>4. ASSUME NEW k \in Movements, NEW code \in ValidationCodes, CreditMovement(k, code),
             movements[m].status \in {"UNSEEN", "REJECTED"}
      PROVE  FALSE
  <2>1. CASE RecoverRateLock(k, code) \/ AwaitRate(k, code)
    BY <1>1, <1>4, <2>1
    DEF RecoverRateLock, AwaitRate, Decides, Accepts, Journaled, Journal, JournalTypeOK
  <2>2. CASE HoldDust(k, code) \/ HoldUnderMinimum(k, code)
    BY <1>1, <1>4, <2>2
    DEF HoldDust, HoldUnderMinimum, Hold, Values, Decides, Accepts, Journaled,
        Journal, JournalTypeOK
  <2>3. CASE CreditGroup(k, code)
    <3>1. Values(k, code) /\ movements' = Claimed(k, code)
      BY <2>3, CreditGroupEffect
    <3>2. m \notin Group(k)
      BY <1>4, <3>1, GroupFacts
    <3> QED
      BY <1>1, <1>4, <3>1, <3>2 DEF Claimed
  <2> QED
    BY <1>4, <2>1, <2>2, <2>3 DEF CreditMovement, CreditReplay, Defer
<1> QED
  BY <1>2, <1>3, <1>4 DEF Ledger, ReverseAllocation

LEMMA FrozenStep ==
  ASSUME Journal, AttemptRows, Frozen, [Next]_vars
  PROVE  Frozen'
<1>1. CASE Environment
  <2>1. UNCHANGED <<movements, invoices>>
    BY <1>1, EnvironmentFrame
  <2>2. \A m \in Sent' : \/ m \in Sent /\ chain'[m] = chain[m]
                         \/ movements[m].status = "UNSEEN"
    BY <1>1 DEF Environment, Tick, Transfer, RecordRate, Sent, Journal, JournalTypeOK, Evidence
  <2>3. \A m \in Sent' : invoices[Invoice(m)'].status # "ABSENT"
    <3>1. ASSUME NEW k \in TransferKinds, Transfer(k), NEW m \in Sent'
          PROVE  \/ m \in Sent /\ chain'[m] = chain[m]
                 \/ chain'[m].invoice = k.invoice /\ invoices[k.invoice].status # "ABSENT"
      BY <3>1 DEF Transfer, Sent, Journal, JournalTypeOK
    <3> QED
      BY <1>1, <3>1 DEF Environment, Tick, RecordRate, Frozen, Invoice, Sent
  <2> QED
    BY <2>1, <2>2, <2>3 DEF Frozen, Journaled, Invoice
<1>2. CASE Ledger
  <2>1. UNCHANGED chain
    BY <1>2, LedgerFrame DEF world
  <2>2. PICK i \in Invoices : Touches(i)
    BY <1>2, LedgerTouches
  <2>3. \A j \in Invoices :
          /\ invoices[j].status # "ABSENT" => invoices'[j].status # "ABSENT"
          /\ invoices[j].lockedAsset # "NONE" => invoices'[j].lockedAsset # "NONE"
    BY <2>2 DEF Touches
  <2>4. ASSUME NEW m \in Sent, movements'[m].status \notin {"UNSEEN", "REJECTED"}
        PROVE  invoices'[Invoice(m)].lockedAsset # "NONE"
    <3>1. Invoice(m) \in Invoices
      BY AttemptOfSent DEF Journal
    <3>2. CASE movements[m].status \notin {"UNSEEN", "REJECTED"}
      BY <2>3, <3>1, <3>2 DEF Frozen, Journaled
    <3>3. CASE RecordObserved(m)
      <4>1. invoices'[Invoice(m)].lockedAsset = invoices[Invoice(m)].asset
        BY <3>1, <3>3, LockTouches DEF RecordObserved
      <4> QED
        BY <3>1, <4>1 DEF AttemptRows, Assets
    <3> QED
      BY <1>2, <2>4, <3>2, <3>3, JournaledBefore
  <2> QED
    BY <2>1, <2>3, <2>4, AttemptOfSent DEF Frozen, Journaled, Sent, Invoice, Journal
<1>3. CASE Checkout \/ UNCHANGED vars
  <2>1. UNCHANGED <<chain, movements>>
    BY <1>3, CheckoutFrame DEF world, vars, rows
  <2>2. ASSUME NEW i, NEW row, Alters(i, row), NEW m \in Sent
        PROVE  /\ invoices'[Invoice(m)].status # "ABSENT"
               /\ invoices[Invoice(m)].lockedAsset # "NONE" =>
                    invoices'[Invoice(m)].lockedAsset # "NONE"
    <3>1. Invoice(m) \in Invoices /\ invoices[Invoice(m)].status # "ABSENT"
      BY AttemptOfSent DEF Journal, Frozen
    <3> QED
      BY <2>2, <3>1 DEF Alters
  <2>3. CASE UNCHANGED invoices
    BY <2>1, <2>3 DEF Frozen, Journaled, Sent, Invoice
  <2>4. CASE \E i \in Invoices : \E row : Alters(i, row)
    BY <2>1, <2>2, <2>4 DEF Frozen, Journaled, Sent, Invoice
  <2> QED
    BY <1>3, <2>3, <2>4, CheckoutAlters DEF vars, rows
<1> QED
  BY <1>1, <1>2, <1>3 DEF Next

\* The asset of an attempt is frozen with its first journaled movement, while the
\* payer may be selecting another (lockInvoicePaymentSelection).
THEOREM SelectionIsFrozenHolds == Spec => []SelectionIsFrozen
<1>1. Init => Frozen
  BY DEF Init, Frozen, Sent, Journaled
<1>2. Frozen /\ AttemptRows /\ Journal /\ [Next]_vars => Frozen'
  BY FrozenStep
<1>3. Frozen /\ AttemptRows /\ Journal => SelectionIsFrozen
  <2> SUFFICES ASSUME Frozen, AttemptRows, Journal, NEW m \in Journaled,
                      movements[m].status # "REJECTED"
               PROVE  invoices[Invoice(m)].lockedAsset = invoices[Invoice(m)].asset
    BY DEF SelectionIsFrozen
  <2>1. Invoice(m) \in Invoices
    BY AttemptOfSent DEF Journal, Journaled
  <2> QED
    BY <2>1 DEF Frozen, AttemptRows
<1> QED
  BY <1>1, <1>2, <1>3, AttemptRowsHold, JournalCorrect, PTL DEF Spec

-----------------------------------------------------------------------------
(* The credits that count, and what becomes of them.                        *)

GroupCredits(m) ==
  {[kind |-> "CREDIT", movement |-> k, invoice |-> Invoice(m), fiat |-> GroupFiat(m, k)] :
     k \in Group(m)}

LEMMA ReversalRow ==
  ASSUME NEW r \in Allocations
  PROVE  /\ Reversal(r) \in Allocations
         /\ Reversal(r) = [kind |-> "REVERSAL", movement |-> r.movement,
                           invoice |-> r.invoice, fiat |-> r.fiat]
         /\ r = [kind |-> r.kind, movement |-> r.movement,
                 invoice |-> r.invoice, fiat |-> r.fiat]
BY DEF Allocations, Reversal

\* What is credited together was not credited before, and counts from then on.
LEMMA CreditGroupCredits ==
  ASSUME Journal, NEW m \in Movements, NEW code, CreditGroup(m, code)
  PROVE  /\ GroupCredits(m) \subseteq Allocations
         /\ ActiveCredits(allocations') = ActiveCredits(allocations) \cup GroupCredits(m)
         /\ GroupCredits(m) \cap allocations = {}
         /\ MovementsOf(ActiveCredits(allocations)) \cap Group(m) = {}
<1>1. Values(m, code) /\ allocations' = allocations \cup GroupCredits(m)
  BY CreditGroupEffect DEF GroupCredits
<1>2. /\ Group(m) \subseteq Movements
      /\ \A k \in Group(m) : movements[k].status # "CREDITED" /\ GroupFiat(m, k) \in Nat
      /\ Invoice(m) \in Invoices
  BY <1>1, GroupFacts, AttemptOfSent DEF Sent, Values, Decides, Accepts, Journaled, Journal
<1>3. GroupCredits(m) \subseteq Allocations
  BY <1>2 DEF GroupCredits, Allocations
<1>4. \A r \in allocations : r \in Allocations /\ movements[r.movement].status = "CREDITED"
  BY DEF Journal, JournalTypeOK, Evidence
<1>5. \A r \in GroupCredits(m) : r.movement \in Group(m) /\ r.kind = "CREDIT"
  BY DEF GroupCredits
<1>6. \A r \in GroupCredits(m) : r \notin allocations /\ Reversal(r) \notin allocations
  BY <1>2, <1>3, <1>4, <1>5, ReversalRow
<1>7. \A r \in Allocations : Reversal(r) \notin GroupCredits(m)
  BY <1>5, ReversalRow
<1>8. ActiveCredits(allocations') = ActiveCredits(allocations) \cup GroupCredits(m)
  BY <1>1, <1>3, <1>4, <1>5, <1>6, <1>7 DEF ActiveCredits
<1> QED
  BY <1>2, <1>3, <1>4, <1>6, <1>8 DEF MovementsOf, ActiveCredits

\* A reversal takes its credit away, and nothing else.
LEMMA ReversedCredits ==
  ASSUME NEW allocs, allocs \subseteq Allocations, NEW r \in ActiveCredits(allocs)
  PROVE  ActiveCredits(allocs \cup {Reversal(r)}) = ActiveCredits(allocs) \ {r}
<1>1. \A q \in allocs : q \in Allocations /\ Reversal(q).kind = "REVERSAL"
  BY ReversalRow
<1>2. \A q \in ActiveCredits(allocs) : Reversal(q) = Reversal(r) => q = r
  BY <1>1, ReversalRow DEF ActiveCredits
<1>3. r \in allocs /\ Reversal(r).kind = "REVERSAL"
  BY <1>1 DEF ActiveCredits
<1> QED
  BY <1>1, <1>2, <1>3 DEF ActiveCredits

\* A credit is of a transfer to its attempt, for what the transfer is worth.
LEMMA CreditFacts ==
  ASSUME Journal, NEW r \in ActiveCredits(allocations)
  PROVE  /\ r \in Allocations /\ r \in allocations /\ r.kind = "CREDIT"
         /\ r.movement \in Sent /\ r.movement \in MovementsOf(ActiveCredits(allocations))
         /\ movements[r.movement].status = "CREDITED"
         /\ r.invoice = Invoice(r.movement) /\ r.invoice \in Invoices
         /\ r.fiat \in Nat /\ r.fiat = movements[r.movement].fiat
<1>1. r \in allocations /\ r.kind = "CREDIT" /\ r \in Allocations
  BY DEF ActiveCredits, Journal, JournalTypeOK
<1>2. r.movement \in Movements /\ r.invoice \in Invoices /\ r.fiat \in Nat
  BY <1>1 DEF Allocations
<1>3. movements[r.movement].status = "CREDITED" /\ r.movement \in Sent
  BY <1>1, <1>2 DEF Journal, Evidence
<1> QED
  BY <1>1, <1>2, <1>3 DEF MovementsOf, Journal, CreditsMatchEvidence

\* Two credits of one transfer are one.
LEMMA OneCreditEach ==
  ASSUME Journal, NEW q \in ActiveCredits(allocations), NEW r \in ActiveCredits(allocations),
         q.movement = r.movement
  PROVE  q = r
BY CreditFacts, ReversalRow
-----------------------------------------------------------------------------
(* What a step may do to the credits and to what is held.                   *)

LEMMA CreditsStep ==
  ASSUME Journal, [Next]_vars
  PROVE  \/ UNCHANGED allocations
         \/ \E m \in Movements, code \in ValidationCodes : CreditGroup(m, code)
         \/ \E r \in allocations : ReverseAllocation(r)
<1>1. ASSUME NEW m \in Movements, NEW code \in ValidationCodes, CreditMovement(m, code),
             ~CreditGroup(m, code)
      PROVE  UNCHANGED allocations
  BY <1>1 DEF CreditMovement, CreditReplay, Defer, RecoverRateLock, AwaitRate,
              HoldDust, HoldUnderMinimum, Hold
<1>2. CASE Ledger
  BY <1>1, <1>2 DEF Ledger, RecordObserved, RecordRejected
<1> QED
  BY <1>2, CheckoutFrame
  DEF Next, Environment, Tick, Transfer, RecordRate, vars, rows

LEMMA ChainKept ==
  ASSUME Journal, [Next]_vars, NEW m \in Sent
  PROVE  chain'[m] = chain[m] /\ m \in Sent'
<1>1. ASSUME NEW k \in TransferKinds, Transfer(k)
      PROVE  chain'[m] = chain[m]
  BY <1>1 DEF Transfer, Journal, JournalTypeOK, Sent
<1>2. UNCHANGED chain \/ \E k \in TransferKinds : Transfer(k)
  BY LedgerFrame, CheckoutFrame DEF Next, Environment, Tick, RecordRate, vars, world
<1> QED
  BY <1>1, <1>2 DEF Sent

\* A movement becomes held, or is held anew, by the decision about it alone.
LEMMA HeldStep ==
  ASSUME Journal, [Next]_vars, NEW k \in Movements, movements'[k].status = "HELD_UNDER_MINIMUM"
  PROVE  \/ IsHeld(k) /\ movements'[k] = movements[k]
         \/ \E code \in ValidationCodes : HoldDust(k, code) \/ HoldUnderMinimum(k, code)
<1>1. ASSUME UNCHANGED movements
      PROVE  IsHeld(k) /\ movements'[k] = movements[k]
  BY <1>1 DEF IsHeld
<1>2. \A m \in Movements : movements[m] \in [status: MovementStatuses, code: Codes,
                                           rate: Times \cup {NoTime}, fiat: Nat \cup {NoTime}]
  BY DEF Journal, JournalTypeOK
<1>3. ASSUME NEW m \in Movements, RecordObserved(m) \/ RecordRejected(m)
      PROVE  IsHeld(k) /\ movements'[k] = movements[k]
  <2>1. k # m /\ movements'[k] = movements[k]
    BY <1>2, <1>3 DEF RecordObserved, RecordRejected, Journal, JournalTypeOK
  <2> QED
    BY <2>1 DEF IsHeld
<1>4. ASSUME NEW m \in Movements, NEW code \in ValidationCodes,
             RecoverRateLock(m, code) \/ AwaitRate(m, code)
      PROVE  IsHeld(k) /\ movements'[k] = movements[k]
  <2>1. k # m /\ movements'[k] = movements[k]
    BY <1>2, <1>4 DEF RecoverRateLock, AwaitRate, Journal, JournalTypeOK
  <2> QED
    BY <2>1 DEF IsHeld
<1>5. ASSUME NEW m \in Movements, NEW code \in ValidationCodes,
             HoldDust(m, code) \/ HoldUnderMinimum(m, code), k # m
      PROVE  IsHeld(k) /\ movements'[k] = movements[k]
  <2>1. movements'[k] = movements[k]
    BY <1>5 DEF HoldDust, HoldUnderMinimum, Hold, Journal, JournalTypeOK
  <2> QED
    BY <2>1 DEF IsHeld
<1>6. ASSUME NEW m \in Movements, NEW code \in ValidationCodes, CreditGroup(m, code)
      PROVE  IsHeld(k) /\ movements'[k] = movements[k]
  <2>1. movements' = Claimed(m, code)
    BY <1>6, CreditGroupEffect
  <2>2. k \notin Group(m) /\ movements'[k] = movements[k]
    BY <2>1 DEF Claimed
  <2> QED
    BY <2>2 DEF IsHeld
<1>7. ASSUME NEW m \in Movements, NEW code \in ValidationCodes, CreditMovement(m, code)
      PROVE  \/ IsHeld(k) /\ movements'[k] = movements[k]
             \/ HoldDust(k, code) \/ HoldUnderMinimum(k, code)
  <2>1. CreditReplay(m, code) \/ Defer(m, code) => UNCHANGED movements
    BY DEF CreditReplay, Defer
  <2>2. k = m => (HoldDust(m, code) \/ HoldUnderMinimum(m, code)
                    => HoldDust(k, code) \/ HoldUnderMinimum(k, code))
    OBVIOUS
  <2> QED
    BY <1>1, <1>4, <1>5, <1>6, <1>7, <2>1, <2>2 DEF CreditMovement
<1>8. CASE Ledger
  BY <1>1, <1>3, <1>7, <1>8 DEF Ledger, ReverseAllocation
<1> QED
  BY <1>1, <1>8, CheckoutFrame, EnvironmentFrame DEF Next, vars, rows
-----------------------------------------------------------------------------
(* Credits follow the blockchain.                                           *)

\* What an attempt holds for later came after what was credited to it: else it
\* would have been credited, into recovery, and not held.
HeldAfterCredits ==
  \A k \in Sent : IsHeld(k) /\ movements[k].fiat > 0 =>
    \A r \in ActiveCredits(allocations) : r.invoice = Invoice(k) => Before(r.movement, k)

\* A decision that is not forced is about the last of the transfers.
LEMMA InOrder ==
  ASSUME Journal, NEW m \in Sent, movements[m].status # "CREDITED", ~OutOfOrder(m)
  PROVE  \A r \in ActiveCredits(allocations) : Before(r.movement, m)
<1> SUFFICES ASSUME NEW r \in ActiveCredits(allocations) PROVE Before(r.movement, m)
  OBVIOUS
<1>1. r.movement \in Sent /\ r.movement # m /\ r.movement \in CreditedMovements
  BY CreditFacts DEF CreditedMovements
<1>2. ~ Before(m, r.movement)
  BY <1>1 DEF OutOfOrder
<1> QED
  BY <1>1, <1>2, BeforeOrders DEF Journal

LEMMA HeldAfterCreditsStep ==
  ASSUME Journal, HeldAfterCredits, [Next]_vars
  PROVE  HeldAfterCredits'
<1> DEFINE after(k, r) == At(r.movement) < At(k) \/ (At(r.movement) = At(k) /\ r.movement < k)
<1>1. ASSUME NEW k \in Sent', (IsHeld(k) /\ movements[k].fiat > 0)'
      PROVE  k \in Sent /\ \A r \in ActiveCredits(allocations) : r.invoice = Invoice(k) => Before(r.movement, k)
  <2>1. k \in Movements /\ movements'[k].status = "HELD_UNDER_MINIMUM"
    BY <1>1 DEF Sent, IsHeld
  <2>2. CASE IsHeld(k) /\ movements'[k] = movements[k]
    <3>1. k \in Sent
      BY <2>1, <2>2 DEF Journal, Evidence, IsHeld
    <3> QED
      BY <1>1, <2>2, <3>1 DEF HeldAfterCredits
  <2>3. ASSUME NEW code \in ValidationCodes, HoldUnderMinimum(k, code)
        PROVE  k \in Sent /\ \A r \in ActiveCredits(allocations) : Before(r.movement, k)
    <3>1. k \in Sent /\ movements[k].status # "CREDITED"
      BY <2>3 DEF HoldUnderMinimum, Values, Decides, Accepts, Journaled
    <3>2. ~ OutOfOrder(k)
      BY <2>3 DEF HoldUnderMinimum, UnderMinimum, ForceRecovery
    <3> QED
      BY <3>1, <3>2, InOrder
  <2>4. ASSUME NEW code \in ValidationCodes, HoldDust(k, code)
        PROVE  FALSE
    <3>1. movements'[k].fiat = 0
      BY <2>1, <2>4 DEF HoldDust, Hold, Journal, JournalTypeOK
    <3> QED
      BY <1>1, <3>1
  <2> QED
    BY <2>1, <2>2, <2>3, <2>4, HeldStep
<1>2. ASSUME NEW k \in Sent', (IsHeld(k) /\ movements[k].fiat > 0)',
             NEW r \in ActiveCredits(allocations'), r \notin ActiveCredits(allocations)
      PROVE  r.invoice # Invoice(k)
  <2>1. PICK m \in Movements, code \in ValidationCodes : CreditGroup(m, code)
    <3>1. UNCHANGED allocations => FALSE
      BY <1>2
    <3>2. ASSUME NEW q \in allocations, ReverseAllocation(q)
          PROVE  FALSE
      BY <1>2, <3>2, ReversedCredits DEF ReverseAllocation, Journal, JournalTypeOK
    <3> QED
      BY <3>1, <3>2, CreditsStep
  <2>2. r \in GroupCredits(m) /\ r.invoice = Invoice(m)
    BY <1>2, <2>1, CreditGroupCredits DEF GroupCredits
  <2>3. k \notin Group(m) /\ movements'[k] = movements[k] /\ k \in Movements /\ k \in Sent
    <3>1. k \in Sent /\ k \in Movements
      BY <1>1, <1>2 DEF Sent
    <3>2. movements' = Claimed(m, code)
      BY <2>1, CreditGroupEffect
    <3> QED
      BY <1>2, <3>1, <3>2 DEF Claimed, IsHeld
  <2> QED
    BY <1>2, <2>2, <2>3 DEF Group, Held, IsHeld
<1>3. ASSUME NEW k \in Sent', (IsHeld(k) /\ movements[k].fiat > 0)',
             NEW r \in ActiveCredits(allocations'), r.invoice = Invoice(k)'
      PROVE  Before(r.movement, k)'
  <2>1. k \in Sent /\ chain'[k] = chain[k]
    BY <1>1, <1>3, ChainKept
  <2>2. r \in ActiveCredits(allocations) /\ Before(r.movement, k)
    BY <1>1, <1>2, <1>3, <2>1 DEF Invoice
  <2>3. r.movement \in Sent
    BY <2>2, CreditFacts
  <2> QED
    BY <2>1, <2>2, <2>3, ChainKept DEF Before, At
<1> QED
  BY <1>3 DEF HeldAfterCredits

LEMMA ForcedRecovers ==
  ASSUME NEW m, NEW code, CreditGroup(m, code), ForceRecovery(m)
  PROVE  order'.status = "RECOVERY"
<1>1. PICK allocs, adjs, revive : order' = SyncedOrder(allocs, adjs, TRUE, revive)
  BY DEF CreditGroup
<1> QED
  BY <1>1 DEF SyncedOrder

\* A credit that is booked after that of a later transfer leaves the order in
\* recovery, also when it was held in between (creditMovement, outOfOrderMovement).
THEOREM CreditsFollowChainHolds == Spec => CreditsFollowChain
<1> DEFINE Follows ==
      \A r \in ActiveCredits(allocations') \ allocations :
        (\E k \in CreditedMovements : Before(r.movement, k)) => order'.status = "RECOVERY"
<1>1. Init => HeldAfterCredits
  BY DEF Init, HeldAfterCredits, Sent
<1>2. HeldAfterCredits /\ Journal /\ [Next]_vars => HeldAfterCredits'
  BY HeldAfterCreditsStep
<1>3. HeldAfterCredits /\ Journal /\ [Next]_vars => Follows
  <2> SUFFICES ASSUME HeldAfterCredits, Journal, [Next]_vars,
                      NEW r \in ActiveCredits(allocations') \ allocations,
                      NEW j \in CreditedMovements, Before(r.movement, j)
               PROVE  order'.status = "RECOVERY"
    OBVIOUS
  <2>1. PICK m \in Movements, code \in ValidationCodes : CreditGroup(m, code)
    <3>1. allocations' # allocations
      BY DEF ActiveCredits
    <3>2. ASSUME NEW q \in allocations, ReverseAllocation(q)
          PROVE  FALSE
      BY <3>2, ReversedCredits DEF ReverseAllocation, Journal, JournalTypeOK, ActiveCredits
    <3> QED
      BY <3>1, <3>2, CreditsStep
  <2>2. r.movement \in Group(m)
    BY <2>1, CreditGroupCredits DEF GroupCredits, ActiveCredits
  <2>3. PICK c \in ActiveCredits(allocations) : c.movement = j
    BY DEF CreditedMovements, MovementsOf
  <2>4. r.movement \in Sent /\ j \in Sent /\ c.invoice \in Invoices
    BY <2>1, <2>2, <2>3, GroupFacts, CreditGroupEffect, CreditFacts
  <2>5. CASE r.movement = m
    BY <2>1, <2>5, ForcedRecovers DEF ForceRecovery, OutOfOrder
  <2>6. CASE c.invoice # Invoice(m)
    BY <2>1, <2>6, ForcedRecovers DEF ForceRecovery, MultipleFundedDeposits
  <2>7. CASE r.movement # m /\ c.invoice = Invoice(m)
    <3>1. r.movement \in Held(m)
      BY <2>2, <2>7 DEF Group
    <3>2. Before(j, r.movement)
      BY <2>3, <2>4, <2>7, <3>1 DEF HeldAfterCredits, Held
    <3> QED
      BY <2>4, <3>2, BeforeOrders DEF Journal
  <2> QED
    BY <2>5, <2>6, <2>7
<1> QED
  BY <1>1, <1>2, <1>3, JournalCorrect, PTL DEF Spec, CreditsFollowChain
-----------------------------------------------------------------------------
(* Sums of credits and of discounts.                                        *)

\* A finite set of rows with amounts.
Amounts(S) == IsFiniteSet(S) /\ \A r \in S : r.fiat \in Nat

LEMMA TotalIsSum ==
  ASSUME NEW S, NEW T \in SUBSET S
  PROVE  Total(T) = SumFunctionOnSet([r \in T |-> r.fiat], T)
BY DEF Total, SumFunction

LEMMA TotalFacts ==
  ASSUME NEW S, Amounts(S)
  PROVE  /\ Total(S) \in Nat
         /\ S = {} => Total(S) = 0
         /\ \A T \in SUBSET S : Amounts(T) /\ Total(T) \in Nat /\ Total(T) <= Total(S)
         /\ \A x \in S : x.fiat \in Nat /\ Total(S) = Total(S \ {x}) + x.fiat
<1> DEFINE f == [r \in S |-> r.fiat]
<1>1. IsFiniteSet(S) /\ \A r \in S : f[r] = r.fiat /\ f[r] \in Nat /\ f[r] \in Int
  BY DEF Amounts
<1>2. ASSUME NEW T \in SUBSET S
      PROVE  IsFiniteSet(T) /\ Total(T) = SumFunctionOnSet(f, T)
  <2> DEFINE g == [r \in T |-> r.fiat]
  <2>1. IsFiniteSet(T) /\ Total(T) = SumFunctionOnSet(g, T)
    BY <1>1, FS_Subset, TotalIsSum
  <2>2. \A r \in T : g[r] = f[r]
    OBVIOUS
  <2> HIDE DEF f, g
  <2> QED
    BY <2>1, <2>2, SumAgrees
<1> HIDE DEF f
<1>3. ASSUME NEW T \in SUBSET S
      PROVE  Amounts(T) /\ Total(T) \in Nat /\ Total(T) <= Total(S)
  BY <1>1, <1>2, SumGrows DEF Amounts
<1>4. ASSUME NEW x \in S
      PROVE  x.fiat \in Nat /\ Total(S) = Total(S \ {x}) + x.fiat
  BY <1>1, <1>2, SumAdds
<1>5. S = {} => Total(S) = 0
  BY <1>2, SumOfNone
<1> QED
  BY <1>3, <1>4, <1>5

\* Rows that are worth nothing in sum are worth nothing each.
LEMMA TotalOfNothing ==
  ASSUME NEW S, Amounts(S), Total(S) = 0, NEW r \in S
  PROVE  r.fiat = 0
<1>1. Total(S) = Total(S \ {r}) + r.fiat /\ Total(S \ {r}) \in Nat /\ r.fiat \in Nat
  BY TotalFacts
<1> QED
  BY <1>1

\* The image of a finite set is finite.
LEMMA FiniteImage ==
  ASSUME NEW S, IsFiniteSet(S), NEW f
  PROVE  IsFiniteSet({f[x] : x \in S})
<1> DEFINE T == {f[x] : x \in S}
           g == [x \in S |-> f[x]]
<1>1. g \in Surjection(S, T)
  BY DEF Surjection
<1> QED
  BY <1>1, FS_Surjection
-----------------------------------------------------------------------------
(* The types of the order's rows.                                           *)

OrderRows == [status: OrderStatuses, credited: Nat, overpayment: Nat,
              discount: Nat, paidAt: Times \cup {NoTime}]

Finite == IsFiniteSet(Sent) /\ IsFiniteSet(allocations) /\ IsFiniteSet(adjustments)
Typed  == TypeOK /\ Finite

LEMMA LockTyped ==
  ASSUME invoices \in [Invoices -> InvoiceRows], NEW i \in Invoices
  PROVE  LockSelection(i) \in [Invoices -> InvoiceRows]
<1>1. PICK x : x = invoices[i]
  OBVIOUS
<1>2. x \in InvoiceRows
  BY <1>1
<1>3. [x EXCEPT !.lockedAsset = IF @ = "NONE" THEN x.asset ELSE @] \in InvoiceRows
  BY <1>2 DEF InvoiceRows
<1>4. LockSelection(i) = [j \in Invoices |-> IF j = i
        THEN [x EXCEPT !.lockedAsset = IF @ = "NONE" THEN x.asset ELSE @] ELSE invoices[j]]
  BY <1>1 DEF LockSelection
<1> QED
  BY <1>3, <1>4

\* Rows of the append-only tables that syncOrderAccounting can sum up.
Sums(allocs, adjs) ==
  /\ allocs \subseteq Allocations /\ IsFiniteSet(allocs)
  /\ adjs \subseteq Adjustments /\ IsFiniteSet(adjs)
  /\ MovementsOf(ActiveCredits(allocs)) \subseteq Sent

LEMMA SumsType ==
  ASSUME NEW allocs, NEW adjs, Sums(allocs, adjs)
  PROVE  /\ Amounts(ActiveCredits(allocs)) /\ NetCredit(allocs) \in Nat
         /\ Amounts(ActiveDiscounts(adjs)) /\ NetDiscount(adjs) \in Nat
         /\ \A i : /\ Amounts(CreditsOf(allocs, i)) /\ Total(CreditsOf(allocs, i)) \in Nat
                   /\ Total(CreditsOf(allocs, i)) <= NetCredit(allocs)
                   /\ MovementsOf(CreditsOf(allocs, i)) \subseteq Sent
<1>1. Amounts(ActiveCredits(allocs))
  BY FS_Subset DEF Sums, Amounts, ActiveCredits, Allocations
<1>2. Amounts(ActiveDiscounts(adjs))
  BY FS_Subset DEF Sums, Amounts, ActiveDiscounts, Adjustments
<1>3. \A i : CreditsOf(allocs, i) \in SUBSET ActiveCredits(allocs)
  BY DEF CreditsOf
<1>4. \A i : MovementsOf(CreditsOf(allocs, i)) \subseteq Sent
  BY <1>3 DEF Sums, MovementsOf
<1> QED
  BY <1>1, <1>2, <1>3, <1>4, TotalFacts DEF NetCredit, NetDiscount

\* syncOrderAccounting and syncInvoiceAccounting write rows of their types.
LEMMA SyncedOrderTyped ==
  ASSUME JournalTypeOK, order \in OrderRows, NEW allocs, NEW adjs, Sums(allocs, adjs),
         NEW forced \in BOOLEAN, NEW revive \in BOOLEAN,
         forced \/ ActiveCredits(allocs) # {}
  PROVE  SyncedOrder(allocs, adjs, forced, revive) \in OrderRows
<1> DEFINE net == NetCredit(allocs)
           discount == NetDiscount(adjs)
           credits == ActiveCredits(allocs)
           ord == SyncedOrder(allocs, adjs, forced, revive)
<1>1. net \in Nat /\ discount \in Nat /\ Obligation \in Nat
  BY SumsType, StateAssumption
<1>2. ASSUME ~ forced
      PROVE  PaidBy(credits) \in Sent
  <2>1. MovementsOf(credits) \subseteq Sent /\ MovementsOf(credits) # {}
    BY <1>2 DEF Sums, MovementsOf
  <2>2. IsFiniteSet(MovementsOf(credits))
    <3> DEFINE f == [r \in credits |-> r.movement]
    <3>1. IsFiniteSet({f[r] : r \in credits})
      BY SumsType, FiniteImage DEF Amounts
    <3>2. MovementsOf(credits) = {f[r] : r \in credits}
      BY DEF MovementsOf
    <3> QED
      BY <3>1, <3>2
  <2>3. Latest(MovementsOf(credits)) \in Sent
    BY <2>1, <2>2, LatestLast
  <2>4. CoveringMovements(credits, Obligation) \subseteq Sent
    BY <2>1 DEF CoveringMovements
  <2> HIDE DEF credits
  <2> QED
    BY <2>3, <2>4, EarliestFirst DEF PaidBy
<1>3. /\ ord.status \in {"RECOVERY", "PAID", "PARTIAL", "PENDING"}
      /\ ord.status = "PAID" => ~ forced
      /\ ord = [status |-> ord.status,
                credited |-> IF net < Obligation THEN net ELSE Obligation,
                overpayment |-> IF net > Obligation THEN net - Obligation ELSE 0,
                discount |-> discount,
                paidAt |-> IF ord.status = "PAID" THEN At(PaidBy(credits)) ELSE order.paidAt]
  BY DEF SyncedOrder, Overpaid
<1>4. ord.status = "PAID" => At(PaidBy(credits)) \in Times
  BY <1>2, <1>3, SentFacts
<1>5. order.paidAt \in Times \cup {NoTime}
  BY DEF OrderRows
<1> HIDE DEF net, discount, credits, ord
<1> DEFINE c == IF net < Obligation THEN net ELSE Obligation
           o == IF net > Obligation THEN net - Obligation ELSE 0
           p == IF ord.status = "PAID" THEN At(PaidBy(credits)) ELSE order.paidAt
<1>6. c \in Nat /\ o \in Nat /\ p \in Times \cup {NoTime} /\ ord.status \in OrderStatuses
  BY <1>1, <1>3, <1>4, <1>5 DEF OrderStatuses
<1>7. ord = [status |-> ord.status, credited |-> c, overpayment |-> o,
             discount |-> discount, paidAt |-> p]
  BY <1>3
<1> HIDE DEF c, o, p
<1>8. ord \in OrderRows
  BY <1>1, <1>6, <1>7 DEF OrderRows
<1> QED
  BY <1>8 DEF ord

LEMMA SyncedInvoiceTyped ==
  ASSUME JournalTypeOK, invoices \in [Invoices -> InvoiceRows], NEW i \in Invoices,
         NEW allocs, NEW adjs, Sums(allocs, adjs), NEW status \in InvoiceStatuses
  PROVE  SyncedInvoice(i, allocs, adjs, status) \in InvoiceRows
<1> DEFINE credits == CreditsOf(allocs, i)
           net == Total(credits)
           effective == net + NetDiscount(adjs)
           firstAt == IF credits = {} THEN invoices[i].firstAt
                      ELSE At(Earliest(MovementsOf(credits)))
           window == IF firstAt = NoTime THEN invoices[i].partialExpiresAt
                     ELSE firstAt + PartialTtl
           capped == IF net < Obligation THEN net ELSE Obligation
<1>1. PICK x : x = LockSelection(i)[i]
  OBVIOUS
<1>2. /\ x \in InvoiceRows
      /\ invoices[i].firstAt \in Times \cup {NoTime}
      /\ invoices[i].partialExpiresAt \in Nat \cup {NoTime}
  BY <1>1, LockTyped DEF InvoiceRows
<1>3. net \in Nat /\ capped \in Nat
  BY SumsType, StateAssumption
<1>4. firstAt \in Times \cup {NoTime}
  <2>1. ASSUME credits # {}
        PROVE  At(Earliest(MovementsOf(credits))) \in Times
    <3>1. MovementsOf(credits) \subseteq Sent /\ MovementsOf(credits) # {}
      BY <2>1, SumsType DEF MovementsOf
    <3> HIDE DEF credits
    <3> QED
      BY <3>1, EarliestFirst, SentFacts
  <2> QED
    BY <1>2, <2>1
<1> HIDE DEF firstAt
<1>5. window \in Nat \cup {NoTime}
  BY <1>2, <1>4, StateAssumption DEF Times
<1>6. SyncedInvoice(i, allocs, adjs, status) =
        [x EXCEPT !.status = status, !.credited = capped, !.firstAt = firstAt,
           !.partialExpiresAt = IF effective \in 1..(Obligation - 1) THEN window ELSE @]
  BY <1>1 DEF SyncedInvoice, firstAt
<1> HIDE DEF capped, effective, window
<1>7. [x EXCEPT !.status = status, !.credited = capped, !.firstAt = firstAt,
         !.partialExpiresAt = IF effective \in 1..(Obligation - 1) THEN window ELSE @]
        \in InvoiceRows
  BY <1>2, <1>3, <1>4, <1>5 DEF InvoiceRows
<1> QED
  BY <1>6, <1>7
-----------------------------------------------------------------------------
(* What the two outcomes of creditMovement that settle write.               *)

Discount(i, allocs) == [kind |-> "DISCOUNT", invoice |-> i, fiat |-> Obligation - NetCredit(allocs)]

LEMMA DiscountReversed ==
  ASSUME NEW adjs, adjs \subseteq Adjustments, IsFiniteSet(adjs)
  PROVE  /\ ReverseDiscounts(adjs) \subseteq Adjustments /\ IsFiniteSet(ReverseDiscounts(adjs))
         /\ ActiveDiscounts(ReverseDiscounts(adjs)) = {}
         /\ adjs \subseteq ReverseDiscounts(adjs)
         /\ adjs = {} => ReverseDiscounts(adjs) = {}
<1> DEFINE reversals == {Reversal(d) : d \in ActiveDiscounts(adjs)}
           f == [d \in ActiveDiscounts(adjs) |-> Reversal(d)]
<1>1. IsFiniteSet(reversals)
  <2>1. reversals = {f[d] : d \in ActiveDiscounts(adjs)}
    OBVIOUS
  <2>2. IsFiniteSet(ActiveDiscounts(adjs))
    BY FS_Subset DEF ActiveDiscounts
  <2>3. IsFiniteSet({f[d] : d \in ActiveDiscounts(adjs)})
    <3> HIDE DEF f
    <3> QED
      BY <2>2, FiniteImage
  <2> QED
    BY <2>1, <2>3
<1>2. \A d \in Adjustments : Reversal(d) \in Adjustments /\ Reversal(d).kind = "REVERSAL"
  BY DEF Adjustments, Reversal
<1>3. ReverseDiscounts(adjs) = adjs \cup reversals
  BY DEF ReverseDiscounts
<1>4. reversals \subseteq Adjustments /\ \A d \in reversals : d.kind = "REVERSAL"
  BY <1>2 DEF ActiveDiscounts
<1>5. \A d \in ActiveDiscounts(adjs) : Reversal(d) \in reversals
  OBVIOUS
<1> HIDE DEF reversals
<1>6. IsFiniteSet(ReverseDiscounts(adjs))
  BY <1>1, <1>3, FS_Union
<1>7. ActiveDiscounts(ReverseDiscounts(adjs)) = {}
  BY <1>3, <1>4, <1>5 DEF ActiveDiscounts
<1>8. adjs = {} => ReverseDiscounts(adjs) = {}
  BY DEF ReverseDiscounts, ActiveDiscounts
<1> QED
  BY <1>3, <1>4, <1>6, <1>7, <1>8

LEMMA DiscountAdded ==
  ASSUME NEW adjs, adjs \subseteq Adjustments, IsFiniteSet(adjs), NEW i \in Invoices,
         NEW allocs, NetCredit(allocs) \in (Obligation - GramDiscount)..(Obligation - 1)
  PROVE  /\ Discounted(i, allocs, adjs) = adjs \cup {Discount(i, allocs)}
         /\ Discounted(i, allocs, adjs) \subseteq Adjustments
         /\ IsFiniteSet(Discounted(i, allocs, adjs))
         /\ adjs = {} => /\ ActiveDiscounts(Discounted(i, allocs, adjs)) = {Discount(i, allocs)}
                         /\ NetDiscount(Discounted(i, allocs, adjs)) = Obligation - NetCredit(allocs)
<1> DEFINE d == Discount(i, allocs)
           n == Obligation - NetCredit(allocs)
<1>1. n \in Nat /\ n > 0
  BY StateAssumption
<1>2. d = [kind |-> "DISCOUNT", invoice |-> i, fiat |-> n]
  BY DEF Discount
<1> HIDE DEF n
<1>3. d \in Adjustments /\ d.fiat = n /\ d.kind = "DISCOUNT" /\ Reversal(d) # d
  BY <1>1, <1>2 DEF Adjustments, Reversal
<1>4. Discounted(i, allocs, adjs) = adjs \cup {d}
  BY DEF Discounted, Discount
<1> HIDE DEF d
<1>5. IsFiniteSet(adjs \cup {d})
  BY FS_AddElement
<1>6. ASSUME adjs = {}
      PROVE  ActiveDiscounts(adjs \cup {d}) = {d} /\ NetDiscount(adjs \cup {d}) = n
  <2>1. ActiveDiscounts(adjs \cup {d}) = {d}
    BY <1>3, <1>6 DEF ActiveDiscounts
  <2>2. Amounts({d})
    BY <1>1, <1>3, FS_Singleton DEF Amounts
  <2>3. Total({d}) = Total({d} \ {d}) + d.fiat /\ Total({}) = 0
    BY <2>2, TotalFacts
  <2>4. {d} \ {d} = {}
    OBVIOUS
  <2> QED
    BY <1>1, <1>3, <2>1, <2>3, <2>4 DEF NetDiscount
<1> QED
  BY <1>3, <1>4, <1>5, <1>6 DEF d, n

Kept(m)  == IF GramGroup(m) = Group(m) THEN adjustments ELSE ReverseDiscounts(adjustments)
Earns(m) == /\ ~ ForceRecovery(m) /\ Unresolved \subseteq {m}
            /\ EarnsDiscount(allocations', Kept(m))
Revives(m) == order.status = "EXPIRED" /\ ~ Late(m) /\ ~ ConflictingAttempt(m)

LEMMA CreditGroupWrites ==
  ASSUME NEW m, NEW code, CreditGroup(m, code)
  PROVE  /\ adjustments' = IF Earns(m) THEN Discounted(Invoice(m), allocations', Kept(m)) ELSE Kept(m)
         /\ order' = SyncedOrder(allocations', adjustments', ForceRecovery(m), Revives(m))
         /\ invoices' = [invoices EXCEPT ![Invoice(m)] =
              SyncedInvoice(Invoice(m), allocations', adjustments',
                IF ForceRecovery(m) THEN RecoveredStatus(Invoice(m))
                ELSE SettledStatus(Invoice(m), allocations', order'.status))]
BY DEF CreditGroup, Earns, Kept, Revives

\* A replay that grants the discount.
Grants(m) ==
  /\ order.status \in ActiveStatuses /\ Active(Invoice(m))
  /\ \A r \in ActiveCredits(allocations) : r.invoice = Invoice(m)
  /\ EarnsDiscount(allocations, adjustments)
  /\ adjustments' = Discounted(Invoice(m), allocations, adjustments)
  /\ order' = SyncedOrder(allocations, adjustments', FALSE, FALSE)
  /\ invoices' = [invoices EXCEPT ![Invoice(m)] =
       SyncedInvoice(Invoice(m), allocations, adjustments',
         SettledStatus(Invoice(m), allocations, order'.status))]

LEMMA CreditReplayWrites ==
  ASSUME NEW m, NEW code, CreditReplay(m, code)
  PROVE  /\ UNCHANGED allocations
         /\ Grants(m) \/ (invoices' = LockSelection(Invoice(m)) /\ UNCHANGED <<adjustments, order>>)
BY DEF CreditReplay, Grants

\* A step that writes nothing of the account, and freezes at most a selection.
Quiet ==
  /\ UNCHANGED <<allocations, adjustments, order>>
  /\ UNCHANGED invoices \/ \E m \in Sent : invoices' = LockSelection(Invoice(m))

\* What a transaction of the ledger makes of the account.
LEMMA LedgerWrites ==
  ASSUME Ledger
  PROVE  \/ Quiet
         \/ \E m \in Sent : Grants(m) /\ UNCHANGED allocations
         \/ \E m \in Movements, code \in ValidationCodes : CreditGroup(m, code)
         \/ \E r \in allocations : ReverseAllocation(r)
<1>1. ASSUME NEW m \in Movements, RecordObserved(m) \/ RecordRejected(m)
      PROVE  Quiet
  BY <1>1 DEF RecordObserved, RecordRejected, Quiet
<1>2. ASSUME NEW m \in Movements, NEW code \in ValidationCodes, CreditMovement(m, code)
      PROVE  Quiet \/ (Grants(m) /\ UNCHANGED allocations) \/ CreditGroup(m, code)
  <2>1. m \in Sent
    BY <1>2 DEF CreditMovement, CreditReplay, Defer, RecoverRateLock, AwaitRate, HoldDust,
                HoldUnderMinimum, CreditGroup, Values, Decides, Accepts, Journaled
  <2>2. CASE CreditReplay(m, code)
    BY <2>1, <2>2, CreditReplayWrites DEF Quiet
  <2>3. CASE Defer(m, code) \/ RecoverRateLock(m, code) \/ AwaitRate(m, code)
    BY <2>1, <2>3 DEF Defer, RecoverRateLock, AwaitRate, Quiet
  <2>4. CASE HoldDust(m, code) \/ HoldUnderMinimum(m, code)
    BY <2>1, <2>4 DEF HoldDust, HoldUnderMinimum, Hold, Quiet
  <2> QED
    BY <1>2, <2>2, <2>3, <2>4 DEF CreditMovement
<1>3. ASSUME NEW m \in Movements, NEW code \in ValidationCodes, CreditMovement(m, code)
      PROVE  m \in Sent
  BY <1>3 DEF CreditMovement, CreditReplay, Defer, RecoverRateLock, AwaitRate, HoldDust,
              HoldUnderMinimum, CreditGroup, Values, Decides, Accepts, Journaled
<1> QED
  BY <1>1, <1>2, <1>3 DEF Ledger

\* The tables can be summed up, before and after such a transaction.
LEMMA SumsNow ==
  ASSUME Journal, Typed
  PROVE  Sums(allocations, adjustments)
<1>1. \A r \in ActiveCredits(allocations) : r.movement \in Sent
  BY CreditFacts
<1> QED
  BY <1>1 DEF Sums, Typed, TypeOK, Finite, Journal, JournalTypeOK, MovementsOf

LEMMA SumsAfterGrant ==
  ASSUME Journal, Typed, NEW m \in Sent, Grants(m)
  PROVE  Sums(allocations, adjustments') /\ ActiveCredits(allocations) # {}
<1>1. NetCredit(allocations) \in (Obligation - GramDiscount)..(Obligation - 1)
  BY DEF Grants, EarnsDiscount
<1>2. Invoice(m) \in Invoices
  BY AttemptOfSent DEF Journal
<1>3. adjustments' \subseteq Adjustments /\ IsFiniteSet(adjustments')
  BY <1>1, <1>2, SumsNow, DiscountAdded DEF Sums, Grants
<1> QED
  BY <1>3, SumsNow DEF Sums, Grants, EarnsDiscount

LEMMA SumsAfterGroup ==
  ASSUME Journal, Typed, NEW m \in Movements, NEW code, CreditGroup(m, code)
  PROVE  /\ m \in Sent /\ Invoice(m) \in Invoices
         /\ Sums(allocations', Kept(m)) /\ Sums(allocations', adjustments')
         /\ ActiveCredits(allocations') # {}
<1>1. /\ m \in Sent /\ Invoice(m) \in Invoices
      /\ Group(m) \subseteq Sent /\ m \in Group(m)
      /\ allocations' = allocations \cup GroupCredits(m)
  BY CreditGroupEffect, GroupFacts, AttemptOfSent DEF GroupCredits, Journal
<1>2. IsFiniteSet(GroupCredits(m))
  <2> DEFINE f == [k \in Group(m) |-> [kind |-> "CREDIT", movement |-> k,
                                       invoice |-> Invoice(m), fiat |-> GroupFiat(m, k)]]
  <2>1. GroupCredits(m) = {f[k] : k \in Group(m)}
    BY DEF GroupCredits
  <2>2. IsFiniteSet(Group(m))
    BY <1>1, FS_Subset DEF Typed, Finite
  <2>3. IsFiniteSet({f[k] : k \in Group(m)})
    <3> HIDE DEF f
    <3> QED
      BY <2>2, FiniteImage
  <2> QED
    BY <2>1, <2>3
<1>3. IsFiniteSet(allocations') /\ allocations' \subseteq Allocations
  BY <1>1, <1>2, SumsNow, CreditGroupCredits, FS_Union DEF Sums
<1>4. /\ MovementsOf(ActiveCredits(allocations')) \subseteq Sent
      /\ ActiveCredits(allocations') # {}
  <2>1. ActiveCredits(allocations') = ActiveCredits(allocations) \cup GroupCredits(m)
    BY CreditGroupCredits
  <2>2. GroupCredits(m) # {} /\ \A r \in GroupCredits(m) : r.movement \in Sent
    <3>1. \A r \in GroupCredits(m) : r.movement \in Group(m)
      BY DEF GroupCredits
    <3>2. [kind |-> "CREDIT", movement |-> m, invoice |-> Invoice(m), fiat |-> GroupFiat(m, m)]
            \in GroupCredits(m)
      BY <1>1 DEF GroupCredits
    <3> QED
      BY <1>1, <3>1, <3>2
  <2>3. \A r \in ActiveCredits(allocations) : r.movement \in Sent
    BY CreditFacts
  <2> QED
    BY <2>1, <2>2, <2>3 DEF MovementsOf
<1>5. Sums(allocations', Kept(m))
  BY <1>3, <1>4, SumsNow, DiscountReversed DEF Sums, Kept
<1>6. adjustments' \subseteq Adjustments /\ IsFiniteSet(adjustments')
  <2>1. Earns(m) => NetCredit(allocations') \in (Obligation - GramDiscount)..(Obligation - 1)
    BY DEF Earns, EarnsDiscount
  <2>2. Kept(m) \subseteq Adjustments /\ IsFiniteSet(Kept(m))
    BY <1>5 DEF Sums
  <2>3. CASE Earns(m)
    <3>1. adjustments' = Discounted(Invoice(m), allocations', Kept(m))
      BY <2>3, CreditGroupWrites
    <3> QED
      BY <1>1, <2>1, <2>2, <2>3, <3>1, DiscountAdded
  <2>4. CASE ~ Earns(m)
    BY <2>2, <2>4, CreditGroupWrites
  <2> QED
    BY <2>3, <2>4
<1> QED
  BY <1>1, <1>3, <1>4, <1>5, <1>6 DEF Sums

LEMMA SumsAfterReversal ==
  ASSUME Journal, Typed, NEW r \in allocations, ReverseAllocation(r)
  PROVE  /\ r.invoice \in Invoices
         /\ Sums(allocations', adjustments')
         /\ ActiveCredits(allocations') = ActiveCredits(allocations) \ {r}
<1>1. /\ allocations' = allocations \cup {Reversal(r)}
      /\ adjustments' = ReverseDiscounts(adjustments)
      /\ r \in ActiveCredits(allocations)
  BY DEF ReverseAllocation
<1>2. r.invoice \in Invoices /\ Reversal(r) \in Allocations
  BY <1>1, CreditFacts, ReversalRow
<1>3. ActiveCredits(allocations') = ActiveCredits(allocations) \ {r}
  BY <1>1, SumsNow, ReversedCredits DEF Sums
<1>4. MovementsOf(ActiveCredits(allocations')) \subseteq Sent
  BY <1>3, SumsNow DEF Sums, MovementsOf
<1>5. IsFiniteSet(allocations') /\ allocations' \subseteq Allocations
  BY <1>1, <1>2, SumsNow, FS_AddElement DEF Sums
<1> QED
  BY <1>1, <1>2, <1>3, <1>4, <1>5, SumsNow, DiscountReversed DEF Sums

\* The types of what the ledger and the checkout write.
RowsTyped ==
  /\ adjustments \subseteq Adjustments /\ IsFiniteSet(adjustments) /\ IsFiniteSet(allocations)
  /\ order \in OrderRows
  /\ invoices \in [Invoices -> InvoiceRows]

LEMMA LedgerTyped ==
  ASSUME Journal, Typed, Ledger
  PROVE  RowsTyped'
<1>1. /\ order \in OrderRows /\ invoices \in [Invoices -> InvoiceRows]
      /\ adjustments \subseteq Adjustments /\ IsFiniteSet(adjustments)
      /\ IsFiniteSet(allocations)
      /\ JournalTypeOK
  BY DEF Typed, TypeOK, Finite, OrderRows
<1>2. \A i, allocs, status : SettledStatus(i, allocs, status) \in InvoiceStatuses
  BY DEF SettledStatus, InvoiceStatuses
<1>3. \A i \in Invoices : RecoveredStatus(i) \in InvoiceStatuses
  <2>1. \A i \in Invoices : invoices[i].status \in InvoiceStatuses
    BY <1>1 DEF InvoiceRows
  <2> QED
    BY <2>1 DEF RecoveredStatus, InvoiceStatuses
<1>4. ASSUME NEW i \in Invoices, NEW row \in InvoiceRows, invoices' = [invoices EXCEPT ![i] = row]
      PROVE  invoices' \in [Invoices -> InvoiceRows]
  BY <1>1, <1>4
<1>5. CASE Quiet
  <2>1. invoices' \in [Invoices -> InvoiceRows]
    BY <1>1, <1>5, LockTyped, AttemptOfSent DEF Quiet
  <2> QED
    BY <1>1, <1>5, <2>1 DEF Quiet, RowsTyped
<1>6. ASSUME NEW m \in Sent, Grants(m), UNCHANGED allocations
      PROVE  RowsTyped'
  <2>1. Sums(allocations, adjustments') /\ ActiveCredits(allocations) # {}
    BY <1>6, SumsAfterGrant
  <2>2. Invoice(m) \in Invoices
    BY <1>1, AttemptOfSent
  <2>3. order' \in OrderRows
    BY <1>1, <1>6, <2>1, SyncedOrderTyped DEF Grants
  <2>4. PICK status \in InvoiceStatuses : invoices' = [invoices EXCEPT ![Invoice(m)] =
          SyncedInvoice(Invoice(m), allocations, adjustments', status)]
    BY <1>2, <1>6 DEF Grants
  <2>5. SyncedInvoice(Invoice(m), allocations, adjustments', status) \in InvoiceRows
    BY <1>1, <2>1, <2>2, SyncedInvoiceTyped
  <2>6. invoices' \in [Invoices -> InvoiceRows]
    BY <1>4, <2>2, <2>4, <2>5
  <2> QED
    BY <1>1, <1>6, <2>1, <2>3, <2>6 DEF Sums, RowsTyped
<1>7. ASSUME NEW m \in Movements, NEW code \in ValidationCodes, CreditGroup(m, code)
      PROVE  RowsTyped'
  <2>1. /\ Invoice(m) \in Invoices /\ Sums(allocations', adjustments')
        /\ ActiveCredits(allocations') # {}
    BY <1>7, SumsAfterGroup
  <2>2. order' \in OrderRows
    <3>1. ForceRecovery(m) \in BOOLEAN /\ Revives(m) \in BOOLEAN
      BY DEF ForceRecovery, Revives, Late, PostPaid, OutOfOrder, ConflictingAttempt,
             MultipleFundedDeposits
    <3>2. order' = SyncedOrder(allocations', adjustments', ForceRecovery(m), Revives(m))
      BY <1>7, CreditGroupWrites
    <3> QED
      BY <1>1, <2>1, <3>1, <3>2, SyncedOrderTyped
  <2>3. PICK status \in InvoiceStatuses : invoices' = [invoices EXCEPT ![Invoice(m)] =
          SyncedInvoice(Invoice(m), allocations', adjustments', status)]
    BY <1>2, <1>3, <1>7, <2>1, CreditGroupWrites
  <2>4. SyncedInvoice(Invoice(m), allocations', adjustments', status) \in InvoiceRows
    BY <1>1, <2>1, SyncedInvoiceTyped
  <2>5. invoices' \in [Invoices -> InvoiceRows]
    BY <1>4, <2>1, <2>3, <2>4
  <2> QED
    BY <2>1, <2>2, <2>5 DEF Sums, RowsTyped
<1>8. ASSUME NEW r \in allocations, ReverseAllocation(r)
      PROVE  RowsTyped'
  <2>1. r.invoice \in Invoices /\ Sums(allocations', adjustments')
    BY <1>8, SumsAfterReversal
  <2>2. /\ order' = SyncedOrder(allocations', adjustments', TRUE, FALSE)
        /\ invoices' = [invoices EXCEPT ![r.invoice] =
             SyncedInvoice(r.invoice, allocations', adjustments', "FAILED")]
    BY <1>8 DEF ReverseAllocation
  <2>3. order' \in OrderRows
    BY <1>1, <2>1, <2>2, SyncedOrderTyped
  <2>4. SyncedInvoice(r.invoice, allocations', adjustments', "FAILED") \in InvoiceRows
    BY <1>1, <2>1, SyncedInvoiceTyped DEF InvoiceStatuses
  <2>5. invoices' \in [Invoices -> InvoiceRows]
    BY <1>4, <2>1, <2>2, <2>4
  <2> QED
    BY <2>1, <2>3, <2>5 DEF Sums, RowsTyped
<1> QED
  BY <1>5, <1>6, <1>7, <1>8, LedgerWrites

LEMMA NewInvoiceTyped ==
  ASSUME NEW a \in Assets, NEW t \in Nat
  PROVE  NewInvoice(a, t) \in InvoiceRows
<1>1. t + InvoiceTtl \in Nat
  BY StateAssumption
<1> QED
  BY <1>1 DEF NewInvoice, InvoiceRows, InvoiceStatuses

\* The sum that an expiry reads.
LEMMA AttemptCreditType ==
  ASSUME invoices \in [Invoices -> InvoiceRows]
  PROVE  AttemptCredit \in 0..Obligation
<1> DEFINE f == [j \in Invoices |-> invoices[j].credited]
<1>1. \A j \in Invoices : f[j] \in Nat
  BY DEF InvoiceRows
<1>2. SumFunction(f) = SumFunctionOnSet(f, Invoices)
  BY DEF SumFunction
<1>3. SumFunctionOnSet(f, Invoices) \in Nat
  <2> HIDE DEF f
  <2> QED
    BY <1>1, SumGrows, StateAssumption
<1> QED
  BY <1>2, <1>3, StateAssumption DEF AttemptCredit

LEMMA CheckoutTyped ==
  ASSUME Journal, Typed, Checkout
  PROVE  RowsTyped' /\ checkout' \in {"IDLE", "CHECKED"} /\ expiry' \in Expiries \cup {NoExpiry}
<1>1. /\ order \in OrderRows /\ invoices \in [Invoices -> InvoiceRows]
      /\ adjustments \subseteq Adjustments /\ IsFiniteSet(adjustments)
      /\ allocations \subseteq Allocations /\ IsFiniteSet(allocations)
      /\ checkout \in {"IDLE", "CHECKED"} /\ expiry \in Expiries \cup {NoExpiry}
      /\ now \in Times
  BY DEF Typed, TypeOK, Finite, OrderRows, JournalTypeOK
<1>2. UNCHANGED <<allocations, adjustments>>
  BY CheckoutFrame
<1>3. ASSUME NEW i \in Invoices, NEW row \in InvoiceRows, invoices' = [invoices EXCEPT ![i] = row]
      PROVE  invoices' \in [Invoices -> InvoiceRows]
  BY <1>1, <1>3
<1>4. CASE CheckNewAttempt \/ CreateAttemptFails \/ AbortExpiry
  BY <1>1, <1>2, <1>4
  DEF CheckNewAttempt, CreateAttemptFails, AbortExpiry, RowsTyped, rows
<1>5. ASSUME NEW i \in Invoices, NEW asset \in CheckoutAssets, CreateAttempt(i, asset)
      PROVE  RowsTyped' /\ checkout' = "IDLE" /\ expiry' = expiry
  <2>1. NewInvoice(asset, now) \in InvoiceRows
    BY <1>1, StateAssumption, NewInvoiceTyped DEF Times
  <2>2. invoices' = [invoices EXCEPT ![i] = NewInvoice(asset, now)]
    BY <1>5 DEF CreateAttempt
  <2>3. invoices' \in [Invoices -> InvoiceRows]
    BY <1>3, <2>1, <2>2
  <2>4. order' \in OrderRows
    BY <1>1, <1>5 DEF CreateAttempt, OrderRows, OrderStatuses
  <2> QED
    BY <1>1, <1>2, <1>5, <2>3, <2>4 DEF CreateAttempt, RowsTyped
<1>6. ASSUME NEW i \in Invoices, NEW asset \in CheckoutAssets, SelectAsset(i, asset)
      PROVE  RowsTyped' /\ UNCHANGED <<checkout, expiry>>
  <2>1. PICK x : x = invoices[i]
    OBVIOUS
  <2>2. x \in InvoiceRows /\ asset \in Assets
    BY <1>1, <2>1, StateAssumption
  <2>2a. [x EXCEPT !.asset = asset] \in InvoiceRows
    BY ONLY <2>2 DEF InvoiceRows
  <2>3. invoices' = [invoices EXCEPT ![i] = [x EXCEPT !.asset = asset]]
    BY <1>1, <1>6, <2>1 DEF SelectAsset
  <2>4. invoices' \in [Invoices -> InvoiceRows]
    BY <1>3, <2>2a, <2>3
  <2> QED
    BY <1>1, <1>2, <1>6, <2>4 DEF SelectAsset, RowsTyped, others
<1>7. ASSUME NEW i \in Invoices, BeginExpiry(i)
      PROVE  RowsTyped' /\ checkout' = checkout /\ expiry' \in Expiries
  <2>1. AttemptCredit \in Nat
    BY <1>1, AttemptCreditType
  <2>2. /\ invoices[i] \in InvoiceRows /\ CreditsOf(allocations, i) \subseteq Allocations
        /\ ExpiredStatus \in {"EXPIRED", "RECOVERY"}
        /\ order.paidAt \in Times \cup {NoTime}
    BY <1>1 DEF CreditsOf, ActiveCredits, ExpiredStatus, OrderRows
  <2>3. expiry' \in Expiries
    BY <1>7, <2>1, <2>2 DEF BeginExpiry, Expiries
  <2> QED
    BY <1>1, <1>2, <1>7, <2>3 DEF BeginExpiry, RowsTyped, rows
<1>8. ASSUME FinishExpiry
      PROVE  RowsTyped' /\ checkout' = checkout /\ expiry' = NoExpiry
  <2>1. expiry \in Expiries
    BY <1>1, <1>8 DEF FinishExpiry
  <2>2. order' \in OrderRows
    BY <1>1, <1>8, <2>1 DEF FinishExpiry, Expiries, OrderRows, OrderStatuses
  <2>3. expiry.invoice \in Invoices
    BY <2>1 DEF Expiries
  <2>4. PICK x : x = invoices[expiry.invoice]
    OBVIOUS
  <2>5. [x EXCEPT !.status = "EXPIRED"] \in InvoiceRows
    BY <1>1, <2>3, <2>4 DEF InvoiceRows, InvoiceStatuses
  <2>6. invoices' = [invoices EXCEPT ![expiry.invoice] = [x EXCEPT !.status = "EXPIRED"]]
    BY <1>1, <1>8, <2>4 DEF FinishExpiry
  <2>7. invoices' \in [Invoices -> InvoiceRows]
    BY <1>3, <2>3, <2>5, <2>6
  <2> QED
    BY <1>1, <1>2, <1>8, <2>2, <2>7 DEF FinishExpiry, RowsTyped
<1>9. ASSUME NEW i \in Invoices, FindOverdue(i)
      PROVE  RowsTyped' /\ UNCHANGED <<checkout, expiry>>
  BY <1>1, <1>2, <1>9 DEF FindOverdue, RowsTyped, rows
<1> QED
  BY <1>1, <1>4, <1>5, <1>6, <1>7, <1>8, <1>9
  DEF Checkout, CheckNewAttempt, CreateAttemptFails, AbortExpiry, rows

LEMMA SentStaysFinite ==
  ASSUME Journal, IsFiniteSet(Sent), [Next]_vars
  PROVE  IsFiniteSet(Sent')
<1>1. UNCHANGED chain \/ \E k \in TransferKinds : Transfer(k)
  BY LedgerFrame, CheckoutFrame DEF Next, Environment, Tick, RecordRate, vars, world
<1>2. ASSUME NEW k \in TransferKinds, Transfer(k)
      PROVE  IsFiniteSet(Sent')
  <2>1. PICK m \in Movements : chain' = [chain EXCEPT ![m] =
          [asset |-> k.asset, invoice |-> k.invoice, amount |-> k.amount, at |-> now]]
    BY <1>2 DEF Transfer
  <2>2. Sent' \subseteq Sent \cup {m}
    BY <2>1 DEF Sent, Journal, JournalTypeOK
  <2>3. IsFiniteSet(Sent \cup {m})
    BY FS_AddElement
  <2> QED
    BY <2>2, <2>3, FS_Subset
<1> QED
  BY <1>1, <1>2 DEF Sent

LEMMA TypedStep ==
  ASSUME Journal, Typed, [Next]_vars
  PROVE  Typed'
<1>1. RowsTyped' /\ checkout' \in {"IDLE", "CHECKED"} /\ expiry' \in Expiries \cup {NoExpiry}
  <2>1. /\ RowsTyped /\ checkout \in {"IDLE", "CHECKED"}
        /\ expiry \in Expiries \cup {NoExpiry}
    BY DEF Typed, TypeOK, Finite, RowsTyped, OrderRows
  <2>2. CASE Ledger
    BY <2>1, <2>2, LedgerTyped, LedgerFrame DEF others
  <2>3. CASE Checkout
    BY <2>3, CheckoutTyped
  <2>4. CASE Environment \/ UNCHANGED vars
    BY <2>1, <2>4 DEF Environment, Tick, Transfer, RecordRate, vars, rows, others, RowsTyped
  <2> QED
    BY <2>2, <2>3, <2>4 DEF Next
<1>2. Journal' /\ IsFiniteSet(Sent')
  BY JournalStep, SentStaysFinite DEF Typed, Finite
<1>3. overdue' \subseteq Invoices
  <2>1. overdue \subseteq Invoices
    BY DEF Typed, TypeOK
  <2>2. UNCHANGED overdue \/ \E i \in Invoices : overdue' = overdue \cup {i}
    <3>1. CASE Ledger
      BY <3>1, LedgerFrame DEF others
    <3>2. CASE Checkout
      BY <3>2 DEF Checkout, FindOverdue, CheckNewAttempt, CreateAttempt, CreateAttemptFails,
                  SelectAsset, BeginExpiry, FinishExpiry, AbortExpiry, others
    <3>3. CASE Environment \/ UNCHANGED vars
      BY <3>3 DEF Environment, Tick, Transfer, RecordRate, vars, others
    <3> QED
      BY <3>1, <3>2, <3>3 DEF Next
  <2> QED
    BY <2>1, <2>2
<1> QED
  BY <1>1, <1>2, <1>3 DEF Typed, TypeOK, Finite, RowsTyped, OrderRows, Journal

LEMMA TypedInit == Init => Typed
<1> SUFFICES ASSUME Init PROVE Typed
  OBVIOUS
<1>1. JournalTypeOK
  BY JournalInit DEF Journal
<1>2. Sent = {} /\ IsFiniteSet({})
  BY FS_EmptySet DEF Init, Sent
<1>3. invoices \in [Invoices -> InvoiceRows]
  <2>1. PICK a \in CheckoutAssets : invoices = [i \in Invoices |->
          IF i = FirstInvoice THEN NewInvoice(a, 0) ELSE NoInvoice]
    BY DEF Init
  <2>2. NewInvoice(a, 0) \in InvoiceRows /\ NewInvoice("GRAM", 0) \in InvoiceRows
    BY NewInvoiceTyped, StateAssumption DEF Assets
  <2>3. NoInvoice \in InvoiceRows
    BY <2>2 DEF NoInvoice, InvoiceRows, InvoiceStatuses
  <2> QED
    BY <2>1, <2>2, <2>3
<1> QED
  BY <1>1, <1>2, <1>3 DEF Init, Typed, TypeOK, Finite, OrderStatuses

\* The rows of the order, its attempts, credits and discounts have their types: no
\* sum, overpayment or discount turns negative (syncOrderAccounting,
\* syncInvoiceAccounting, markInvoiceExpired).
THEOREM OrderIsWellTyped == Spec => []TypeOK
<1>1. Typed /\ Journal /\ [Next]_vars => Typed'
  BY TypedStep
<1>2. Typed => TypeOK
  BY DEF Typed
<1> QED
  BY <1>1, <1>2, TypedInit, JournalCorrect, PTL DEF Spec
-----------------------------------------------------------------------------
(* An order with a discount is settled.                                     *)

\* A discount goes with an order that is paid or in recovery.
Granted == adjustments # {} => order.status \in {"PAID", "RECOVERY"}

\* An expiry under way began with an active attempt; one that is going to call
\* the order expired can no longer finish once a discount is there.
ExpirySound ==
  expiry # NoExpiry =>
    /\ expiry.row.status \in ActiveStatuses
    /\ invoices[expiry.invoice].status # "ABSENT"
    /\ adjustments # {} /\ expiry.status = "EXPIRED" => ~ Active(expiry.invoice)

\* A paid order has a funded attempt, which an expiry that begins will see.
Funded ==
  order.status = "PAID" =>
    \E i \in Invoices : invoices[i].credited > 0 /\ invoices[i].status # "ABSENT"

Books == Granted /\ ExpirySound /\ Funded

\* Nothing but recovery awaits the credits of a settled order.
LEMMA SettledIsForced ==
  ASSUME Journal, NEW m \in Movements, NEW code, CreditGroup(m, code),
         order.status \in {"PAID", "RECOVERY"}
  PROVE  ForceRecovery(m)
<1>1. CASE order.status = "RECOVERY"
  BY <1>1 DEF ForceRecovery, HardTerminal
<1>2. CASE order.status = "PAID"
  <2> DEFINE covering == CoveringMovements(ActiveCredits(allocations), Obligation)
  <2>1. CASE covering = {}
    BY <1>2, <2>1 DEF ForceRecovery, PostPaid
  <2>2. CASE covering # {}
    <3>1. /\ covering \subseteq CreditedMovements
          /\ CreditedMovements \subseteq Sent
          /\ \A k \in CreditedMovements : movements[k].status = "CREDITED"
      BY CreditFacts DEF CoveringMovements, CreditedMovements, MovementsOf
    <3>2. Earliest(covering) \in covering
      <4> HIDE DEF covering
      <4> QED
        BY <2>2, <3>1, EarliestFirst DEF Journal
    <3>3. m \in Sent /\ movements[m].status # "CREDITED"
      BY CreditGroupEffect DEF Values, Decides, Accepts, Journaled
    <3>4. Before(Earliest(covering), m) \/ Before(m, Earliest(covering))
      BY <3>1, <3>2, <3>3, BeforeOrders DEF Journal
    <3> QED
      BY <1>2, <3>1, <3>2, <3>4 DEF ForceRecovery, PostPaid, OutOfOrder
  <2> QED
    BY <2>1, <2>2
<1> QED
  BY <1>1, <1>2

\* What syncOrderAccounting makes of the status.
LEMMA SyncedStatus ==
  ASSUME NEW allocs, NEW adjs, NEW forced \in BOOLEAN, NEW revive \in BOOLEAN
  PROVE  LET ord == SyncedOrder(allocs, adjs, forced, revive)
             sum == NetCredit(allocs) + NetDiscount(adjs)
         IN  /\ forced => ord.status = "RECOVERY"
             /\ ord.status = "PAID" => /\ ~ forced /\ sum >= Obligation
                                       /\ ord.paidAt = At(PaidBy(ActiveCredits(allocs)))
             /\ sum >= Obligation => ord.status \in {"PAID", "RECOVERY"}
             /\ ~ forced /\ sum >= Obligation /\ order.status \notin HardTerminal
                  /\ (order.status = "EXPIRED" => revive) => ord.status = "PAID"
BY DEF SyncedOrder

LEMMA SyncedFields ==
  ASSUME invoices \in [Invoices -> InvoiceRows], NEW i \in Invoices,
         NEW allocs, NEW adjs, NEW status
  PROVE  /\ SyncedInvoice(i, allocs, adjs, status).status = status
         /\ SyncedInvoice(i, allocs, adjs, status).credited =
              IF Total(CreditsOf(allocs, i)) < Obligation THEN Total(CreditsOf(allocs, i))
              ELSE Obligation
<1>1. PICK x : x = LockSelection(i)[i]
  OBVIOUS
<1>2. x \in InvoiceRows
  BY <1>1, LockTyped
<1>3. \A a, b, c, d :
        LET y == [x EXCEPT !.status = a, !.credited = b, !.firstAt = c, !.partialExpiresAt = d]
        IN  y.status = a /\ y.credited = b
  BY <1>2 DEF InvoiceRows
<1>4. PICK b, c, d :
        /\ b = IF Total(CreditsOf(allocs, i)) < Obligation THEN Total(CreditsOf(allocs, i))
               ELSE Obligation
        /\ SyncedInvoice(i, allocs, adjs, status) =
             [x EXCEPT !.status = status, !.credited = b, !.firstAt = c, !.partialExpiresAt = d]
  BY <1>1 DEF SyncedInvoice
<1> QED
  BY <1>3, <1>4

LEMMA LockFields ==
  ASSUME invoices \in [Invoices -> InvoiceRows], NEW i \in Invoices, NEW j \in Invoices
  PROVE  /\ LockSelection(i)[j].status = invoices[j].status
         /\ LockSelection(i)[j].credited = invoices[j].credited
<1>1. PICK x : x = invoices[i]
  OBVIOUS
<1>2. x \in InvoiceRows
  BY <1>1
<1>3. LET y == [x EXCEPT !.lockedAsset = IF @ = "NONE" THEN x.asset ELSE @]
      IN  y.status = x.status /\ y.credited = x.credited
  BY <1>2 DEF InvoiceRows
<1>4. LockSelection(i) = [k \in Invoices |-> IF k = i
        THEN [x EXCEPT !.lockedAsset = IF @ = "NONE" THEN x.asset ELSE @] ELSE invoices[k]]
  BY <1>1 DEF LockSelection
<1> QED
  BY <1>1, <1>3, <1>4

\* The replay that grants a discount pays the order with it.
LEMMA GrantSettles ==
  ASSUME Journal, Typed, Granted, NEW m \in Sent, Grants(m)
  PROVE  /\ Invoice(m) \in Invoices /\ adjustments = {}
         /\ order'.status = "PAID" /\ order'.paidAt = At(PaidBy(ActiveCredits(allocations)))
         /\ invoices'[Invoice(m)].status = "PAID" /\ invoices'[Invoice(m)].credited > 0
         /\ \A j \in Invoices \ {Invoice(m)} : invoices'[j] = invoices[j]
         /\ NetDiscount(adjustments') = Obligation - NetCredit(allocations)
         /\ ActiveDiscounts(adjustments') = {Discount(Invoice(m), allocations)}
<1>1. /\ Invoice(m) \in Invoices
      /\ Sums(allocations, adjustments) /\ Sums(allocations, adjustments')
      /\ invoices \in [Invoices -> InvoiceRows]
  BY SumsNow, SumsAfterGrant, AttemptOfSent DEF Typed, TypeOK, Journal
<1>2. adjustments = {}
  BY DEF Grants, Granted, ActiveStatuses
<1>3. NetCredit(allocations) \in (Obligation - GramDiscount)..(Obligation - 1)
  BY DEF Grants, EarnsDiscount
<1>4. NetDiscount(adjustments') = Obligation - NetCredit(allocations)
  BY <1>1, <1>2, <1>3, DiscountAdded DEF Grants, Sums
<1>5. ActiveDiscounts(adjustments') = {Discount(Invoice(m), allocations)}
  BY <1>1, <1>2, <1>3, DiscountAdded DEF Grants, Sums
<1>6. order'.status = "PAID" /\ order'.paidAt = At(PaidBy(ActiveCredits(allocations)))
  <2>1. NetCredit(allocations) + NetDiscount(adjustments') >= Obligation
    BY <1>3, <1>4, StateAssumption
  <2>2. order.status \in ActiveStatuses
        /\ order' = SyncedOrder(allocations, adjustments', FALSE, FALSE)
    BY DEF Grants
  <2>3. order.status \notin HardTerminal /\ order.status # "EXPIRED"
    BY <2>2 DEF HardTerminal, ActiveStatuses
  <2> QED
    BY <2>1, <2>2, <2>3, SyncedStatus
<1>7. Total(CreditsOf(allocations, Invoice(m))) = NetCredit(allocations)
  <2>1. CreditsOf(allocations, Invoice(m)) = ActiveCredits(allocations)
    BY DEF Grants, CreditsOf
  <2> QED
    BY <2>1 DEF NetCredit
<1>8. invoices' = [invoices EXCEPT ![Invoice(m)] =
        SyncedInvoice(Invoice(m), allocations, adjustments', "PAID")]
  BY <1>6 DEF Grants, SettledStatus
<1>9. invoices'[Invoice(m)] = SyncedInvoice(Invoice(m), allocations, adjustments', "PAID")
  BY <1>1, <1>8
<1>10. invoices'[Invoice(m)].status = "PAID" /\ invoices'[Invoice(m)].credited > 0
  BY <1>1, <1>3, <1>7, <1>9, SyncedFields, StateAssumption
<1> QED
  BY <1>1, <1>2, <1>4, <1>5, <1>6, <1>8, <1>10

\* What a credit that is not forced makes of the order and the attempt.
LEMMA CreditSettles ==
  ASSUME Journal, Typed, Granted, NEW m \in Movements, NEW code, CreditGroup(m, code),
         ~ ForceRecovery(m)
  PROVE  /\ Invoice(m) \in Invoices /\ adjustments = {} /\ Kept(m) = {}
         /\ order.status \notin {"PAID", "RECOVERY"}
         /\ \A j \in Invoices \ {Invoice(m)} : invoices'[j] = invoices[j]
         /\ CreditsOf(allocations', Invoice(m)) = ActiveCredits(allocations')
         /\ IF Earns(m)
            THEN /\ adjustments' # {} /\ order'.status = "PAID"
                 /\ NetDiscount(adjustments') = Obligation - NetCredit(allocations')
                 /\ ActiveDiscounts(adjustments') = {Discount(Invoice(m), allocations')}
            ELSE adjustments' = {} /\ NetDiscount(adjustments') = 0
         /\ order'.status = "PAID" =>
              /\ order'.paidAt = At(PaidBy(ActiveCredits(allocations')))
              /\ NetCredit(allocations') + NetDiscount(adjustments') >= Obligation
              /\ invoices'[Invoice(m)].status = "PAID" /\ invoices'[Invoice(m)].credited > 0
         /\ invoices'[Invoice(m)].status # "ABSENT"
<1>1. /\ Invoice(m) \in Invoices
      /\ Sums(allocations', Kept(m)) /\ Sums(allocations', adjustments')
      /\ invoices \in [Invoices -> InvoiceRows]
  BY SumsAfterGroup DEF Typed, TypeOK
<1>2. order.status \notin {"PAID", "RECOVERY"}
  BY SettledIsForced
<1>3. adjustments = {} /\ Kept(m) = {}
  <2>1. adjustments = {}
    BY <1>2 DEF Granted
  <2> QED
    BY <2>1, SumsNow, DiscountReversed DEF Kept, Sums
<1>4. CreditsOf(allocations', Invoice(m)) = ActiveCredits(allocations')
  <2>1. \A r \in ActiveCredits(allocations) : r.invoice = Invoice(m)
    BY DEF ForceRecovery, MultipleFundedDeposits
  <2>2. \A r \in GroupCredits(m) : r.invoice = Invoice(m)
    BY DEF GroupCredits
  <2> QED
    BY <2>1, <2>2, CreditGroupCredits DEF CreditsOf
<1>5. NetCredit(allocations') \in Nat /\ NetDiscount(adjustments') \in Nat
  BY <1>1, SumsType
<1>6. ASSUME Earns(m)
      PROVE  /\ NetCredit(allocations') \in (Obligation - GramDiscount)..(Obligation - 1)
             /\ adjustments' = Discounted(Invoice(m), allocations', Kept(m))
             /\ adjustments' = {Discount(Invoice(m), allocations')}
             /\ NetDiscount(adjustments') = Obligation - NetCredit(allocations')
             /\ ActiveDiscounts(adjustments') = {Discount(Invoice(m), allocations')}
  <2>1. NetCredit(allocations') \in (Obligation - GramDiscount)..(Obligation - 1)
    BY <1>6 DEF Earns, EarnsDiscount
  <2>2. adjustments' = Discounted(Invoice(m), allocations', Kept(m))
    BY <1>6, CreditGroupWrites
  <2>3. Kept(m) \subseteq Adjustments /\ IsFiniteSet(Kept(m))
    BY <1>1 DEF Sums
  <2> QED
    BY <1>1, <1>3, <2>1, <2>2, <2>3, DiscountAdded
<1>7. ASSUME ~ Earns(m)
      PROVE  adjustments' = {} /\ NetDiscount(adjustments') = 0
  <2>1. adjustments' = {}
    BY <1>3, <1>7, CreditGroupWrites
  <2>2. ActiveDiscounts(adjustments') = {} /\ Amounts({})
    BY <2>1, FS_EmptySet DEF ActiveDiscounts, Amounts
  <2> QED
    BY <2>1, <2>2, TotalFacts DEF NetDiscount
<1>8. order' = SyncedOrder(allocations', adjustments', FALSE, Revives(m))
  <2>1. ForceRecovery(m) = FALSE
    BY DEF ForceRecovery, Late, PostPaid, OutOfOrder, ConflictingAttempt, MultipleFundedDeposits
  <2> QED
    BY <2>1, CreditGroupWrites
<1>9. /\ Revives(m) \in BOOLEAN
      /\ order.status = "EXPIRED" => Revives(m)
      /\ order.status \notin HardTerminal
  BY DEF Revives, ForceRecovery
<1>10. Earns(m) => order'.status = "PAID"
  <2>1. Earns(m) => NetCredit(allocations') + NetDiscount(adjustments') >= Obligation
    BY <1>5, <1>6, StateAssumption
  <2> QED
    BY <1>8, <1>9, <2>1, SyncedStatus
<1>11. order'.status = "PAID" =>
         /\ order'.paidAt = At(PaidBy(ActiveCredits(allocations')))
         /\ NetCredit(allocations') + NetDiscount(adjustments') >= Obligation
  BY <1>8, <1>9, SyncedStatus
<1>12. order'.status = "PAID" => NetCredit(allocations') > 0
  <2>1. CASE Earns(m)
    BY <1>5, <1>6, <2>1, StateAssumption
  <2>2. CASE ~ Earns(m)
    BY <1>5, <1>7, <1>11, <2>2, StateAssumption
  <2> QED
    BY <2>1, <2>2
<1> DEFINE status == SettledStatus(Invoice(m), allocations', order'.status)
<1>13. invoices' = [invoices EXCEPT ![Invoice(m)] =
         SyncedInvoice(Invoice(m), allocations', adjustments', status)]
  BY CreditGroupWrites
<1>14. invoices'[Invoice(m)].status = status /\ invoices'[Invoice(m)].credited =
         IF NetCredit(allocations') < Obligation THEN NetCredit(allocations') ELSE Obligation
  <2>1. Total(CreditsOf(allocations', Invoice(m))) = NetCredit(allocations')
    BY <1>4 DEF NetCredit
  <2>2. invoices'[Invoice(m)] = SyncedInvoice(Invoice(m), allocations', adjustments', status)
    BY <1>1, <1>13
  <2> HIDE DEF status
  <2> QED
    BY <1>1, <2>1, <2>2, SyncedFields
<1>15. status # "ABSENT" /\ (order'.status = "PAID" => status = "PAID")
  BY DEF SettledStatus
<1>16. order'.status = "PAID" => invoices'[Invoice(m)].credited > 0
  BY <1>5, <1>12, <1>14, StateAssumption
<1> QED
  BY <1>1, <1>2, <1>3, <1>4, <1>6, <1>7, <1>10, <1>11, <1>13, <1>14, <1>15, <1>16

\* A forced credit and a reversal leave no active attempt behind.
LEMMA ForcedSettles ==
  ASSUME Journal, Typed, NEW m \in Movements, NEW code, CreditGroup(m, code), ForceRecovery(m)
  PROVE  /\ Invoice(m) \in Invoices
         /\ order'.status = "RECOVERY" /\ adjustments' = Kept(m)
         /\ \A j \in Invoices \ {Invoice(m)} : invoices'[j] = invoices[j]
         /\ invoices'[Invoice(m)].status \notin ActiveStatuses
         /\ invoices'[Invoice(m)].status = "ABSENT" => invoices[Invoice(m)].status = "ABSENT"
<1>1. Invoice(m) \in Invoices /\ invoices \in [Invoices -> InvoiceRows]
  BY SumsAfterGroup DEF Typed, TypeOK
<1>2. order'.status = "RECOVERY" /\ adjustments' = Kept(m)
  BY ForcedRecovers, CreditGroupWrites DEF Earns
<1> DEFINE status == RecoveredStatus(Invoice(m))
<1>3. invoices' = [invoices EXCEPT ![Invoice(m)] =
        SyncedInvoice(Invoice(m), allocations', adjustments', status)]
  BY CreditGroupWrites
<1>4. /\ status \notin ActiveStatuses
      /\ status = "ABSENT" => invoices[Invoice(m)].status = "ABSENT"
  BY DEF RecoveredStatus, Active, ActiveStatuses
<1> HIDE DEF status
<1>5. invoices'[Invoice(m)] = SyncedInvoice(Invoice(m), allocations', adjustments', status)
  BY <1>1, <1>3
<1>6. invoices'[Invoice(m)].status = status
  BY <1>1, <1>5, SyncedFields
<1> QED
  BY <1>1, <1>2, <1>3, <1>4, <1>6

LEMMA ReversalSettles ==
  ASSUME Journal, Typed, NEW r \in allocations, ReverseAllocation(r)
  PROVE  /\ r.invoice \in Invoices
         /\ order'.status = "RECOVERY" /\ adjustments' = ReverseDiscounts(adjustments)
         /\ \A j \in Invoices \ {r.invoice} : invoices'[j] = invoices[j]
         /\ invoices'[r.invoice].status = "FAILED"
<1>1. r.invoice \in Invoices /\ invoices \in [Invoices -> InvoiceRows]
  BY SumsAfterReversal DEF Typed, TypeOK
<1>2. /\ order' = SyncedOrder(allocations', adjustments', TRUE, FALSE)
      /\ adjustments' = ReverseDiscounts(adjustments)
      /\ invoices' = [invoices EXCEPT ![r.invoice] =
           SyncedInvoice(r.invoice, allocations', adjustments', "FAILED")]
  BY DEF ReverseAllocation
<1>3. order'.status = "RECOVERY"
  BY <1>2, SyncedStatus
<1>4. invoices'[r.invoice] = SyncedInvoice(r.invoice, allocations', adjustments', "FAILED")
  BY <1>1, <1>2
<1>5. invoices'[r.invoice].status = "FAILED"
  BY <1>1, <1>4, SyncedFields
<1> QED
  BY <1>1, <1>2, <1>3, <1>5

\* Steps that write none of it keep the books.
LEMMA BooksQuiet ==
  ASSUME Journal, Typed, Books, Quiet \/ UNCHANGED <<adjustments, order, invoices>>,
         UNCHANGED expiry
  PROVE  Books'
<1>1. \A j \in Invoices : /\ invoices'[j].status = invoices[j].status
                          /\ invoices'[j].credited = invoices[j].credited
  <2>1. ASSUME NEW m \in Sent, invoices' = LockSelection(Invoice(m)), NEW j \in Invoices
        PROVE  invoices'[j].status = invoices[j].status
               /\ invoices'[j].credited = invoices[j].credited
    BY <2>1, LockFields, AttemptOfSent DEF Typed, TypeOK, Journal
  <2> QED
    BY <2>1 DEF Quiet
<1>2. expiry # NoExpiry => expiry.invoice \in Invoices
  BY DEF Typed, TypeOK, Expiries
<1>3. UNCHANGED <<adjustments, order>>
  BY DEF Quiet
<1> QED
  BY <1>1, <1>2, <1>3 DEF Books, Granted, ExpirySound, Funded, Active

LEMMA BooksLedger ==
  ASSUME Journal, Typed, AtMostOneActive, Books, Ledger
  PROVE  Books'
<1>1. UNCHANGED expiry /\ (expiry # NoExpiry => expiry.invoice \in Invoices)
  BY LedgerFrame DEF others, Typed, TypeOK, Expiries
<1>2. ASSUME NEW i \in Invoices, invoices'[i].status \notin ActiveStatuses,
             invoices'[i].status = "ABSENT" => invoices[i].status = "ABSENT",
             \A j \in Invoices \ {i} : invoices'[j] = invoices[j],
             adjustments = {} /\ adjustments' # {} =>
               Active(i) \/ \A j \in Invoices \ {i} : ~ Active(j)
      PROVE  ExpirySound'
  <2> SUFFICES ASSUME expiry # NoExpiry
               PROVE  /\ expiry.row.status \in ActiveStatuses
                      /\ invoices'[expiry.invoice].status # "ABSENT"
                      /\ adjustments' # {} /\ expiry.status = "EXPIRED" =>
                           invoices'[expiry.invoice].status \notin ActiveStatuses
    BY <1>1 DEF ExpirySound, Active
  <2>1. /\ expiry.row.status \in ActiveStatuses
        /\ invoices[expiry.invoice].status # "ABSENT"
        /\ adjustments # {} /\ expiry.status = "EXPIRED" => ~ Active(expiry.invoice)
    BY DEF Books, ExpirySound
  <2>2. CASE expiry.invoice = i
    BY <1>2, <2>1, <2>2
  <2>3. CASE expiry.invoice # i
    BY <1>1, <1>2, <2>1, <2>3 DEF Active, AtMostOneActive
  <2> QED
    BY <2>2, <2>3
<1>3. CASE Quiet
  BY <1>1, <1>3, BooksQuiet
<1>4. ASSUME NEW m \in Sent, Grants(m)
      PROVE  Books'
  <2>1. /\ Invoice(m) \in Invoices /\ order'.status = "PAID"
        /\ invoices'[Invoice(m)].status = "PAID" /\ invoices'[Invoice(m)].credited > 0
        /\ \A j \in Invoices \ {Invoice(m)} : invoices'[j] = invoices[j]
    BY <1>4, GrantSettles DEF Books
  <2>2. Active(Invoice(m))
    BY <1>4 DEF Grants
  <2>3. ExpirySound'
    BY <1>2, <2>1, <2>2 DEF ActiveStatuses
  <2> QED
    BY <2>1, <2>3 DEF Books, Granted, Funded
<1>5. ASSUME NEW m \in Movements, NEW code \in ValidationCodes, CreditGroup(m, code),
             ForceRecovery(m)
      PROVE  Books'
  <2>1. /\ Invoice(m) \in Invoices
        /\ order'.status = "RECOVERY" /\ adjustments' = Kept(m)
        /\ \A j \in Invoices \ {Invoice(m)} : invoices'[j] = invoices[j]
        /\ invoices'[Invoice(m)].status \notin ActiveStatuses
        /\ invoices'[Invoice(m)].status = "ABSENT" => invoices[Invoice(m)].status = "ABSENT"
    BY <1>5, ForcedSettles
  <2>2. adjustments = {} => adjustments' = {}
    BY <2>1, SumsNow, DiscountReversed DEF Kept, Sums
  <2>3. ExpirySound'
    BY <1>2, <2>1, <2>2
  <2> QED
    BY <2>1, <2>3 DEF Books, Granted, Funded
<1>6. ASSUME NEW m \in Movements, NEW code \in ValidationCodes, CreditGroup(m, code),
             ~ ForceRecovery(m)
      PROVE  Books'
  <2>1. /\ Invoice(m) \in Invoices /\ adjustments = {}
        /\ \A j \in Invoices \ {Invoice(m)} : invoices'[j] = invoices[j]
        /\ adjustments' # {} => order'.status = "PAID"
        /\ order'.status = "PAID" =>
             invoices'[Invoice(m)].status = "PAID" /\ invoices'[Invoice(m)].credited > 0
        /\ invoices'[Invoice(m)].status # "ABSENT"
    BY <1>6, CreditSettles DEF Books
  <2>2. ExpirySound'
    <3>1. CASE order'.status = "PAID"
      <4>1. Active(Invoice(m)) \/ \A j \in Invoices \ {Invoice(m)} : ~ Active(j)
        BY <1>6 DEF ForceRecovery, ConflictingAttempt
      <4> QED
        BY <1>2, <2>1, <3>1, <4>1 DEF ActiveStatuses
    <3>2. CASE order'.status # "PAID"
      BY <1>1, <2>1, <3>2 DEF Books, ExpirySound, Active
    <3> QED
      BY <3>1, <3>2
  <2> QED
    BY <2>1, <2>2 DEF Books, Granted, Funded
<1>7. ASSUME NEW r \in allocations, ReverseAllocation(r)
      PROVE  Books'
  <2>1. /\ r.invoice \in Invoices
        /\ order'.status = "RECOVERY" /\ adjustments' = ReverseDiscounts(adjustments)
        /\ \A j \in Invoices \ {r.invoice} : invoices'[j] = invoices[j]
        /\ invoices'[r.invoice].status = "FAILED"
    BY <1>7, ReversalSettles
  <2>2. adjustments = {} => adjustments' = {}
    BY <2>1, SumsNow, DiscountReversed DEF Sums
  <2>3. ExpirySound'
    BY <1>2, <2>1, <2>2 DEF ActiveStatuses
  <2> QED
    BY <2>1, <2>3 DEF Books, Granted, Funded
<1> QED
  BY <1>3, <1>4, <1>5, <1>6, <1>7, LedgerWrites

\* The sum that an expiry reads is positive when an attempt is funded.
LEMMA FundedIsSeen ==
  ASSUME Typed, NEW i \in Invoices, invoices[i].credited > 0
  PROVE  AttemptCredit > 0
<1> DEFINE f == [j \in Invoices |-> invoices[j].credited]
<1>1. (\A j \in Invoices : f[j] \in Nat) /\ f[i] > 0
  BY DEF Typed, TypeOK, InvoiceRows
<1>2. SumFunction(f) = SumFunctionOnSet(f, Invoices)
  BY DEF SumFunction
<1>3. /\ SumFunctionOnSet(f, {i}) <= SumFunctionOnSet(f, Invoices)
      /\ SumFunctionOnSet(f, {i}) = f[i] /\ SumFunctionOnSet(f, Invoices) \in Nat
  <2>1. {i} \in SUBSET Invoices /\ Invoices \in SUBSET Invoices
    OBVIOUS
  <2> HIDE DEF f
  <2>2. SumFunctionOnSet(f, {i}) <= SumFunctionOnSet(f, Invoices)
    BY <1>1, <2>1, SumGrows, StateAssumption
  <2>3. SumFunctionOnSet(f, Invoices) \in Nat
    BY <1>1, <2>1, SumGrows, StateAssumption
  <2>4. SumFunctionOnSet(f, {i}) = f[i]
    BY <1>1, SumOfOne
  <2> QED
    BY <2>2, <2>3, <2>4
<1>4. AttemptCredit = IF SumFunction(f) < Obligation THEN SumFunction(f) ELSE Obligation
  BY DEF AttemptCredit
<1> HIDE DEF f
<1> QED
  BY <1>1, <1>2, <1>3, <1>4, StateAssumption

LEMMA BooksCheckout ==
  ASSUME Journal, Typed, Books, Checkout
  PROVE  Books'
<1>1. /\ invoices \in [Invoices -> InvoiceRows] /\ order \in OrderRows
      /\ expiry \in Expiries \cup {NoExpiry}
      /\ UNCHANGED adjustments
  BY CheckoutFrame DEF Typed, TypeOK, OrderRows
<1>2. expiry # NoExpiry => expiry.invoice \in Invoices /\ expiry.status \in {"EXPIRED", "RECOVERY"}
  BY <1>1 DEF Expiries
<1>3. CASE CheckNewAttempt \/ CreateAttemptFails
  BY <1>3, BooksQuiet DEF CheckNewAttempt, CreateAttemptFails, rows
<1>4. ASSUME NEW i \in Invoices, NEW asset \in CheckoutAssets, CreateAttempt(i, asset)
      PROVE  Books'
  <2>1. /\ invoices[i].status = "ABSENT" /\ UNCHANGED expiry
        /\ \A j \in Invoices \ {i} : invoices'[j] = invoices[j]
        /\ order.status \in {"PAID", "RECOVERY"} => order' = order
        /\ order'.status = "PAID" => order.status = "PAID"
    BY <1>1, <1>4 DEF CreateAttempt, OrderRows
  <2>2. Granted'
    BY <1>1, <2>1 DEF Books, Granted
  <2>3. ExpirySound'
    BY <1>1, <1>2, <2>1 DEF Books, ExpirySound, Active
  <2>4. Funded'
    <3> SUFFICES ASSUME order'.status = "PAID"
                 PROVE  \E j \in Invoices : invoices'[j].credited > 0 /\ invoices'[j].status # "ABSENT"
      BY DEF Funded
    <3>1. PICK j \in Invoices : invoices[j].credited > 0 /\ invoices[j].status # "ABSENT"
      BY <2>1 DEF Books, Funded
    <3> QED
      BY <2>1, <3>1
  <2> QED
    BY <2>2, <2>3, <2>4 DEF Books
<1>5. ASSUME NEW i \in Invoices, NEW asset \in CheckoutAssets, SelectAsset(i, asset)
      PROVE  Books'
  <2>1. PICK x : x = invoices[i]
    OBVIOUS
  <2>2. x \in InvoiceRows
    BY <1>1, <2>1
  <2>3. LET y == [x EXCEPT !.asset = asset] IN y.status = x.status /\ y.credited = x.credited
    BY <2>2 DEF InvoiceRows
  <2>4. UNCHANGED <<expiry, order>>
        /\ invoices' = [j \in Invoices |-> IF j = i THEN [x EXCEPT !.asset = asset] ELSE invoices[j]]
    BY <1>1, <1>5, <2>1 DEF SelectAsset, others
  <2>5. \A j \in Invoices : /\ invoices'[j].status = invoices[j].status
                            /\ invoices'[j].credited = invoices[j].credited
    BY <2>1, <2>3, <2>4
  <2> QED
    BY <1>1, <1>2, <2>4, <2>5 DEF Books, Granted, ExpirySound, Funded, Active
<1>6. ASSUME NEW i \in Invoices, BeginExpiry(i)
      PROVE  Books'
  <2>1. /\ Active(i) /\ UNCHANGED <<order, invoices>>
        /\ expiry'.row = invoices[i] /\ expiry'.invoice = i /\ expiry'.status = ExpiredStatus
    BY <1>6 DEF BeginExpiry, rows
  <2>2. order.status \in {"PAID", "RECOVERY"} => ExpiredStatus = "RECOVERY"
    <3>1. CASE order.status = "PAID"
      <4>1. AttemptCredit > 0
        BY <3>1, FundedIsSeen DEF Books, Funded
      <4> QED
        BY <4>1 DEF ExpiredStatus
    <3>2. CASE order.status = "RECOVERY"
      BY <3>2 DEF ExpiredStatus
    <3> QED
      BY <3>1, <3>2
  <2>3. ExpirySound'
    BY <1>1, <2>1, <2>2 DEF Books, Granted, ExpirySound, Active, ActiveStatuses
  <2> QED
    BY <1>1, <2>1, <2>3 DEF Books, Granted, Funded
<1>7. ASSUME FinishExpiry
      PROVE  Books'
  <2>1. /\ expiry # NoExpiry /\ expiry' = NoExpiry
        /\ invoices[expiry.invoice] = expiry.row
        /\ order'.status = expiry.status
    BY <1>1, <1>7 DEF FinishExpiry, Undisturbed, OrderRows
  <2>2. adjustments # {} => expiry.status # "EXPIRED"
    BY <2>1 DEF Books, ExpirySound, Active
  <2> QED
    BY <1>1, <1>2, <2>1, <2>2 DEF Books, Granted, ExpirySound, Funded
<1>8. ASSUME AbortExpiry
      PROVE  Books'
  BY <1>1, <1>8 DEF AbortExpiry, rows, Books, Granted, ExpirySound, Funded
<1>9. ASSUME NEW i \in Invoices, FindOverdue(i)
      PROVE  Books'
  BY <1>1, <1>9 DEF FindOverdue, rows, Books, Granted, ExpirySound, Funded, Active
<1> QED
  BY <1>3, <1>4, <1>5, <1>6, <1>7, <1>8, <1>9 DEF Checkout

LEMMA BooksStep ==
  ASSUME Journal, Typed, AtMostOneActive, Books, [Next]_vars
  PROVE  Books'
<1>1. CASE Environment \/ UNCHANGED vars
  <2>1. UNCHANGED <<adjustments, order, invoices, expiry>>
    BY <1>1 DEF Environment, Tick, Transfer, RecordRate, vars, rows, others
  <2> QED
    BY <2>1, BooksQuiet
<1> QED
  BY <1>1, BooksLedger, BooksCheckout DEF Next
-----------------------------------------------------------------------------
(* A discount is earned.                                                    *)

LEMMA DiscountFrame ==
  ASSUME Journal, DiscountIsEarned, [Next]_vars, UNCHANGED <<allocations, adjustments>>
  PROVE  DiscountIsEarned'
<1>1. \A m \in CreditedMovements : Asset(m)' = Asset(m)
  <2>1. \A m \in CreditedMovements : m \in Sent
    BY CreditFacts DEF CreditedMovements, MovementsOf
  <2> QED
    BY <2>1, ChainKept DEF Asset
<1>2. CreditedMovements' = CreditedMovements
  BY DEF CreditedMovements
<1>3. /\ ActiveDiscounts(adjustments)' = ActiveDiscounts(adjustments)
      /\ NetCredit(allocations)' = NetCredit(allocations)
      /\ NetDiscount(adjustments)' = NetDiscount(adjustments)
  OBVIOUS
<1> QED
  BY <1>1, <1>2, <1>3 DEF DiscountIsEarned

LEMMA DiscountLedger ==
  ASSUME Journal, Typed, Books, DiscountIsEarned, [Next]_vars, Ledger
  PROVE  DiscountIsEarned'
<1>1. \A m : Asset(m)' = Asset(m)
  BY LedgerFrame DEF Asset, world
<1>2. ActiveDiscounts(adjustments') = {} => DiscountIsEarned'
  BY DEF DiscountIsEarned
<1>3. \A d : Cardinality({d}) = 1
  BY FS_Singleton
<1>4. CASE Quiet
  BY <1>4, DiscountFrame DEF Quiet
<1>5. ASSUME NEW m \in Sent, Grants(m), UNCHANGED allocations
      PROVE  DiscountIsEarned'
  <2>1. /\ NetDiscount(adjustments') = Obligation - NetCredit(allocations)
        /\ ActiveDiscounts(adjustments') = {Discount(Invoice(m), allocations)}
    BY <1>5, GrantSettles DEF Books
  <2>2. /\ NetCredit(allocations) \in (Obligation - GramDiscount)..(Obligation - 1)
        /\ \A k \in CreditedMovements : Asset(k) = "GRAM"
    BY <1>5 DEF Grants, EarnsDiscount, CreditedMovements
  <2>3. Cardinality(ActiveDiscounts(adjustments')) = 1
    BY <1>3, <2>1
  <2>4. /\ NetCredit(allocations') >= Obligation - GramDiscount
        /\ NetCredit(allocations') + NetDiscount(adjustments') >= Obligation
    BY <1>5, <2>1, <2>2, StateAssumption
  <2>5. \A k \in CreditedMovements' : Asset(k)' = "GRAM"
    BY <1>1, <1>5, <2>2 DEF CreditedMovements
  <2> QED
    BY <2>3, <2>4, <2>5 DEF DiscountIsEarned
<1>6. ASSUME NEW m \in Movements, NEW code \in ValidationCodes, CreditGroup(m, code),
             ~ ForceRecovery(m)
      PROVE  DiscountIsEarned'
  <2>1. CASE ~ Earns(m)
    <3>1. adjustments' = {}
      BY <1>6, <2>1, CreditSettles DEF Books
    <3> QED
      BY <1>2, <3>1 DEF ActiveDiscounts
  <2>2. CASE Earns(m)
    <3>1. /\ NetDiscount(adjustments') = Obligation - NetCredit(allocations')
          /\ ActiveDiscounts(adjustments') = {Discount(Invoice(m), allocations')}
      BY <1>6, <2>2, CreditSettles DEF Books
    <3>2. /\ NetCredit(allocations') \in (Obligation - GramDiscount)..(Obligation - 1)
          /\ \A k \in MovementsOf(ActiveCredits(allocations')) : Asset(k) = "GRAM"
      BY <2>2 DEF Earns, EarnsDiscount
    <3>3. Cardinality(ActiveDiscounts(adjustments')) = 1
      BY <1>3, <3>1
    <3>4. /\ NetCredit(allocations') >= Obligation - GramDiscount
          /\ NetCredit(allocations') + NetDiscount(adjustments') >= Obligation
      BY <3>1, <3>2, StateAssumption
    <3>5. \A k \in CreditedMovements' : Asset(k)' = "GRAM"
      BY <1>1, <3>2 DEF CreditedMovements
    <3> QED
      BY <3>3, <3>4, <3>5 DEF DiscountIsEarned
  <2> QED
    BY <2>1, <2>2
<1>7. ASSUME NEW m \in Movements, NEW code \in ValidationCodes, CreditGroup(m, code),
             ForceRecovery(m)
      PROVE  DiscountIsEarned'
  <2>1. adjustments' = Kept(m)
    BY <1>7, ForcedSettles
  <2>2. CASE GramGroup(m) # Group(m)
    <3>1. ActiveDiscounts(adjustments') = {}
      BY <2>1, <2>2, SumsNow, DiscountReversed DEF Kept, Sums
    <3> QED
      BY <1>2, <3>1
  <2>3. CASE GramGroup(m) = Group(m) /\ ActiveDiscounts(adjustments) # {}
    <3>1. adjustments' = adjustments
      BY <2>1, <2>3 DEF Kept
    <3>2. /\ ActiveCredits(allocations') = ActiveCredits(allocations) \cup GroupCredits(m)
          /\ Sums(allocations', adjustments')
      BY <1>7, CreditGroupCredits, SumsAfterGroup
    <3>3. \A k \in CreditedMovements' : Asset(k)' = "GRAM"
      <4>1. \A k \in CreditedMovements : Asset(k) = "GRAM"
        BY <2>3 DEF DiscountIsEarned
      <4>2. \A k \in Group(m) : Asset(k) = "GRAM"
        BY <2>3 DEF GramGroup
      <4>3. \A r \in GroupCredits(m) : r.movement \in Group(m)
        BY DEF GroupCredits
      <4>4. \A k \in CreditedMovements' : k \in CreditedMovements \/ k \in Group(m)
        BY <3>2, <4>3 DEF CreditedMovements, MovementsOf
      <4> QED
        BY <1>1, <4>1, <4>2, <4>4
    <3>4. /\ NetCredit(allocations) \in Nat /\ NetCredit(allocations') \in Nat
          /\ NetCredit(allocations) <= NetCredit(allocations')
      BY <3>2, SumsType, TotalFacts DEF NetCredit
    <3>5. /\ NetCredit(allocations) >= Obligation - GramDiscount
          /\ NetCredit(allocations) + NetDiscount(adjustments) >= Obligation
          /\ Cardinality(ActiveDiscounts(adjustments)) = 1
      BY <2>3 DEF DiscountIsEarned
    <3>6. NetDiscount(adjustments) \in Nat
      BY SumsNow, SumsType
    <3>7. /\ NetCredit(allocations') >= Obligation - GramDiscount
          /\ NetCredit(allocations') + NetDiscount(adjustments') >= Obligation
      BY <3>1, <3>4, <3>5, <3>6, StateAssumption
    <3> QED
      BY <3>1, <3>3, <3>5, <3>7 DEF DiscountIsEarned
  <2>4. CASE GramGroup(m) = Group(m) /\ ActiveDiscounts(adjustments) = {}
    BY <1>2, <2>1, <2>4 DEF Kept
  <2> QED
    BY <2>2, <2>3, <2>4
<1>8. ASSUME NEW r \in allocations, ReverseAllocation(r)
      PROVE  DiscountIsEarned'
  <2>1. ActiveDiscounts(adjustments') = {}
    BY <1>8, ReversalSettles, SumsNow, DiscountReversed DEF Sums
  <2> QED
    BY <1>2, <2>1
<1> QED
  BY <1>4, <1>5, <1>6, <1>7, <1>8, LedgerWrites

LEMMA TypedHolds == Spec => [](Journal /\ Typed /\ AtMostOneActive /\ Books)
<1>1. Init => Typed /\ Journal /\ AttemptRows
  BY TypedInit, JournalInit, AttemptRowsInit
<1>2. Init => AtMostOneActive
  BY DEF Init, AtMostOneActive, Active, ActiveStatuses, NoInvoice, NewInvoice
<1>3. Init => Books
  BY DEF Init, Books, Granted, ExpirySound, Funded
<1>4. Journal /\ AttemptRows /\ Typed /\ AtMostOneActive /\ Books /\ [Next]_vars
        => (Journal /\ AttemptRows /\ Typed /\ AtMostOneActive /\ Books)'
  BY JournalStep, AttemptRowsStep, TypedStep, AtMostOneActiveStep, BooksStep
<1> QED
  BY <1>1, <1>2, <1>3, <1>4, PTL DEF Spec

\* The GRAM discount is granted once, to an order paid in GRAM alone that reached the
\* discounted price, and a credit in another asset or a reversal takes it back
\* (applyEligibleGramOnlyDiscount, reverseActiveDiscounts).
THEOREM DiscountIsEarnedHolds == Spec => []DiscountIsEarned
<1>1. Init => DiscountIsEarned
  BY DEF Init, DiscountIsEarned, ActiveDiscounts
<1>2. Journal /\ Typed /\ Books /\ DiscountIsEarned /\ [Next]_vars => DiscountIsEarned'
  <2> SUFFICES ASSUME Journal, Typed, Books, DiscountIsEarned, [Next]_vars
               PROVE  DiscountIsEarned'
    OBVIOUS
  <2>1. CASE Ledger
    BY <2>1, DiscountLedger
  <2>2. CASE ~ Ledger
    <3>1. UNCHANGED <<allocations, adjustments>>
      BY <2>2, CheckoutFrame DEF Next, Environment, Tick, Transfer, RecordRate, vars, rows
    <3> QED
      BY <3>1, DiscountFrame
  <2> QED
    BY <2>1, <2>2
<1> QED
  BY <1>1, <1>2, TypedHolds, PTL DEF Spec
-----------------------------------------------------------------------------
(* A paid order is covered.                                                 *)

\* Earliest without a choice.
IsEarliest(m, S) == m \in S /\ \A k \in S \ {m} : Before(m, k)

\* The credits up to a transfer, and those of the last one.
UpToCredit(C, m) == {r \in C : r.movement = m \/ Before(r.movement, m)}
LastPays(C) ==
  \A r \in C : (\A q \in C : q.movement = r.movement \/ Before(q.movement, r.movement))
                 => r.fiat > 0

LEMMA LatestCovers ==
  ASSUME JournalTypeOK, NEW C, Amounts(C), MovementsOf(C) \subseteq Sent, C # {}
  PROVE  /\ Latest(MovementsOf(C)) \in MovementsOf(C)
         /\ \A k \in MovementsOf(C) \ {Latest(MovementsOf(C))} : Before(k, Latest(MovementsOf(C)))
         /\ UpToCredit(C, Latest(MovementsOf(C))) = C
<1> DEFINE S == MovementsOf(C)
           f == [r \in C |-> r.movement]
<1>1. S = {f[r] : r \in C} /\ S # {}
  BY DEF MovementsOf
<1>2. IsFiniteSet({f[r] : r \in C})
  <2> HIDE DEF f
  <2> QED
    BY FiniteImage DEF Amounts
<1>3. IsFiniteSet(S) /\ \A r \in C : r.movement \in S
  BY <1>1, <1>2 DEF MovementsOf
<1> HIDE DEF S, f
<1>4. Latest(S) \in S /\ \A k \in S \ {Latest(S)} : Before(k, Latest(S))
  BY <1>1, <1>3, LatestLast DEF S
<1>5. UpToCredit(C, Latest(S)) = C
  BY <1>3, <1>4 DEF UpToCredit
<1> QED
  BY <1>4, <1>5 DEF S

LEMMA CoveringFacts ==
  ASSUME JournalTypeOK, NEW C, Amounts(C), MovementsOf(C) \subseteq Sent, C # {}, NEW due \in Int
  PROVE  /\ CoveringMovements(C, due) \subseteq MovementsOf(C)
         /\ \A m \in MovementsOf(C) : /\ Total(UpToCredit(C, m)) \in Nat
                                      /\ Total(UpToCredit(C, m)) <= Total(C)
                                      /\ m \in CoveringMovements(C, due) <=>
                                           Total(UpToCredit(C, m)) >= due
         /\ Total(C) >= due <=> Latest(MovementsOf(C)) \in CoveringMovements(C, due)
         /\ Total(C) < due => CoveringMovements(C, due) = {}
<1>1. \A m \in MovementsOf(C) : UpToCredit(C, m) \in SUBSET C
  BY DEF UpToCredit
<1>2. \A m \in MovementsOf(C) : /\ Total(UpToCredit(C, m)) \in Nat
                                /\ Total(UpToCredit(C, m)) <= Total(C)
  BY <1>1, TotalFacts
<1>3. CoveringMovements(C, due) = {m \in MovementsOf(C) : Total(UpToCredit(C, m)) >= due}
  BY DEF CoveringMovements, UpToCredit
<1>4. Total(C) \in Nat
  BY TotalFacts
<1>5. Total(C) >= due <=> Latest(MovementsOf(C)) \in CoveringMovements(C, due)
  BY <1>3, LatestCovers
<1>6. Total(C) < due => CoveringMovements(C, due) = {}
  BY <1>2, <1>3, <1>4
<1> QED
  BY <1>2, <1>3, <1>5, <1>6

\* The transfer that syncOrderAccounting dates the payment from is the first that
\* covers what the credits had to cover: the price, or what the discount left of it.
LEMMA PaidByCovers ==
  ASSUME JournalTypeOK, NEW C, Amounts(C), MovementsOf(C) \subseteq Sent, C # {}
  PROVE  /\ PaidBy(C) \in MovementsOf(C)
         /\ Total(C) >= Obligation => IsEarliest(PaidBy(C), CoveringMovements(C, Obligation))
         /\ Total(C) < Obligation /\ LastPays(C) =>
              IsEarliest(PaidBy(C), CoveringMovements(C, Total(C)))
<1>1. Obligation \in Int /\ Total(C) \in Nat
  BY TotalFacts, StateAssumption
<1> DEFINE last == Latest(MovementsOf(C))
           covering == CoveringMovements(C, Obligation)
<1>2. ASSUME Total(C) >= Obligation
      PROVE  PaidBy(C) \in MovementsOf(C) /\ IsEarliest(PaidBy(C), covering)
  <2>1. covering # {} /\ covering \subseteq Sent /\ covering \subseteq MovementsOf(C)
    BY <1>1, <1>2, CoveringFacts
  <2>2. PaidBy(C) = Earliest(covering)
    BY <2>1 DEF PaidBy
  <2> HIDE DEF covering
  <2>3. Earliest(covering) \in covering
        /\ \A k \in covering \ {Earliest(covering)} : Before(Earliest(covering), k)
    BY <2>1, EarliestFirst
  <2> QED
    BY <2>1, <2>2, <2>3 DEF IsEarliest
<1>3. ASSUME Total(C) < Obligation
      PROVE  PaidBy(C) = last /\ last \in MovementsOf(C)
  <2>1. covering = {}
    BY <1>1, <1>3, CoveringFacts
  <2> QED
    BY <2>1, LatestCovers DEF PaidBy
<1>4. ASSUME Total(C) < Obligation, LastPays(C)
      PROVE  IsEarliest(last, CoveringMovements(C, Total(C)))
  <2>1. last \in CoveringMovements(C, Total(C))
    BY <1>1, CoveringFacts
  <2>2. PICK r \in C : r.movement = last
    BY LatestCovers DEF MovementsOf
  <2>3. \A q \in C : q.movement = last \/ Before(q.movement, last)
    BY LatestCovers DEF MovementsOf
  <2>4. r.fiat > 0 /\ r.fiat \in Nat /\ Total(C) = Total(C \ {r}) + r.fiat
    BY <1>4, <2>2, <2>3, TotalFacts DEF LastPays
  <2>5. ASSUME NEW k \in MovementsOf(C), k # last
        PROVE  k \notin CoveringMovements(C, Total(C))
    <3>1. Before(k, last) /\ k \in Sent /\ last \in Sent
      BY <2>5, LatestCovers
    <3>2. r \notin UpToCredit(C, k)
      BY <2>2, <2>5, <3>1, BeforeOrders DEF UpToCredit
    <3>3. UpToCredit(C, k) \in SUBSET (C \ {r}) /\ C \ {r} \in SUBSET C
      BY <3>2 DEF UpToCredit
    <3>4. Amounts(C \ {r}) /\ Total(C \ {r}) \in Nat
      BY <3>3, TotalFacts
    <3>5. Total(UpToCredit(C, k)) \in Nat /\ Total(UpToCredit(C, k)) <= Total(C \ {r})
      BY <3>3, <3>4, TotalFacts
    <3> QED
      BY <1>1, <2>4, <2>5, <3>4, <3>5, CoveringFacts
  <2>6. CoveringMovements(C, Total(C)) \subseteq {last}
    BY <1>1, <2>5, CoveringFacts
  <2> QED
    BY <2>1, <2>6 DEF IsEarliest
<1> QED
  BY <1>1, <1>2, <1>3, <1>4
-----------------------------------------------------------------------------
(* What is held is too little, so whatever releases it is worth something.  *)

HeldOn(i) == {k \in Sent : IsHeld(k) /\ Invoice(k) = i /\ movements[k].fiat > 0}
HeldSum(i) == SumFunction([k \in HeldOn(i) |-> movements[k].fiat])
OneHeldRate(i) ==
  \A j, k \in HeldOn(i) : Asset(j) = "GRAM" /\ Asset(k) = "GRAM" =>
    movements[j].rate = movements[k].rate

\* A held transfer is valued at the rate it was held with.
HeldFiat == \A k \in Sent : IsHeld(k) => movements[k].fiat = Fiat(k, movements[k].rate)

\* Nothing is held beside credits of the same attempt that are worth something.
HeldAlone == \A i \in Invoices : HeldOn(i) # {} => Total(CreditsOf(allocations, i)) = 0

\* Before a GRAM rate is locked, what is held at one rate is less than the minimum.
HeldSmall ==
  GramRates(allocations) = {} =>
    \A i \in Invoices : HeldOn(i) # {} /\ OneHeldRate(i) =>
      HeldSum(i) < Obligation /\ HeldSum(i) < Threshold

HeldSound == HeldFiat /\ HeldAlone /\ HeldSmall

\* What the decisions that hold write.
LEMMA HoldWrites ==
  ASSUME Journal, NEW m \in Movements, NEW code,
         HoldDust(m, code) \/ HoldUnderMinimum(m, code)
  PROVE  /\ m \in Sent /\ Values(m, code) /\ UNCHANGED <<world, allocations>>
         /\ \A k \in Movements \ {m} : movements'[k] = movements[k]
         /\ movements'[m].status = "HELD_UNDER_MINIMUM"
         /\ movements'[m].fiat = Fiat(m, movements'[m].rate)
         /\ movements[m].fiat \in {NoTime, movements'[m].fiat}
         /\ HoldDust(m, code) => movements'[m].fiat = 0
         /\ HoldUnderMinimum(m, code) =>
              /\ movements'[m].rate = GroupRate(m, m) /\ movements'[m].fiat = GroupFiat(m, m)
              /\ UnderMinimum(m)
<1>1. Values(m, code) /\ m \in Sent
  BY DEF HoldDust, HoldUnderMinimum, Values, Decides, Accepts, Journaled
<1>2. ASSUME NEW rate, NEW fiat, NEW reason, Hold(m, code, rate, fiat, reason)
      PROVE  /\ UNCHANGED <<world, allocations>>
             /\ \A k \in Movements \ {m} : movements'[k] = movements[k]
             /\ movements'[m].status = "HELD_UNDER_MINIMUM"
             /\ movements'[m].rate = rate /\ movements'[m].fiat = fiat
             /\ movements[m].fiat \in {NoTime, fiat}
  BY <1>2 DEF Hold, KeepsEvidence, Journal, JournalTypeOK
<1>3. CASE HoldDust(m, code)
  <2>1. Fiat(m, OwnRate(m)) = 0
        /\ Hold(m, code, OwnRate(m), 0, "PAYMENT_BELOW_ACCOUNTING_PRECISION")
    BY <1>3 DEF HoldDust
  <2>2. ~ HoldUnderMinimum(m, code)
    BY <2>1 DEF HoldUnderMinimum
  <2> QED
    BY <1>1, <1>2, <2>1, <2>2
<1>4. CASE HoldUnderMinimum(m, code)
  <2>1. /\ UnderMinimum(m) /\ Fiat(m, OwnRate(m)) # 0
        /\ Hold(m, code, GroupRate(m, m), GroupFiat(m, m), "INITIAL_PAYMENT_UNDER_MINIMUM")
    BY <1>4 DEF HoldUnderMinimum
  <2>2. ~ HoldDust(m, code)
    BY <2>1 DEF HoldDust
  <2> QED
    BY <1>1, <1>2, <2>1, <2>2 DEF GroupFiat
<1> QED
  BY <1>3, <1>4

LEMMA HeldFiatStep ==
  ASSUME Journal, HeldFiat, [Next]_vars
  PROVE  HeldFiat'
<1> SUFFICES ASSUME NEW k \in Sent', IsHeld(k)'
             PROVE  (movements[k].fiat = Fiat(k, movements[k].rate))'
  BY DEF HeldFiat
<1>1. k \in Movements /\ movements'[k].status = "HELD_UNDER_MINIMUM"
  BY DEF Sent, IsHeld
<1>2. CASE IsHeld(k) /\ movements'[k] = movements[k]
  <2>1. k \in Sent
    BY <1>1, <1>2 DEF Journal, Evidence, IsHeld
  <2>2. chain'[k] = chain[k] /\ movements[k].fiat = Fiat(k, movements[k].rate)
    BY <1>2, <2>1, ChainKept DEF HeldFiat
  <2> QED
    BY <1>2, <2>2 DEF Fiat, Asset
<1>3. ASSUME NEW code \in ValidationCodes, HoldDust(k, code) \/ HoldUnderMinimum(k, code)
      PROVE  (movements[k].fiat = Fiat(k, movements[k].rate))'
  <2>1. movements'[k].fiat = Fiat(k, movements'[k].rate) /\ UNCHANGED world
    BY <1>1, <1>3, HoldWrites
  <2> QED
    BY <2>1 DEF Fiat, Asset, world
<1> QED
  BY <1>1, <1>2, <1>3, HeldStep

\* GRAM rates that are locked stay locked.
LEMMA GramRatesStay ==
  ASSUME Journal, [Next]_vars, GramRates(allocations)' = {}
  PROVE  GramRates(allocations) = {}
<1> SUFFICES ASSUME NEW r \in allocations, r.kind = "CREDIT", Asset(r.movement) = "GRAM"
             PROVE  FALSE
  BY DEF GramRates
<1>1. Asset(r.movement)' = "GRAM"
  BY GramRatesKept
<1>2. r \in allocations'
  <2>1. ASSUME NEW m \in Movements, NEW code \in ValidationCodes, CreditGroup(m, code)
        PROVE  r \in allocations'
    BY <2>1, CreditGroupEffect
  <2>2. ASSUME NEW q \in allocations, ReverseAllocation(q)
        PROVE  r \in allocations'
    BY <2>2 DEF ReverseAllocation
  <2> QED
    BY <2>1, <2>2, CreditsStep
<1> QED
  BY <1>1, <1>2 DEF GramRates

\* Crediting releases all that its attempt holds.
LEMMA GroupReleases ==
  ASSUME Journal, NEW m \in Movements, NEW code, CreditGroup(m, code), NEW i
  PROVE  IF Invoice(m) = i THEN HeldOn(i)' = {}
         ELSE HeldOn(i)' = HeldOn(i) /\ \A k \in HeldOn(i) : movements'[k] = movements[k]
<1>1. movements' = Claimed(m, code) /\ UNCHANGED world /\ Values(m, code)
  BY CreditGroupEffect
<1>2. \A k \in Movements : IF k \in Group(m) THEN movements'[k].status = "CREDITED"
                           ELSE movements'[k] = movements[k]
  BY <1>1 DEF Claimed
<1>3. \A k \in Group(m) : k \in Sent /\ Invoice(k) = Invoice(m)
  BY <1>1, GroupFacts
<1>4. Sent' = Sent /\ \A k : Invoice(k)' = Invoice(k)
  BY <1>1 DEF Sent, Invoice, world
<1>5. ASSUME Invoice(m) = i, NEW k \in HeldOn(i)'
      PROVE  FALSE
  <2>1. k \in Sent /\ k \in Movements /\ Invoice(k) = Invoice(m)
        /\ movements'[k].status = "HELD_UNDER_MINIMUM" /\ movements'[k].fiat > 0
    BY <1>4, <1>5 DEF HeldOn, IsHeld, Sent
  <2>2. k \notin Group(m) /\ movements'[k] = movements[k]
    BY <1>2, <2>1
  <2> QED
    BY <2>1, <2>2 DEF Group, Held, IsHeld
<1>6. ASSUME Invoice(m) # i
      PROVE  HeldOn(i)' = HeldOn(i) /\ \A k \in HeldOn(i) : movements'[k] = movements[k]
  <2>1. \A k \in Sent : Invoice(k) = i => k \in Movements /\ movements'[k] = movements[k]
    BY <1>2, <1>3, <1>6 DEF Sent
  <2> QED
    BY <1>4, <2>1 DEF HeldOn, IsHeld
<1> QED
  BY <1>5, <1>6

\* Before a GRAM rate is locked, nothing else releases it.
LEMMA HeldStays ==
  ASSUME Journal, [Next]_vars, GramRates(allocations) = {}, NEW i, NEW k \in HeldOn(i),
         \A m \in Movements, code \in ValidationCodes : ~ CreditGroup(m, code)
  PROVE  k \in HeldOn(i)'
<1>1. k \in Sent /\ k \in Movements /\ Invoice(k) = i /\ movements[k].fiat > 0
      /\ movements[k].status = "HELD_UNDER_MINIMUM"
  BY DEF HeldOn, IsHeld, Sent
<1>2. k \in Sent' /\ Invoice(k)' = i
  BY <1>1, ChainKept DEF Invoice
<1>3. movements'[k].status = "HELD_UNDER_MINIMUM" /\ movements'[k].fiat = movements[k].fiat
  <2>1. CASE UNCHANGED movements
    BY <1>1, <2>1
  <2>2. ASSUME NEW m \in Movements, RecordObserved(m) \/ RecordRejected(m)
        PROVE  movements'[k] = movements[k]
    BY <1>1, <2>2 DEF RecordObserved, RecordRejected, Journal, JournalTypeOK
  <2>3. ASSUME NEW m \in Movements, NEW code \in ValidationCodes,
               HoldDust(m, code) \/ HoldUnderMinimum(m, code)
        PROVE  movements'[k].status = "HELD_UNDER_MINIMUM" /\ movements'[k].fiat = movements[k].fiat
    <3>1. CASE k = m
      BY <1>1, <2>3, <3>1, HoldWrites DEF NoTime
    <3>2. CASE k # m
      BY <1>1, <2>3, <3>2, HoldWrites
    <3> QED
      BY <3>1, <3>2
  <2>4. ASSUME NEW m \in Movements, NEW code \in ValidationCodes, AwaitRate(m, code)
        PROVE  movements'[k] = movements[k]
    <3>1. k # m
      BY <1>1, <2>4 DEF AwaitRate, RatePends, IsHeld
    <3> QED
      BY <1>1, <2>4, <3>1 DEF AwaitRate, Journal, JournalTypeOK
  <2>5. ASSUME NEW m \in Movements, NEW code \in ValidationCodes
        PROVE  ~ RecoverRateLock(m, code)
    BY DEF RecoverRateLock, LockPredates, RateLocked
  <2>6. ASSUME NEW m \in Movements, NEW code \in ValidationCodes,
               CreditReplay(m, code) \/ Defer(m, code)
        PROVE  UNCHANGED movements
    BY <2>6 DEF CreditReplay, Defer
  <2>7. CASE Ledger
    BY <1>1, <2>1, <2>2, <2>3, <2>4, <2>5, <2>6, <2>7 DEF Ledger, CreditMovement, ReverseAllocation
  <2> QED
    BY <2>1, <2>7, CheckoutFrame, EnvironmentFrame DEF Next
<1> QED
  BY <1>1, <1>2, <1>3 DEF HeldOn, IsHeld

\* What becomes of the transfers an attempt holds.
LEMMA HeldOnStep ==
  ASSUME Journal, [Next]_vars, NEW i
  PROVE  \/ /\ HeldOn(i)' \subseteq HeldOn(i)
            /\ \A k \in HeldOn(i)' : movements'[k] = movements[k] /\ chain'[k] = chain[k]
            /\ GramRates(allocations) = {} => HeldOn(i)' \in {{}, HeldOn(i)}
         \/ \E m \in Movements, code \in ValidationCodes :
              HoldUnderMinimum(m, code) /\ Invoice(m) = i /\ movements'[m].fiat > 0
<1> SUFFICES ASSUME \A m \in Movements, code \in ValidationCodes :
                      ~ (HoldUnderMinimum(m, code) /\ Invoice(m) = i /\ movements'[m].fiat > 0)
             PROVE  /\ HeldOn(i)' \subseteq HeldOn(i)
                    /\ \A k \in HeldOn(i)' : movements'[k] = movements[k] /\ chain'[k] = chain[k]
                    /\ GramRates(allocations) = {} => HeldOn(i)' \in {{}, HeldOn(i)}
  OBVIOUS
<1>1. ASSUME NEW k \in HeldOn(i)'
      PROVE  k \in HeldOn(i) /\ movements'[k] = movements[k] /\ chain'[k] = chain[k]
  <2>1. k \in Movements /\ movements'[k].status = "HELD_UNDER_MINIMUM"
        /\ movements'[k].fiat > 0 /\ Invoice(k)' = i
    BY <1>1 DEF HeldOn, Sent, IsHeld
  <2>2. CASE IsHeld(k) /\ movements'[k] = movements[k]
    <3>1. k \in Sent
      BY <2>1, <2>2 DEF Journal, Evidence, IsHeld
    <3>2. chain'[k] = chain[k]
      BY <3>1, ChainKept
    <3> QED
      BY <2>1, <2>2, <3>1, <3>2 DEF HeldOn, Invoice
  <2>3. ASSUME NEW code \in ValidationCodes, HoldDust(k, code) \/ HoldUnderMinimum(k, code)
        PROVE  FALSE
    <3>1. UNCHANGED chain
      BY <2>1, <2>3, HoldWrites DEF world
    <3>2. Invoice(k) = i
      BY <2>1, <3>1 DEF Invoice
    <3> QED
      BY <2>1, <2>3, <3>2, HoldWrites
  <2> QED
    BY <2>1, <2>2, <2>3, HeldStep
<1>2. ASSUME GramRates(allocations) = {}
      PROVE  HeldOn(i)' \in {{}, HeldOn(i)}
  <2>1. ASSUME NEW m \in Movements, NEW code \in ValidationCodes, CreditGroup(m, code)
        PROVE  HeldOn(i)' \in {{}, HeldOn(i)}
    BY <2>1, GroupReleases
  <2>2. CASE \A m \in Movements, code \in ValidationCodes : ~ CreditGroup(m, code)
    BY <1>1, <1>2, <2>2, HeldStays
  <2> QED
    BY <2>1, <2>2
<1> QED
  BY <1>1, <1>2

LEMMA CreditsOfStep ==
  ASSUME Journal, [Next]_vars, NEW i
  PROVE  \/ CreditsOf(allocations', i) \subseteq CreditsOf(allocations, i)
         \/ \E m \in Movements, code \in ValidationCodes : CreditGroup(m, code) /\ Invoice(m) = i
<1>1. ASSUME NEW m \in Movements, NEW code \in ValidationCodes, CreditGroup(m, code), Invoice(m) # i
      PROVE  CreditsOf(allocations', i) \subseteq CreditsOf(allocations, i)
  BY <1>1, CreditGroupCredits DEF CreditsOf, GroupCredits
<1>2. ASSUME NEW r \in allocations, ReverseAllocation(r)
      PROVE  CreditsOf(allocations', i) \subseteq CreditsOf(allocations, i)
  BY <1>2, ReversedCredits DEF CreditsOf, ReverseAllocation, Journal, JournalTypeOK
<1> QED
  BY <1>1, <1>2, CreditsStep DEF CreditsOf

LEMMA HeldAloneStep ==
  ASSUME Journal, Typed, HeldAlone, [Next]_vars
  PROVE  HeldAlone'
<1> SUFFICES ASSUME NEW i \in Invoices, HeldOn(i)' # {}
             PROVE  Total(CreditsOf(allocations', i)) = 0
  BY DEF HeldAlone
<1>1. /\ Amounts(CreditsOf(allocations, i)) /\ Total(CreditsOf(allocations, i)) \in Nat
      /\ Total(CreditsOf(allocations, i)) <= NetCredit(allocations)
  BY SumsNow, SumsType
<1>2. ASSUME NEW m \in Movements, NEW code \in ValidationCodes, HoldUnderMinimum(m, code)
      PROVE  Total(CreditsOf(allocations', i)) = 0
  <2>1. UNCHANGED allocations /\ NetCredit(allocations) = 0
    BY <1>2, HoldWrites DEF UnderMinimum
  <2> QED
    BY <1>1, <2>1
<1>3. ASSUME HeldOn(i)' \subseteq HeldOn(i)
      PROVE  Total(CreditsOf(allocations', i)) = 0
  <2>1. Total(CreditsOf(allocations, i)) = 0
    BY <1>3 DEF HeldAlone
  <2>2. CreditsOf(allocations', i) \subseteq CreditsOf(allocations, i)
    BY CreditsOfStep, GroupReleases
  <2>3. /\ Total(CreditsOf(allocations', i)) \in Nat
        /\ Total(CreditsOf(allocations', i)) <= Total(CreditsOf(allocations, i))
    BY <1>1, <2>2, TotalFacts
  <2> QED
    BY <2>1, <2>3
<1> QED
  BY <1>2, <1>3, HeldOnStep

\* What is held together with the transfer just held is what was summed up.
LEMMA HeldIsGroup ==
  ASSUME Journal, HeldFiat, NEW m \in Movements, NEW code, HoldUnderMinimum(m, code),
         movements'[m].fiat > 0, OneHeldRate(Invoice(m))'
  PROVE  HeldSum(Invoice(m))' = Activating(m)
<1> DEFINE i == Invoice(m)
<1>1. /\ m \in Sent /\ Values(m, code) /\ UNCHANGED world
      /\ \A k \in Movements \ {m} : movements'[k] = movements[k]
      /\ movements'[m].status = "HELD_UNDER_MINIMUM"
      /\ movements'[m].rate = GroupRate(m, m) /\ movements'[m].fiat = GroupFiat(m, m)
  BY HoldWrites
<1>2. Sent' = Sent /\ \A k : Invoice(k)' = Invoice(k) /\ Asset(k)' = Asset(k)
  BY <1>1 DEF Sent, Invoice, Asset, world
<1>3. HeldOn(i)' = Group(m)
  BY <1>1, <1>2 DEF HeldOn, Group, Held, IsHeld, Sent
<1>4. GramGroup(m) \subseteq Group(m) /\ Group(m) \subseteq Sent
  BY <1>1, GroupFacts DEF GramGroup
<1>5. \A j, k \in GramGroup(m) : movements'[j].rate = movements'[k].rate
  BY <1>2, <1>3, <1>4 DEF OneHeldRate, GramGroup
<1>6. ASSUME NEW k \in Group(m), k # m
      PROVE  GroupRate(m, k) = movements[k].rate
  <2>1. movements'[k] = movements[k] /\ BaseRate(m, k) = movements[k].rate
    BY <1>1, <1>4, <1>6 DEF Sent, BaseRate
  <2>2. CASE Asset(k) # "GRAM"
    BY <2>1, <2>2 DEF GroupRate
  <2>3. CASE Asset(k) = "GRAM"
    <3> DEFINE e == Earliest(GramGroup(m))
    <3>1. k \in GramGroup(m) /\ GramGroup(m) \subseteq Sent
      BY <1>4, <2>3 DEF GramGroup
    <3>2. e \in GramGroup(m)
      BY <3>1, EarliestFirst DEF Journal
    <3>3. GroupRate(m, k) = BaseRate(m, e)
      BY <2>3 DEF GroupRate
    <3>4. CASE e = m
      <4>1. Asset(m) = "GRAM" /\ GroupRate(m, m) = BaseRate(m, e)
        BY <3>2, <3>4 DEF GramGroup, GroupRate
      <4>2. movements'[m].rate = movements'[k].rate
        BY <1>5, <3>1, <3>2, <3>4
      <4> QED
        BY <1>1, <2>1, <3>3, <4>1, <4>2
    <3>5. CASE e # m
      <4> HIDE DEF e
      <4>1. e \in Movements /\ movements'[e] = movements[e] /\ BaseRate(m, e) = movements[e].rate
        BY <1>1, <1>4, <3>2, <3>5 DEF Sent, BaseRate
      <4>2. movements'[e].rate = movements'[k].rate
        BY <1>5, <3>1, <3>2
      <4> QED
        BY <2>1, <3>3, <4>1, <4>2
    <3> QED
      BY <3>4, <3>5
  <2> QED
    BY <2>2, <2>3
<1>7. \A k \in Group(m) : movements'[k].fiat = GroupFiat(m, k)
  <2> SUFFICES ASSUME NEW k \in Group(m), k # m PROVE movements'[k].fiat = GroupFiat(m, k)
    BY <1>1
  <2>1. movements'[k] = movements[k] /\ k \in Sent /\ IsHeld(k)
    BY <1>1, <1>4 DEF Sent, Group, Held
  <2>2. movements[k].fiat = Fiat(k, movements[k].rate)
    BY <2>1 DEF HeldFiat
  <2> QED
    BY <1>6, <2>1, <2>2 DEF GroupFiat
<1>8. [k \in HeldOn(i)' |-> movements'[k].fiat] = [k \in Group(m) |-> GroupFiat(m, k)]
  BY <1>3, <1>7
<1>9. HeldSum(i)' = SumFunction([k \in HeldOn(i)' |-> movements'[k].fiat])
  BY <1>2 DEF HeldSum, HeldOn
<1> QED
  BY <1>2, <1>8, <1>9 DEF Activating

LEMMA HeldSmallStep ==
  ASSUME Journal, HeldFiat, HeldSmall, [Next]_vars
  PROVE  HeldSmall'
<1> SUFFICES ASSUME GramRates(allocations)' = {}, NEW i \in Invoices,
                    HeldOn(i)' # {}, OneHeldRate(i)'
             PROVE  (HeldSum(i) < Obligation /\ HeldSum(i) < Threshold)'
  BY DEF HeldSmall
<1>1. GramRates(allocations) = {}
  BY GramRatesStay
<1>2. ASSUME NEW m \in Movements, NEW code \in ValidationCodes,
             HoldUnderMinimum(m, code), Invoice(m) = i, movements'[m].fiat > 0
      PROVE  (HeldSum(i) < Obligation /\ HeldSum(i) < Threshold)'
  <2>1. UnderMinimum(m) /\ UNCHANGED world
    BY <1>2, HoldWrites
  <2>2. Invoice(m)' = i
    BY <1>2, <2>1 DEF Invoice, world
  <2>3. HeldSum(i)' = Activating(m)
    BY <1>2, <2>2, HeldIsGroup
  <2> QED
    BY <2>1, <2>3 DEF UnderMinimum
<1>3. ASSUME HeldOn(i)' = HeldOn(i),
             \A k \in HeldOn(i)' : movements'[k] = movements[k] /\ chain'[k] = chain[k]
      PROVE  (HeldSum(i) < Obligation /\ HeldSum(i) < Threshold)'
  <2>1. OneHeldRate(i)
    BY <1>3 DEF OneHeldRate, Asset
  <2>2. HeldSum(i)' = HeldSum(i)
    <3>1. [k \in HeldOn(i)' |-> movements'[k].fiat] = [k \in HeldOn(i) |-> movements[k].fiat]
      BY <1>3
    <3> QED
      BY <3>1 DEF HeldSum
  <2> QED
    BY <1>1, <1>3, <2>1, <2>2 DEF HeldSmall
<1> QED
  BY <1>1, <1>2, <1>3, HeldOnStep

\* A credit that is not forced releases transfers that are worth something each.
LEMMA CreditedPays ==
  ASSUME Journal, Typed, OneGramRate, HeldSound, NEW m \in Movements, NEW code,
         CreditGroup(m, code), ~ ForceRecovery(m), NEW k \in Group(m)
  PROVE  GroupFiat(m, k) > 0
<1>1. /\ Values(m, code) /\ Fiat(m, OwnRate(m)) # 0 /\ ~ UnderMinimum(m) /\ CreditsAllowed(m)
      /\ Group(m) \subseteq Sent /\ m \in Group(m) /\ m \in Sent /\ Invoice(m) \in Invoices
      /\ \A j \in Group(m) : GroupFiat(m, j) \in Nat
  BY CreditGroupEffect, GroupFacts, AttemptOfSent DEF CreditGroup, Journal
<1>2. \A j \in Group(m) : /\ movements[j].rate \in {NoTime, GroupRate(m, j)}
                          /\ movements[j].fiat \in {NoTime, GroupFiat(m, j)}
  BY <1>1 DEF CreditsAllowed, KeepsEvidence
<1>3. \A j \in Held(m) : movements[j].fiat = GroupFiat(m, j) /\ GroupFiat(m, j) > 0
  BY <1>2 DEF Held, Group, NoTime
<1>4. GroupRate(m, m) = OwnRate(m) => GroupFiat(m, m) > 0
  BY <1>1 DEF GroupFiat
<1>5. CASE IsHeld(m)
  <2>1. movements[m].rate \in Times /\ OwnRate(m) = movements[m].rate
    BY <1>5 DEF Journal, Evidence, OwnRate
  <2>2. GroupRate(m, m) = OwnRate(m)
    BY <1>1, <1>2, <2>1 DEF Times, NoTime
  <2> QED
    BY <1>3, <1>4, <2>2 DEF Group
<1>6. CASE Asset(m) # "GRAM"
  <2>1. GroupRate(m, m) = OwnRate(m)
    BY <1>6 DEF GroupRate, BaseRate
  <2> QED
    BY <1>3, <1>4, <2>1 DEF Group
<1>7. CASE ~ IsHeld(m) /\ Asset(m) = "GRAM" /\ GramRates(allocations) # {}
  <2>1. OwnRate(m) = LockedRate /\ LockedRate \in GramRates(allocations)
    BY <1>7 DEF OwnRate, RateLocked, LockedRate
  <2>2. GroupRate(m, m) \in GramRates(allocations)
    BY <1>1, <1>7 DEF CreditsAllowed, KeepsGramRate, GramGroup
  <2> QED
    BY <1>3, <1>4, <2>1, <2>2 DEF OneGramRate, Group
<1>8. CASE Held(m) = {}
  <2>1. Group(m) = {m} /\ m \in Sent /\ {m} \subseteq Sent
    BY <1>1, <1>8 DEF Group
  <2>2. Earliest({m}) = m
    BY <2>1, EarliestFirst DEF Journal
  <2>3. GroupRate(m, m) = OwnRate(m)
    <3>1. Asset(m) = "GRAM" => GramGroup(m) = {m}
      BY <2>1 DEF GramGroup
    <3> QED
      BY <2>2, <3>1 DEF GroupRate, BaseRate
  <2> QED
    BY <1>4, <2>1, <2>3
<1>9. CASE ~ IsHeld(m) /\ GramRates(allocations) = {} /\ Held(m) # {} /\ GroupFiat(m, m) = 0
  <2> DEFINE i == Invoice(m)
             f == [j \in Group(m) |-> GroupFiat(m, j)]
             g == [j \in Held(m) |-> movements[j].fiat]
  <2>1. HeldOn(i) = Held(m) /\ m \notin Held(m) /\ Group(m) = Held(m) \cup {m}
    BY <1>9 DEF HeldOn, Held, Group
  <2>2. OneHeldRate(i)
    <3>1. \A j \in Held(m) : Asset(j) = "GRAM" =>
            movements[j].rate = BaseRate(m, Earliest(GramGroup(m)))
      <4>1. \A j \in Held(m) : j \in Movements /\ IsHeld(j) /\ movements[j].rate # NoTime
        BY DEF Held, Sent, Journal, Evidence, Times, NoTime
      <4> QED
        BY <1>2, <2>1, <4>1 DEF GroupRate
    <3> QED
      BY <2>1, <3>1 DEF OneHeldRate
  <2>3. HeldSum(i) < Obligation /\ HeldSum(i) < Threshold
    BY <1>1, <1>9, <2>1, <2>2 DEF HeldSound, HeldSmall
  <2>4. NetCredit(allocations) = 0
    <3>1. \A r \in ActiveCredits(allocations) : r.invoice = i
      BY DEF ForceRecovery, MultipleFundedDeposits
    <3>2. CreditsOf(allocations, i) = ActiveCredits(allocations)
      BY <3>1 DEF CreditsOf
    <3> QED
      BY <1>1, <1>9, <2>1, <3>2 DEF HeldSound, HeldAlone, NetCredit
  <2>5. Activating(m) = HeldSum(i)
    <3>1. /\ Activating(m) = SumFunctionOnSet(f, Group(m))
          /\ HeldSum(i) = SumFunctionOnSet(g, Held(m))
      BY <2>1 DEF Activating, HeldSum, SumFunction
    <3>2. IsFiniteSet(Group(m)) /\ IsFiniteSet(Held(m)) /\ Group(m) \ {m} = Held(m)
      BY <1>1, <2>1, FS_Subset DEF Typed, Finite
    <3>3. /\ \A j \in Group(m) : f[j] \in Nat /\ f[j] \in Int
          /\ \A j \in Held(m) : f[j] = g[j]
          /\ f[m] = 0 /\ m \in Group(m)
      BY <1>1, <1>3, <1>9, <2>1
    <3> HIDE DEF f, g
    <3>4. SumFunctionOnSet(f, Group(m)) = SumFunctionOnSet(f, Held(m)) + f[m]
      BY <3>2, <3>3, SumAdds
    <3>5. SumFunctionOnSet(f, Held(m)) = SumFunctionOnSet(g, Held(m))
      BY <3>2, <3>3, SumAgrees
    <3>6. SumFunctionOnSet(f, Held(m)) \in Int
      BY <3>2, <3>3, SubsetSumType
    <3> QED
      BY <3>1, <3>3, <3>4, <3>5, <3>6
  <2> QED
    BY <1>1, <2>3, <2>4, <2>5 DEF UnderMinimum
<1>10. GroupFiat(m, m) # 0 => GroupFiat(m, m) > 0
  BY <1>1
<1> QED
  BY <1>3, <1>5, <1>6, <1>7, <1>8, <1>9, <1>10 DEF Group
-----------------------------------------------------------------------------
(* The payment dates from the transfer that covered the order.              *)

\* Of a credit that is not forced, the last transfer of the order is a part, and it
\* is worth something.
LEMMA GroupLastPays ==
  ASSUME Journal, Typed, OneGramRate, HeldSound, NEW m \in Movements, NEW code,
         CreditGroup(m, code), ~ ForceRecovery(m)
  PROVE  LastPays(ActiveCredits(allocations'))
<1>1. /\ m \in Sent /\ m \in Group(m) /\ movements[m].status # "CREDITED" /\ ~ OutOfOrder(m)
      /\ ActiveCredits(allocations') = ActiveCredits(allocations) \cup GroupCredits(m)
  BY CreditGroupEffect, GroupFacts, CreditGroupCredits
  DEF Values, Decides, Accepts, Journaled, ForceRecovery
<1>2. PICK p \in GroupCredits(m) : p.movement = m
  <2> DEFINE q == [kind |-> "CREDIT", movement |-> m, invoice |-> Invoice(m), fiat |-> GroupFiat(m, m)]
  <2>1. q \in GroupCredits(m) /\ q.movement = m
    BY <1>1 DEF GroupCredits
  <2> QED
    BY <2>1
<1>3. ASSUME NEW r \in ActiveCredits(allocations)
      PROVE  ~ (p.movement = r.movement \/ Before(p.movement, r.movement))
  <2>1. Before(r.movement, m) /\ r.movement \in Sent
    BY <1>1, InOrder, CreditFacts
  <2> QED
    BY <1>1, <1>2, <2>1, BeforeOrders DEF Journal
<1>4. \A r \in GroupCredits(m) : r.fiat > 0
  BY CreditedPays DEF GroupCredits
<1> QED
  BY <1>1, <1>3, <1>4 DEF LastPays

\* The last credited transfer of an active attempt is worth something.
LatestPays == \A i \in Invoices : Active(i) => LastPays(CreditsOf(allocations, i))

LEMMA BeforeKept ==
  ASSUME Journal, [Next]_vars
  PROVE  \A k, m \in Sent : Before(k, m)' <=> Before(k, m)
BY ChainKept DEF Before, At

\* An attempt with credits becomes active by a credit only.
LEMMA ActiveBefore ==
  ASSUME Journal, Typed, AttemptRows, Frozen, Granted, [Next]_vars, UNCHANGED allocations,
         NEW i \in Invoices, Active(i)', CreditsOf(allocations, i) # {}
  PROVE  Active(i)
<1>1. invoices \in [Invoices -> InvoiceRows]
  BY DEF Typed, TypeOK
<1>2. invoices[i].status # "ABSENT"
  <2>1. PICK r \in ActiveCredits(allocations) : r.invoice = i
    BY DEF CreditsOf
  <2> QED
    BY <2>1, CreditFacts DEF Frozen
<1>3. ASSUME NEW m \in Sent, invoices' = LockSelection(Invoice(m))
      PROVE  Active(i)
  BY <1>1, <1>3, LockFields, AttemptOfSent DEF Active, Journal
<1>4. ASSUME NEW m \in Sent, Grants(m)
      PROVE  Active(i)
  BY <1>4, GrantSettles DEF Active, ActiveStatuses
<1>5. ASSUME NEW m \in Movements, NEW code \in ValidationCodes, CreditGroup(m, code)
      PROVE  FALSE
  <2>1. m \in Group(m)
    BY <1>5, CreditGroupEffect, GroupFacts
  <2>2. GroupCredits(m) # {}
    BY <2>1 DEF GroupCredits
  <2>3. GroupCredits(m) \subseteq allocations
    BY <1>5, CreditGroupEffect DEF GroupCredits
  <2> QED
    BY <1>5, <2>2, <2>3, CreditGroupCredits
<1>6. ASSUME NEW r \in allocations, ReverseAllocation(r)
      PROVE  Active(i)
  BY <1>6, ReversalSettles DEF Active, ActiveStatuses
<1>7. ASSUME NEW j, NEW row, Alters(j, row)
      PROVE  Active(i)
  BY <1>2, <1>7 DEF Alters, Active, ActiveStatuses
<1>8. CASE UNCHANGED invoices
  BY <1>8 DEF Active
<1>9. CASE Ledger
  BY <1>3, <1>4, <1>5, <1>6, <1>8, <1>9, LedgerWrites DEF Quiet
<1> QED
  BY <1>7, <1>8, <1>9, CheckoutAlters, EnvironmentFrame DEF Next

LEMMA LatestPaysStep ==
  ASSUME Journal, Typed, AttemptRows, Frozen, Granted, OneGramRate, HeldSound, LatestPays,
         [Next]_vars
  PROVE  LatestPays'
<1> SUFFICES ASSUME NEW i \in Invoices, Active(i)' PROVE LastPays(CreditsOf(allocations, i))'
  BY DEF LatestPays
<1>1. \A r \in ActiveCredits(allocations) : r.movement \in Sent
  BY CreditFacts
<1>2. ASSUME NEW m \in Movements, NEW code \in ValidationCodes, CreditGroup(m, code)
      PROVE  /\ LastPays(CreditsOf(allocations', i))
             /\ \A r \in CreditsOf(allocations', i) : r.movement \in Sent
  <2>1. \A r \in ActiveCredits(allocations') : r.movement \in Sent
    BY <1>2, SumsAfterGroup DEF Sums, MovementsOf
  <2>2. ASSUME ForceRecovery(m)
        PROVE  LastPays(CreditsOf(allocations', i))
    <3>1. i # Invoice(m) /\ invoices'[i] = invoices[i]
      BY <1>2, <2>2, ForcedSettles DEF Active
    <3>2. CreditsOf(allocations', i) = CreditsOf(allocations, i)
      BY <1>2, <3>1, CreditGroupCredits DEF CreditsOf, GroupCredits
    <3>3. Active(i)
      BY <3>1 DEF Active
    <3> QED
      BY <3>2, <3>3 DEF LatestPays
  <2>3. ASSUME ~ ForceRecovery(m)
        PROVE  LastPays(CreditsOf(allocations', i))
    <3>1. CreditsOf(allocations', Invoice(m)) = ActiveCredits(allocations')
      BY <1>2, <2>3, CreditSettles
    <3>2. CASE i = Invoice(m)
      BY <1>2, <2>3, <3>1, <3>2, GroupLastPays
    <3>3. CASE i # Invoice(m)
      <4>1. CreditsOf(allocations', i) = {}
        BY <3>1, <3>3 DEF CreditsOf
      <4> QED
        BY <4>1 DEF LastPays
    <3> QED
      BY <3>2, <3>3
  <2> QED
    BY <2>1, <2>2, <2>3 DEF CreditsOf
<1>3. ASSUME NEW q \in allocations, ReverseAllocation(q)
      PROVE  /\ LastPays(CreditsOf(allocations', i))
             /\ \A r \in CreditsOf(allocations', i) : r.movement \in Sent
  <2>1. i # q.invoice /\ invoices'[i] = invoices[i]
    BY <1>3, ReversalSettles DEF Active, ActiveStatuses
  <2>2. CreditsOf(allocations', i) = CreditsOf(allocations, i)
    BY <1>3, <2>1, SumsAfterReversal DEF CreditsOf
  <2>3. Active(i)
    BY <2>1 DEF Active
  <2> QED
    BY <1>1, <2>2, <2>3 DEF LatestPays, CreditsOf
<1>4. ASSUME UNCHANGED allocations
      PROVE  /\ LastPays(CreditsOf(allocations', i))
             /\ \A r \in CreditsOf(allocations', i) : r.movement \in Sent
  <2>1. CASE CreditsOf(allocations, i) = {}
    BY <1>4, <2>1 DEF LastPays
  <2>2. CASE CreditsOf(allocations, i) # {}
    <3>1. Active(i)
      BY <1>4, <2>2, ActiveBefore
    <3> QED
      BY <1>1, <1>4, <3>1 DEF LatestPays, CreditsOf
  <2> QED
    BY <2>1, <2>2
<1>5. PICK C : C = CreditsOf(allocations', i)
  OBVIOUS
<1>6. LastPays(C) /\ \A r \in C : r.movement \in Sent
  BY <1>2, <1>3, <1>4, <1>5, CreditsStep
<1>7. \A q, r \in C : Before(q.movement, r.movement)' <=> Before(q.movement, r.movement)
  BY <1>6, BeforeKept
<1> QED
  BY <1>5, <1>6, <1>7 DEF LastPays

\* A transfer at the time t is the first that covers what is due.
CoveredAt(C, due, t) ==
  \E m \in MovementsOf(C) : At(m) = t /\ IsEarliest(m, CoveringMovements(C, due))

PaidCovered ==
  order.status = "PAID" =>
    /\ NetCredit(allocations) + NetDiscount(adjustments) >= Obligation
    /\ CoveredAt(ActiveCredits(allocations), Obligation - NetDiscount(adjustments), order.paidAt)

\* The order of the transfers on the chain does not change.
LEMMA CoveredKept ==
  ASSUME Journal, [Next]_vars, NEW C, NEW due, NEW t, MovementsOf(C) \subseteq Sent,
         CoveredAt(C, due, t)
  PROVE  CoveredAt(C, due, t)'
<1> DEFINE upto(m) == {r \in C : r.movement = m \/ Before(r.movement, m)'}
           covering == {m \in MovementsOf(C) : Total(upto(m)) >= due}
<1>1. \A r \in C : r.movement \in MovementsOf(C)
  BY DEF MovementsOf
<1>2. \A k, m \in MovementsOf(C) : Before(k, m)' <=> Before(k, m)
  BY BeforeKept
<1>3. \A m \in MovementsOf(C) : upto(m) = {r \in C : r.movement = m \/ Before(r.movement, m)}
  BY <1>1, <1>2
<1>4. PICK S : S = covering
  OBVIOUS
<1>5. S = CoveringMovements(C, due) /\ S \subseteq MovementsOf(C)
  <2> HIDE DEF upto
  <2> QED
    BY <1>3, <1>4 DEF CoveringMovements
<1>6. S = CoveringMovements(C, due)'
  BY <1>4 DEF CoveringMovements
<1>7. PICK m \in MovementsOf(C) : At(m) = t /\ IsEarliest(m, S)
  BY <1>5 DEF CoveredAt
<1>8. At(m)' = t /\ m \in S /\ \A k \in S \ {m} : Before(m, k)'
  BY <1>2, <1>5, <1>7, ChainKept DEF IsEarliest, At
<1> HIDE DEF covering
<1> QED
  BY <1>6, <1>8 DEF CoveredAt, IsEarliest

LEMMA CoveredAfter ==
  ASSUME Journal, [Next]_vars, MovementsOf(ActiveCredits(allocations')) \subseteq Sent,
         CoveredAt(ActiveCredits(allocations'), Obligation - NetDiscount(adjustments'),
                   order'.paidAt),
         NetCredit(allocations') + NetDiscount(adjustments') >= Obligation
  PROVE  PaidCovered'
<1>1. PICK C, due, t : /\ C = ActiveCredits(allocations')
                       /\ due = Obligation - NetDiscount(adjustments')
                       /\ t = order'.paidAt
  OBVIOUS
<1>2. CoveredAt(C, due, t)'
  BY <1>1, CoveredKept
<1>3. (CoveredAt(ActiveCredits(allocations), Obligation - NetDiscount(adjustments), order.paidAt))'
  BY <1>1, <1>2 DEF CoveredAt, IsEarliest, CoveringMovements
<1> QED
  BY <1>3 DEF PaidCovered

\* The date that a credit or a replay gives the payment is that of the cover.
LEMMA PaidByIsCover ==
  ASSUME JournalTypeOK, NEW C, Amounts(C), MovementsOf(C) \subseteq Sent, C # {}, NEW d \in Nat,
         \/ d = 0 /\ Total(C) >= Obligation
         \/ d = Obligation - Total(C) /\ Total(C) < Obligation /\ LastPays(C)
  PROVE  Total(C) + d >= Obligation /\ CoveredAt(C, Obligation - d, At(PaidBy(C)))
<1>1. Total(C) \in Nat /\ Obligation \in Nat /\ PaidBy(C) \in MovementsOf(C)
  BY TotalFacts, PaidByCovers, StateAssumption
<1>2. CASE d = 0 /\ Total(C) >= Obligation
  <2>1. IsEarliest(PaidBy(C), CoveringMovements(C, Obligation)) /\ Obligation - d = Obligation
    BY <1>1, <1>2, PaidByCovers
  <2> QED
    BY <1>1, <1>2, <2>1 DEF CoveredAt
<1>3. CASE d = Obligation - Total(C) /\ Total(C) < Obligation /\ LastPays(C)
  <2>1. IsEarliest(PaidBy(C), CoveringMovements(C, Total(C))) /\ Obligation - d = Total(C)
    BY <1>1, <1>3, PaidByCovers
  <2> QED
    BY <1>1, <1>3, <2>1 DEF CoveredAt
<1> QED
  BY <1>2, <1>3

LEMMA PaidCoveredStep ==
  ASSUME Journal, Typed, OneGramRate, HeldSound, Granted, LatestPays, PaidCovered, [Next]_vars
  PROVE  PaidCovered'
<1> SUFFICES ASSUME order'.status = "PAID" PROVE PaidCovered'
  BY DEF PaidCovered
<1>1. JournalTypeOK
  BY DEF Journal
<1>2. ASSUME NEW m \in Movements, NEW code \in ValidationCodes, CreditGroup(m, code)
      PROVE  PaidCovered'
  <2> DEFINE C == ActiveCredits(allocations')
             d == NetDiscount(adjustments')
  <2>1. ~ ForceRecovery(m)
    BY <1>2, ForcedSettles
  <2>2. /\ Sums(allocations', adjustments') /\ C # {}
        /\ Amounts(C) /\ MovementsOf(C) \subseteq Sent
        /\ NetCredit(allocations') = Total(C) /\ Total(C) \in Nat /\ d \in Nat
    BY <1>2, SumsAfterGroup, SumsType DEF Sums, NetCredit
  <2>3. order'.paidAt = At(PaidBy(C))
    BY <1>2, <2>1, CreditSettles
  <2>4. \/ d = 0 /\ Total(C) >= Obligation
        \/ d = Obligation - Total(C) /\ Total(C) < Obligation /\ LastPays(C)
    <3>1. CASE Earns(m)
      <4>1. d = Obligation - NetCredit(allocations')
        BY <1>2, <2>1, <3>1, CreditSettles
      <4>2. NetCredit(allocations') < Obligation
        BY <2>2, <3>1, StateAssumption DEF Earns, EarnsDiscount
      <4>3. LastPays(C)
        BY <1>2, <2>1, GroupLastPays
      <4> QED
        BY <2>2, <4>1, <4>2, <4>3
    <3>2. CASE ~ Earns(m)
      <4>1. d = 0 /\ NetCredit(allocations') + d >= Obligation
        BY <1>2, <2>1, <3>2, CreditSettles
      <4> QED
        BY <2>2, <4>1
    <3> QED
      BY <3>1, <3>2
  <2>5. Total(C) + d >= Obligation /\ CoveredAt(C, Obligation - d, At(PaidBy(C)))
    <3> HIDE DEF C, d
    <3> QED
      BY <1>1, <2>2, <2>4, PaidByIsCover
  <2> QED
    BY <2>2, <2>3, <2>5, CoveredAfter
<1>3. ASSUME NEW m \in Sent, Grants(m), UNCHANGED allocations
      PROVE  PaidCovered'
  <2> DEFINE C == ActiveCredits(allocations)
             d == NetDiscount(adjustments')
  <2>1. /\ Sums(allocations, adjustments') /\ C # {}
        /\ Amounts(C) /\ MovementsOf(C) \subseteq Sent
        /\ NetCredit(allocations) = Total(C) /\ Total(C) \in Nat /\ d \in Nat
    BY <1>3, SumsAfterGrant, SumsType DEF Sums, NetCredit
  <2>2. order'.paidAt = At(PaidBy(C)) /\ d = Obligation - Total(C)
    BY <1>3, <2>1, GrantSettles
  <2>3. Total(C) < Obligation
    BY <1>3, <2>1, StateAssumption DEF Grants, EarnsDiscount
  <2>4. LastPays(C)
    <3>1. Invoice(m) \in Invoices /\ Active(Invoice(m)) /\ CreditsOf(allocations, Invoice(m)) = C
      BY <1>1, <1>3, AttemptOfSent DEF Grants, CreditsOf
    <3> QED
      BY <3>1 DEF LatestPays
  <2>5. Total(C) + d >= Obligation /\ CoveredAt(C, Obligation - d, At(PaidBy(C)))
    <3> HIDE DEF C, d
    <3> QED
      BY <1>1, <2>1, <2>2, <2>3, <2>4, PaidByIsCover
  <2> QED
    BY <1>3, <2>1, <2>2, <2>5, CoveredAfter
<1>4. ASSUME order' = order, UNCHANGED <<allocations, adjustments>>
      PROVE  PaidCovered'
  <2>1. /\ NetCredit(allocations') + NetDiscount(adjustments') >= Obligation
        /\ CoveredAt(ActiveCredits(allocations'), Obligation - NetDiscount(adjustments'),
                     order'.paidAt)
    BY <1>4 DEF PaidCovered
  <2>2. MovementsOf(ActiveCredits(allocations')) \subseteq Sent
    BY <1>4, SumsNow DEF Sums
  <2> QED
    BY <2>1, <2>2, CoveredAfter
<1>5. CASE Ledger
  <2>1. \A r \in allocations : ~ ReverseAllocation(r)
    BY ReversalSettles
  <2> QED
    BY <1>2, <1>3, <1>4, <1>5, <2>1, LedgerWrites DEF Quiet
<1>6. CASE Checkout
  <2>1. UNCHANGED <<allocations, adjustments>>
    BY <1>6, CheckoutFrame
  <2>2. order \in OrderRows /\ expiry \in Expiries \cup {NoExpiry}
    BY DEF Typed, TypeOK, OrderRows
  <2>3. ASSUME FinishExpiry
        PROVE  FALSE
    <3>1. order'.status = expiry.status /\ expiry.status \in {"EXPIRED", "RECOVERY"}
      BY <2>2, <2>3 DEF FinishExpiry, OrderRows, Expiries
    <3> QED
      BY <3>1
  <2>4. ASSUME NEW i \in Invoices, NEW asset \in CheckoutAssets, CreateAttempt(i, asset)
        PROVE  order' = order
    BY <2>2, <2>4 DEF CreateAttempt, OrderRows
  <2>5. order' = order
    BY <1>6, <2>3, <2>4
    DEF Checkout, FindOverdue, CheckNewAttempt, CreateAttemptFails, SelectAsset, BeginExpiry,
      AbortExpiry, rows
  <2> QED
    BY <1>4, <2>1, <2>5
<1>7. CASE Environment \/ UNCHANGED vars
  BY <1>4, <1>7 DEF Environment, Tick, Transfer, RecordRate, vars, rows
<1> QED
  BY <1>5, <1>6, <1>7 DEF Next

\* A paid order is paid: its credits and discount cover it, and it dates from the
\* transfer that covered it, in the order of the blockchain and not of discovery
\* (syncOrderAccounting, applyEligibleGramOnlyDiscount).
THEOREM PaidIsCoveredHolds == Spec => []PaidIsCovered
<1> DEFINE Inv == /\ Journal /\ Typed /\ AttemptRows /\ AtMostOneActive /\ Books
                  /\ Frozen /\ OneGramRate /\ HeldSound /\ LatestPays /\ PaidCovered
<1>1. Init => Inv
  <2> SUFFICES ASSUME Init PROVE Inv
    OBVIOUS
  <2>1. Typed /\ Journal /\ AttemptRows
    BY TypedInit, JournalInit, AttemptRowsInit
  <2>2. AtMostOneActive
    BY DEF Init, AtMostOneActive, Active, ActiveStatuses, NoInvoice, NewInvoice
  <2>3. Books
    BY DEF Init, Books, Granted, ExpirySound, Funded
  <2>4. Sent = {} /\ allocations = {} /\ order.status = "PENDING"
    BY DEF Init, Sent
  <2>5. Frozen /\ OneGramRate /\ PaidCovered
    BY <2>4 DEF Frozen, Journaled, OneGramRate, GramRates, PaidCovered
  <2>6. HeldSound
    BY <2>4 DEF HeldSound, HeldFiat, HeldAlone, HeldSmall, HeldOn
  <2>7. LatestPays
    BY <2>4 DEF LatestPays, LastPays, CreditsOf, ActiveCredits
  <2> QED
    BY <2>1, <2>2, <2>3, <2>5, <2>6, <2>7
<1>2. Inv /\ [Next]_vars => Inv'
  <2> SUFFICES ASSUME Inv, [Next]_vars PROVE Inv'
    OBVIOUS
  <2>1. (Journal /\ Typed /\ AttemptRows /\ AtMostOneActive /\ Books)'
    BY JournalStep, TypedStep, AttemptRowsStep, AtMostOneActiveStep, BooksStep
  <2>2. Frozen' /\ OneGramRate'
    BY FrozenStep, OneGramRateStep
  <2>3. HeldSound'
    BY HeldFiatStep, HeldAloneStep, HeldSmallStep DEF HeldSound
  <2>4. LatestPays'
    BY LatestPaysStep DEF Books
  <2>5. PaidCovered'
    BY PaidCoveredStep DEF Books
  <2> QED
    BY <2>1, <2>2, <2>3, <2>4, <2>5
<1>3. Inv => PaidIsCovered
  <2> SUFFICES ASSUME Inv, order.status = "PAID" PROVE PaidIsCovered
    BY DEF PaidIsCovered
  <2> DEFINE C == ActiveCredits(allocations)
             S == CoveringMovements(C, Obligation - NetDiscount(adjustments))
  <2>1. PICK m \in MovementsOf(C) : At(m) = order.paidAt /\ IsEarliest(m, S)
    BY DEF PaidCovered, CoveredAt
  <2>2. S \subseteq Sent /\ m \in S
    BY <2>1, SumsNow DEF Sums, CoveringMovements, IsEarliest
  <2>3. m = Earliest(S)
    <3> HIDE DEF S
    <3>1. Earliest(S) \in S /\ \A k \in S \ {Earliest(S)} : Before(Earliest(S), k)
      BY <2>2, EarliestFirst DEF Journal
    <3> QED
      BY <2>1, <2>2, <3>1, BeforeOrders DEF IsEarliest, Journal
  <2>4. NetCredit(allocations) + NetDiscount(adjustments) >= Obligation
    BY DEF PaidCovered
  <2> QED
    BY <2>1, <2>3, <2>4 DEF PaidIsCovered
<1> QED
  BY <1>1, <1>2, <1>3, PTL DEF Spec
-----------------------------------------------------------------------------
(* The books balance.                                                       *)

\* The wallets that money has reached are those of attempts that exist.
WalletsExist == \A m \in Sent : invoices[Invoice(m)].status # "ABSENT"

\* An attempt is credited with what the credits to its wallet amount to.
AttemptsBacked ==
  \A i \in Invoices : invoices[i].credited = Capped(Total(CreditsOf(allocations, i)))

\* What of the order's accounting survives even an outdated expiry.
OrderSound ==
  /\ order.overpayment \in {0, Overpaid(NetCredit(allocations))}
  /\ order.discount = NetDiscount(adjustments)
  /\ order.status \in {"PENDING", "EXPIRED"} => order.credited = 0

\* An expiry under way that is going to call the order expired found nothing credited.
ExpiryFoundNothing ==
  expiry # NoExpiry /\ expiry.status = "EXPIRED" => expiry.credited = 0

\* syncOrderAccounting writes books that balance.
LEMMA SyncedBalances ==
  ASSUME NEW allocs, NEW adjs, Sums(allocs, adjs), NEW forced, NEW revive
  PROVE  LET ord == SyncedOrder(allocs, adjs, forced, revive)
         IN  /\ ord.credited = Capped(NetCredit(allocs))
             /\ ord.overpayment = Overpaid(NetCredit(allocs))
             /\ ord.credited + ord.overpayment = NetCredit(allocs)
             /\ ord.discount = NetDiscount(adjs)
             /\ ord.status # "EXPIRED"
             /\ ord.status = "PENDING" => ord.credited = 0
<1> DEFINE net == NetCredit(allocs)
           ord == SyncedOrder(allocs, adjs, forced, revive)
<1>1. net \in Nat /\ NetDiscount(adjs) \in Nat
  BY SumsType
<1>2. /\ ord.credited = Capped(net) /\ ord.overpayment = Overpaid(net)
      /\ ord.discount = NetDiscount(adjs)
  BY DEF SyncedOrder, Capped
<1>3. Capped(net) + Overpaid(net) = net /\ (net = 0 => Capped(net) = 0)
  <2> HIDE DEF net
  <2> QED
    BY <1>1, StateAssumption DEF Capped, Overpaid
<1>4. ord.status # "EXPIRED" /\ (ord.status = "PENDING" => ~ (net + NetDiscount(adjs) > 0))
  BY <1>1, StateAssumption DEF SyncedOrder
<1>5. ord.status = "PENDING" => net = 0
  BY <1>1, <1>4
<1> QED
  BY <1>2, <1>3, <1>4, <1>5

\* A transaction of the ledger writes nothing of the account, or syncs the order and
\* one attempt with what it leaves in the tables.
Syncs(i, forced, revive, status) ==
  /\ Sums(allocations', adjustments')
  /\ order' = SyncedOrder(allocations', adjustments', forced, revive)
  /\ invoices' = [invoices EXCEPT ![i] = SyncedInvoice(i, allocations', adjustments', status)]
  /\ \A j \in Invoices \ {i} : CreditsOf(allocations', j) = CreditsOf(allocations, j)

LEMMA LedgerSyncs ==
  ASSUME Journal, Typed, Ledger
  PROVE  Quiet \/ \E i \in Invoices : \E forced, revive, status : Syncs(i, forced, revive, status)
<1>1. ASSUME NEW m \in Sent, Grants(m), UNCHANGED allocations
      PROVE  Invoice(m) \in Invoices /\ \E status : Syncs(Invoice(m), FALSE, FALSE, status)
  <2>1. Sums(allocations', adjustments')
    BY <1>1, SumsAfterGrant
  <2>2. /\ order' = SyncedOrder(allocations', adjustments', FALSE, FALSE)
        /\ invoices' = [invoices EXCEPT ![Invoice(m)] =
             SyncedInvoice(Invoice(m), allocations', adjustments',
               SettledStatus(Invoice(m), allocations, order'.status))]
    BY <1>1 DEF Grants
  <2>3. \A j : CreditsOf(allocations', j) = CreditsOf(allocations, j)
    BY <1>1
  <2> QED
    BY <2>1, <2>2, <2>3, AttemptOfSent DEF Syncs, Journal
<1>2. ASSUME NEW m \in Movements, NEW code \in ValidationCodes, CreditGroup(m, code)
      PROVE  /\ Invoice(m) \in Invoices
             /\ \E status : Syncs(Invoice(m), ForceRecovery(m), Revives(m), status)
  <2>1. Invoice(m) \in Invoices /\ Sums(allocations', adjustments')
    BY <1>2, SumsAfterGroup
  <2>2. \A j \in Invoices \ {Invoice(m)} : CreditsOf(allocations', j) = CreditsOf(allocations, j)
    BY <1>2, CreditGroupCredits DEF CreditsOf, GroupCredits
  <2> QED
    BY <1>2, <2>1, <2>2, CreditGroupWrites DEF Syncs
<1>3. ASSUME NEW r \in allocations, ReverseAllocation(r)
      PROVE  r.invoice \in Invoices /\ Syncs(r.invoice, TRUE, FALSE, "FAILED")
  <2>1. /\ r.invoice \in Invoices /\ Sums(allocations', adjustments')
        /\ ActiveCredits(allocations') = ActiveCredits(allocations) \ {r}
    BY <1>3, SumsAfterReversal
  <2>2. \A j \in Invoices \ {r.invoice} : CreditsOf(allocations', j) = CreditsOf(allocations, j)
    BY <2>1 DEF CreditsOf
  <2>3. /\ order' = SyncedOrder(allocations', adjustments', TRUE, FALSE)
        /\ invoices' = [invoices EXCEPT ![r.invoice] =
             SyncedInvoice(r.invoice, allocations', adjustments', "FAILED")]
    BY <1>3 DEF ReverseAllocation
  <2> QED
    BY <2>1, <2>2, <2>3 DEF Syncs
<1> QED
  BY <1>1, <1>2, <1>3, LedgerWrites

LEMMA AttemptsBackedLedger ==
  ASSUME Journal, Typed, AttemptsBacked, Ledger
  PROVE  AttemptsBacked'
<1>1. invoices \in [Invoices -> InvoiceRows]
  BY DEF Typed, TypeOK
<1>2. CASE Quiet
  <2>1. \A i \in Invoices : invoices'[i].credited = invoices[i].credited
    BY <1>1, <1>2, LockFields, AttemptOfSent DEF Quiet, Journal
  <2>2. \A i : CreditsOf(allocations', i) = CreditsOf(allocations, i)
    BY <1>2 DEF Quiet
  <2> QED
    BY <2>1, <2>2 DEF AttemptsBacked
<1>3. ASSUME NEW i \in Invoices, NEW forced, NEW revive, NEW status,
             Syncs(i, forced, revive, status)
      PROVE  AttemptsBacked'
  <2>1. invoices'[i] = SyncedInvoice(i, allocations', adjustments', status)
        /\ \A j \in Invoices \ {i} : invoices'[j] = invoices[j]
    BY <1>1, <1>3 DEF Syncs
  <2>2. invoices'[i].credited = Capped(Total(CreditsOf(allocations', i)))
    BY <1>1, <2>1, SyncedFields DEF Capped
  <2>3. \A j \in Invoices \ {i} : CreditsOf(allocations', j) = CreditsOf(allocations, j)
    BY <1>3 DEF Syncs
  <2>4. ASSUME NEW j \in Invoices
        PROVE  invoices'[j].credited = Capped(Total(CreditsOf(allocations', j)))
    <3>1. CASE j = i
      BY <2>2, <3>1
    <3>2. CASE j # i
      BY <2>1, <2>3, <3>2 DEF AttemptsBacked
    <3> QED
      BY <3>1, <3>2
  <2> QED
    BY <2>4 DEF AttemptsBacked
<1> QED
  BY <1>2, <1>3, LedgerSyncs

\* An attempt that exists is never removed.
LEMMA AttemptsStay ==
  ASSUME Journal, AttemptRows, [Next]_vars
  PROVE  \A i \in Invoices : invoices'[i].status = "ABSENT" => invoices[i].status = "ABSENT"
<1>1. CASE Ledger
  BY <1>1, LedgerTouches DEF Touches
<1>2. CASE Checkout
  <2>1. ASSUME NEW j, NEW row, Alters(j, row), NEW i \in Invoices, invoices'[i].status = "ABSENT"
        PROVE  invoices[i].status = "ABSENT"
    BY <2>1 DEF Alters
  <2> QED
    BY <1>2, <2>1, CheckoutAlters
<1>3. CASE Environment \/ UNCHANGED vars
  BY <1>3, EnvironmentFrame
<1> QED
  BY <1>1, <1>2, <1>3 DEF Next

LEMMA WalletsExistStep ==
  ASSUME Journal, AttemptRows, WalletsExist, [Next]_vars
  PROVE  WalletsExist'
<1>1. \A m \in Sent : Invoice(m)' = Invoice(m) /\ Invoice(m) \in Invoices
  BY ChainKept, AttemptOfSent DEF Invoice, Journal
<1>2. \A i \in Invoices : invoices'[i].status = "ABSENT" => invoices[i].status = "ABSENT"
  BY AttemptsStay
<1>3. ASSUME NEW m \in Sent' \ Sent
      PROVE  invoices'[Invoice(m)'].status # "ABSENT"
  <2>1. PICK k \in TransferKinds : Transfer(k)
    BY <1>3, LedgerFrame, CheckoutFrame
    DEF Next, Environment, Tick, RecordRate, vars, world, Sent
  <2>2. PICK n \in Movements : chain' = [chain EXCEPT ![n] =
          [asset |-> k.asset, invoice |-> k.invoice, amount |-> k.amount, at |-> now]]
    BY <2>1 DEF Transfer
  <2>3. m = n /\ chain'[m].invoice = k.invoice
    BY <1>3, <2>2 DEF Sent, Journal, JournalTypeOK
  <2> QED
    BY <2>1, <2>3 DEF Transfer, Invoice, rows
<1> QED
  BY <1>1, <1>2, <1>3 DEF WalletsExist

\* What the checkout writes to the attempts' credits: nothing but the zero of a new one.
LEMMA CheckoutCredits ==
  ASSUME Typed, Checkout, NEW i \in Invoices
  PROVE  \/ invoices'[i].credited = invoices[i].credited
         \/ invoices[i].status = "ABSENT" /\ invoices'[i].credited = 0
<1>1. invoices \in [Invoices -> InvoiceRows] /\ (expiry # NoExpiry => expiry.invoice \in Invoices)
  BY DEF Typed, TypeOK, Expiries
<1>2. ASSUME NEW j \in Invoices, NEW asset \in CheckoutAssets, CreateAttempt(j, asset)
      PROVE  \/ invoices'[i].credited = invoices[i].credited
             \/ invoices[i].status = "ABSENT" /\ invoices'[i].credited = 0
  BY <1>1, <1>2 DEF CreateAttempt, NewInvoice
<1>3. \A row \in InvoiceRows : \A value :
        /\ [row EXCEPT !.asset = value].credited = row.credited
        /\ [row EXCEPT !.status = value].credited = row.credited
  BY DEF InvoiceRows
<1>4. ASSUME NEW j \in Invoices, NEW asset \in CheckoutAssets, SelectAsset(j, asset)
      PROVE  invoices'[i].credited = invoices[i].credited
  <2>1. PICK x \in InvoiceRows : x = invoices[j]
    BY <1>1
  <2>2. invoices' = [invoices EXCEPT ![j] = [x EXCEPT !.asset = asset]]
    BY <1>1, <1>4, <2>1 DEF SelectAsset
  <2> QED
    BY <1>1, <1>3, <2>1, <2>2
<1>5. ASSUME FinishExpiry
      PROVE  invoices'[i].credited = invoices[i].credited
  <2>1. expiry.invoice \in Invoices
    BY <1>1, <1>5 DEF FinishExpiry
  <2>2. PICK x \in InvoiceRows : x = invoices[expiry.invoice]
    BY <1>1, <2>1
  <2>3. invoices' = [invoices EXCEPT ![expiry.invoice] = [x EXCEPT !.status = "EXPIRED"]]
    BY <1>1, <1>5, <2>2 DEF FinishExpiry
  <2> QED
    BY <1>1, <1>3, <2>1, <2>2, <2>3
<1> QED
  BY <1>2, <1>4, <1>5
  DEF Checkout, FindOverdue, CheckNewAttempt, CreateAttemptFails, BeginExpiry, AbortExpiry, rows

LEMMA AttemptsBackedStep ==
  ASSUME Journal, Typed, WalletsExist, AttemptsBacked, [Next]_vars
  PROVE  AttemptsBacked'
<1>1. CASE Environment \/ UNCHANGED vars
  <2>1. UNCHANGED <<allocations, invoices>>
    BY <1>1, EnvironmentFrame
  <2> QED
    BY <2>1 DEF AttemptsBacked, CreditsOf
<1>2. CASE Checkout
  <2>1. \A i : CreditsOf(allocations', i) = CreditsOf(allocations, i)
    BY <1>2, CheckoutFrame
  <2>2. ASSUME NEW i \in Invoices, invoices[i].status = "ABSENT"
        PROVE  Capped(Total(CreditsOf(allocations, i))) = 0
    <3>1. CreditsOf(allocations, i) = {}
      BY <2>2, CreditFacts DEF CreditsOf, WalletsExist
    <3>2. Total(CreditsOf(allocations, i)) = 0
      BY <3>1, TotalFacts, FS_EmptySet DEF Amounts
    <3> QED
      BY <3>2, StateAssumption DEF Capped
  <2>3. ASSUME NEW i \in Invoices
        PROVE  invoices'[i].credited = Capped(Total(CreditsOf(allocations', i)))
    BY <1>2, <2>1, <2>2, CheckoutCredits DEF AttemptsBacked
  <2> QED
    BY <2>3 DEF AttemptsBacked
<1> QED
  BY <1>1, <1>2, AttemptsBackedLedger DEF Next

LEMMA OrderSoundStep ==
  ASSUME Journal, Typed, OrderSound, ExpiryFoundNothing, [Next]_vars
  PROVE  OrderSound' /\ ExpiryFoundNothing'
<1>1. /\ order \in OrderRows /\ expiry \in Expiries \cup {NoExpiry}
      /\ invoices \in [Invoices -> InvoiceRows]
  BY DEF Typed, TypeOK, OrderRows
<1>2. ASSUME UNCHANGED <<order, allocations, adjustments>>
      PROVE  OrderSound'
  BY <1>2 DEF OrderSound
<1>3. CASE Environment \/ UNCHANGED vars
  <2>1. UNCHANGED <<order, allocations, adjustments, expiry>>
    BY <1>3 DEF Environment, Tick, Transfer, RecordRate, vars, rows, others
  <2> QED
    BY <1>2, <2>1 DEF ExpiryFoundNothing
<1>4. CASE Ledger
  <2>1. ExpiryFoundNothing'
    BY <1>4, LedgerFrame DEF others, ExpiryFoundNothing
  <2>2. ASSUME NEW i \in Invoices, NEW forced, NEW revive, NEW status,
               Syncs(i, forced, revive, status)
        PROVE  OrderSound'
    <3>1. /\ order'.overpayment = Overpaid(NetCredit(allocations'))
          /\ order'.discount = NetDiscount(adjustments')
          /\ order'.status # "EXPIRED" /\ (order'.status = "PENDING" => order'.credited = 0)
      BY <2>2, SyncedBalances DEF Syncs
    <3> QED
      BY <3>1 DEF OrderSound
  <2> QED
    BY <1>2, <1>4, <2>1, <2>2, LedgerSyncs DEF Quiet
<1>5. CASE Checkout
  <2>1. UNCHANGED <<allocations, adjustments>>
    BY <1>5, CheckoutFrame
  <2>2. ASSUME NEW i \in Invoices, NEW asset \in CheckoutAssets, CreateAttempt(i, asset)
        PROVE  OrderSound' /\ UNCHANGED expiry
    <3>1. \/ UNCHANGED order
          \/ order'.credited = 0 /\ order'.overpayment = 0 /\ order'.discount = order.discount
      BY <1>1, <2>2 DEF CreateAttempt, OrderRows
    <3> QED
      BY <2>1, <2>2, <3>1 DEF OrderSound, CreateAttempt
  <2>3. ASSUME NEW i \in Invoices, BeginExpiry(i)
        PROVE  UNCHANGED order /\ ExpiryFoundNothing'
    <3>1. /\ UNCHANGED order
          /\ expiry'.status = ExpiredStatus /\ expiry'.credited = AttemptCredit
      BY <2>3 DEF BeginExpiry, rows
    <3>2. ExpiredStatus = "EXPIRED" => AttemptCredit = 0
      BY <1>1, AttemptCreditType, StateAssumption DEF ExpiredStatus
    <3> QED
      BY <3>1, <3>2 DEF ExpiryFoundNothing
  <2>4. ASSUME FinishExpiry
        PROVE  OrderSound' /\ expiry' = NoExpiry
    <3>1. expiry # NoExpiry /\ expiry.status \in {"EXPIRED", "RECOVERY"}
      BY <1>1, <2>4 DEF FinishExpiry, Expiries
    <3>2. /\ order'.status = expiry.status /\ order'.credited = expiry.credited
          /\ order'.overpayment = order.overpayment /\ order'.discount = order.discount
      BY <1>1, <2>4 DEF FinishExpiry, OrderRows
    <3> QED
      BY <2>1, <2>4, <3>1, <3>2 DEF OrderSound, ExpiryFoundNothing, FinishExpiry
  <2> QED
    BY <1>2, <1>5, <2>1, <2>2, <2>3, <2>4
    DEF Checkout, FindOverdue, CheckNewAttempt, CreateAttemptFails, SelectAsset, AbortExpiry, rows,
      others, ExpiryFoundNothing
<1> QED
  BY <1>3, <1>4, <1>5 DEF Next

\* The books are balanced by every transaction but one: markInvoiceExpired, which
\* writes to the order what it has read of other attempts (the run ExpiryOverwrites
\* shows it).  What an attempt is credited with is always backed.
OnlyExpiryUnbalances == [][Baseline => Baseline' \/ FinishExpiry]_vars

LEMMA BaselineStep ==
  ASSUME Journal, Typed, OrderSound, Baseline, [Next]_vars, ~ FinishExpiry
  PROVE  Baseline'
<1>1. order \in OrderRows
  BY DEF Typed, TypeOK, OrderRows
<1>2. ASSUME UNCHANGED <<order, allocations, adjustments>>
      PROVE  Baseline'
  BY <1>2 DEF Baseline
<1>3. ASSUME NEW i \in Invoices, NEW forced, NEW revive, NEW status,
             Syncs(i, forced, revive, status)
      PROVE  Baseline'
  <2>1. /\ order'.credited + order'.overpayment = NetCredit(allocations')
        /\ order'.discount = NetDiscount(adjustments')
    BY <1>3, SyncedBalances DEF Syncs
  <2> QED
    BY <2>1 DEF Baseline
<1>4. ASSUME NEW i \in Invoices, NEW asset \in CheckoutAssets, CreateAttempt(i, asset)
      PROVE  Baseline'
  <2>1. UNCHANGED <<allocations, adjustments>>
    BY <1>4 DEF CreateAttempt
  <2>2. CASE order.status \in {"PENDING", "EXPIRED"}
    <3>1. order'.credited = 0 /\ order'.overpayment = 0 /\ order'.discount = order.discount
      BY <1>1, <1>4, <2>2 DEF CreateAttempt, OrderRows
    <3>2. NetCredit(allocations) \in Nat
      BY SumsNow, SumsType
    <3>3. NetCredit(allocations) = order.overpayment
      BY <1>1, <2>2 DEF Baseline, OrderSound, OrderRows
    <3>4. NetCredit(allocations) = 0
      BY <3>2, <3>3, StateAssumption DEF OrderSound, Overpaid
    <3> QED
      BY <2>1, <3>1, <3>4 DEF Baseline
  <2>3. CASE order.status \notin {"PENDING", "EXPIRED"}
    <3>1. UNCHANGED order
      BY <1>4, <2>3 DEF CreateAttempt
    <3> QED
      BY <1>2, <2>1, <3>1
  <2> QED
    BY <2>2, <2>3
<1>5. CASE Checkout
  BY <1>2, <1>4, <1>5
  DEF Checkout, FindOverdue, CheckNewAttempt, CreateAttemptFails, SelectAsset, BeginExpiry,
      AbortExpiry, rows
<1>6. CASE Environment \/ UNCHANGED vars
  BY <1>2, <1>6 DEF Environment, Tick, Transfer, RecordRate, vars, rows
<1> QED
  BY <1>2, <1>3, <1>5, <1>6, LedgerSyncs DEF Next, Quiet

LEMMA AccountSoundHolds ==
  Spec => [](Journal /\ Typed /\ AttemptRows /\ WalletsExist /\ AttemptsBacked
               /\ OrderSound /\ ExpiryFoundNothing)
<1> DEFINE Inv == /\ Journal /\ Typed /\ AttemptRows /\ WalletsExist /\ AttemptsBacked
                  /\ OrderSound /\ ExpiryFoundNothing
<1>1. Init => Inv
  <2> SUFFICES ASSUME Init PROVE Inv
    OBVIOUS
  <2>1. Typed /\ Journal /\ AttemptRows
    BY TypedInit, JournalInit, AttemptRowsInit
  <2>2. /\ Sent = {} /\ allocations = {} /\ adjustments = {} /\ expiry = NoExpiry
        /\ order.credited = 0 /\ order.overpayment = 0 /\ order.discount = 0
        /\ \A i \in Invoices : invoices[i].credited = 0
    BY DEF Init, Sent, NewInvoice, NoInvoice
  <2>3. Total({}) = 0
    BY TotalFacts, FS_EmptySet DEF Amounts
  <2>4. NetDiscount(adjustments) = 0 /\ \A i : CreditsOf(allocations, i) = {}
    BY <2>2, <2>3 DEF NetDiscount, ActiveDiscounts, CreditsOf, ActiveCredits
  <2>5. AttemptsBacked
    <3>1. Capped(0) = 0
      BY StateAssumption DEF Capped
    <3>2. \A i \in Invoices : Total(CreditsOf(allocations, i)) = 0
      BY <2>3, <2>4
    <3> QED
      BY <2>2, <3>1, <3>2 DEF AttemptsBacked
  <2> QED
    BY <2>1, <2>2, <2>4, <2>5 DEF WalletsExist, OrderSound, ExpiryFoundNothing
<1>2. Inv /\ [Next]_vars => Inv'
  <2> SUFFICES ASSUME Inv, [Next]_vars PROVE Inv'
    OBVIOUS
  <2>1. (Journal /\ Typed /\ AttemptRows)'
    BY JournalStep, TypedStep, AttemptRowsStep
  <2>2. WalletsExist' /\ AttemptsBacked'
    BY WalletsExistStep, AttemptsBackedStep
  <2>3. OrderSound' /\ ExpiryFoundNothing'
    BY OrderSoundStep
  <2> QED
    BY <2>1, <2>2, <2>3
<1> QED
  BY <1>1, <1>2, PTL DEF Spec

\* What an attempt is credited with is what the credits to its wallet amount to,
\* up to the obligation, for any number of attempts (syncInvoiceAccounting).
THEOREM AttemptsAreBacked == Spec => []AttemptsBacked
BY AccountSoundHolds, PTL

\* Of all transactions only the second half of markInvoiceExpired can leave an order
\* that does not equal its allocations (assertOrderAccountingBaseline).
THEOREM OnlyExpiryUnbalancesHolds == Spec => OnlyExpiryUnbalances
<1> DEFINE Inv == Journal /\ Typed /\ OrderSound
<1>1. Inv /\ [Next]_vars => [Baseline => Baseline' \/ FinishExpiry]_vars
  BY BaselineStep
<1>2. Spec => []Inv
  BY AccountSoundHolds, PTL
<1> QED
  BY <1>1, <1>2, PTL DEF Spec, OnlyExpiryUnbalances
-----------------------------------------------------------------------------
(* A settled order stays settled.                                           *)

\* Only the same overwriting takes an order out of recovery, or makes a paid one unpaid.
OnlyExpiryReopens ==
  [][\/ FinishExpiry
     \/ /\ order.status = "RECOVERY" => order'.status = "RECOVERY"
        /\ order.status = "PAID" => order'.status \in {"PAID", "RECOVERY"}]_vars

LEMMA SettledStep ==
  ASSUME Journal, Typed, [Next]_vars, ~ FinishExpiry, order.status \in {"PAID", "RECOVERY"}
  PROVE  order'.status = order.status \/ order'.status = "RECOVERY"
<1>1. CASE Ledger
  <2>1. ASSUME NEW m \in Sent, Grants(m)
        PROVE  FALSE
    BY <2>1 DEF Grants, ActiveStatuses
  <2>2. ASSUME NEW m \in Movements, NEW code \in ValidationCodes, CreditGroup(m, code)
        PROVE  order'.status = "RECOVERY"
    BY <2>2, SettledIsForced, ForcedSettles
  <2>3. ASSUME NEW r \in allocations, ReverseAllocation(r)
        PROVE  order'.status = "RECOVERY"
    BY <2>3, ReversalSettles
  <2> QED
    BY <1>1, <2>1, <2>2, <2>3, LedgerWrites DEF Quiet
<1>2. CASE Checkout
  <2>1. UNCHANGED order
    BY <1>2 DEF Checkout, FindOverdue, CheckNewAttempt, CreateAttempt, CreateAttemptFails, SelectAsset,
                BeginExpiry, AbortExpiry, rows
  <2> QED
    BY <2>1
<1>3. CASE Environment \/ UNCHANGED vars
  BY <1>3 DEF Environment, Tick, Transfer, RecordRate, vars, rows
<1> QED
  BY <1>1, <1>2, <1>3 DEF Next

\* An order in recovery stays there, and a paid one only goes there, unless
\* markInvoiceExpired overwrites the order (SettledIsForced: whatever reaches a settled
\* order is set aside).
THEOREM OnlyExpiryReopensHolds == Spec => OnlyExpiryReopens
<1> DEFINE Inv == Journal /\ Typed
<1>1. Inv /\ [Next]_vars =>
        [\/ FinishExpiry
         \/ /\ order.status = "RECOVERY" => order'.status = "RECOVERY"
            /\ order.status = "PAID" => order'.status \in {"PAID", "RECOVERY"}]_vars
  BY SettledStep
<1>2. Spec => []Inv
  BY AccountSoundHolds, PTL
<1> QED
  BY <1>1, <1>2, PTL DEF Spec, OnlyExpiryReopens
-----------------------------------------------------------------------------
(* One attempt.  With a single attempt nothing comes between what an expiry  *)
(* reads and what it writes, so the exceptions above do not occur.           *)

\* The order says exactly what the credits and discounts amount to, and an expiry
\* under way is going to say the same.
Balanced ==
  /\ order.credited = Capped(NetCredit(allocations))
  /\ order.overpayment = Overpaid(NetCredit(allocations))
  /\ order.discount = NetDiscount(adjustments)

ExpiryAgrees == expiry # NoExpiry => expiry.credited = Capped(expiry.row.credited)

\* The order's credits are those of the one attempt.
LEMMA CreditsOfOne ==
  ASSUME Invoices = {FirstInvoice}, Journal, Typed
  PROVE  /\ CreditsOf(allocations, FirstInvoice) = ActiveCredits(allocations)
         /\ AttemptCredit = Capped(invoices[FirstInvoice].credited)
<1>1. CreditsOf(allocations, FirstInvoice) = ActiveCredits(allocations)
  BY CreditFacts DEF CreditsOf
<1> DEFINE f == [i \in Invoices |-> invoices[i].credited]
<1>2. f[FirstInvoice] = invoices[FirstInvoice].credited /\ f[FirstInvoice] \in Nat
  BY DEF Typed, TypeOK, InvoiceRows
<1>3. SumFunction(f) = SumFunctionOnSet(f, {FirstInvoice})
  BY DEF SumFunction
<1>4. SumFunctionOnSet(f, {FirstInvoice}) = f[FirstInvoice]
  <2> HIDE DEF f
  <2> QED
    BY <1>2, SumOfOne
<1>5. AttemptCredit = Capped(SumFunction(f))
  BY DEF AttemptCredit, Capped
<1> HIDE DEF f
<1> QED
  BY <1>1, <1>2, <1>3, <1>4, <1>5

\* With the one attempt there, none is created.
LEMMA NoneCreated ==
  ASSUME Invoices = {FirstInvoice}, invoices[FirstInvoice].status # "ABSENT"
  PROVE  \A i \in Invoices, asset \in CheckoutAssets : ~ CreateAttempt(i, asset)
BY DEF CreateAttempt

LEMMA BalancedStep ==
  ASSUME Invoices = {FirstInvoice}, Journal, Typed, AttemptsBacked, Balanced, ExpiryAgrees,
         invoices[FirstInvoice].status # "ABSENT", [Next]_vars
  PROVE  Balanced' /\ ExpiryAgrees'
<1>1. /\ order \in OrderRows /\ expiry \in Expiries \cup {NoExpiry}
      /\ invoices \in [Invoices -> InvoiceRows]
  BY DEF Typed, TypeOK, OrderRows
<1>2. ASSUME UNCHANGED <<order, allocations, adjustments>>
      PROVE  Balanced'
  BY <1>2 DEF Balanced
<1>3. CASE Ledger
  <2>1. ExpiryAgrees'
    BY <1>3, LedgerFrame DEF others, ExpiryAgrees
  <2>2. ASSUME NEW i \in Invoices, NEW forced, NEW revive, NEW status,
               Syncs(i, forced, revive, status)
        PROVE  Balanced'
    <3>1. /\ order'.credited = Capped(NetCredit(allocations'))
          /\ order'.overpayment = Overpaid(NetCredit(allocations'))
          /\ order'.discount = NetDiscount(adjustments')
      BY <2>2, SyncedBalances DEF Syncs
    <3> QED
      BY <3>1 DEF Balanced, Capped
  <2> QED
    BY <1>2, <1>3, <2>1, <2>2, LedgerSyncs DEF Quiet
<1>4. ASSUME NEW i \in Invoices, BeginExpiry(i)
      PROVE  UNCHANGED order /\ ExpiryAgrees'
  <2>1. /\ UNCHANGED order
        /\ expiry'.row = invoices[i] /\ expiry'.credited = AttemptCredit /\ i = FirstInvoice
    BY <1>4 DEF BeginExpiry, rows
  <2> QED
    BY <2>1, CreditsOfOne DEF ExpiryAgrees, Capped
<1>5. ASSUME FinishExpiry
      PROVE  Balanced' /\ expiry' = NoExpiry
  <2>1. expiry # NoExpiry /\ expiry.invoice = FirstInvoice
    BY <1>1, <1>5 DEF FinishExpiry, Expiries
  <2>2. /\ order'.credited = expiry.credited /\ order'.overpayment = order.overpayment
        /\ order'.discount = order.discount /\ UNCHANGED <<allocations, adjustments>>
        /\ expiry.row = invoices[FirstInvoice]
    BY <1>1, <1>5, <2>1 DEF FinishExpiry, Undisturbed, OrderRows
  <2>3. NetCredit(allocations) = Total(CreditsOf(allocations, FirstInvoice))
    BY CreditsOfOne DEF NetCredit
  <2>4. invoices[FirstInvoice].credited = Capped(NetCredit(allocations))
    BY <2>3, StateAssumption DEF AttemptsBacked
  <2>5. Capped(Capped(NetCredit(allocations))) = Capped(NetCredit(allocations))
    BY StateAssumption DEF Capped
  <2>6. order'.credited = Capped(NetCredit(allocations))
    BY <2>1, <2>2, <2>4, <2>5 DEF ExpiryAgrees
  <2> QED
    BY <1>5, <2>2, <2>6 DEF Balanced, FinishExpiry, Capped
<1>6. CASE Checkout
  BY <1>2, <1>4, <1>5, <1>6, CheckoutFrame, NoneCreated
  DEF Checkout, FindOverdue, CheckNewAttempt, CreateAttemptFails, SelectAsset, AbortExpiry, rows,
      others, ExpiryAgrees
<1>7. CASE Environment \/ UNCHANGED vars
  BY <1>2, <1>7 DEF Environment, Tick, Transfer, RecordRate, vars, rows, others, ExpiryAgrees
<1> QED
  BY <1>3, <1>6, <1>7 DEF Next

\* A credit that is not forced leaves the order paid, or open with what is missing.
LEMMA UnforcedIsOpen ==
  ASSUME NEW m, NEW code, CreditGroup(m, code), ~ ForceRecovery(m)
  PROVE  order'.status # "RECOVERY"
<1>1. order' = SyncedOrder(allocations', adjustments', FALSE, Revives(m))
  <2>1. ForceRecovery(m) = FALSE
    BY DEF ForceRecovery, Late, PostPaid, OutOfOrder, ConflictingAttempt, MultipleFundedDeposits
  <2> QED
    BY <2>1, CreditGroupWrites
<1>2. order.status \notin HardTerminal /\ (order.status = "EXPIRED" => Revives(m))
  BY DEF Revives, ForceRecovery
<1> QED
  BY <1>1, <1>2 DEF SyncedOrder

LEMMA ClosedStep ==
  ASSUME Invoices = {FirstInvoice}, Journal, Typed, Books, PaidOrderIsClosed,
         order.status = "RECOVERY" => ~ Active(FirstInvoice),
         invoices[FirstInvoice].status # "ABSENT", [Next]_vars
  PROVE  /\ PaidOrderIsClosed'
         /\ order'.status = "RECOVERY" => invoices'[FirstInvoice].status \notin ActiveStatuses
         /\ FinishExpiry => order.status \notin {"PAID", "RECOVERY"}
<1> DEFINE row == invoices'[FirstInvoice]
<1>1. /\ order \in OrderRows /\ expiry \in Expiries \cup {NoExpiry}
      /\ invoices \in [Invoices -> InvoiceRows]
  BY DEF Typed, TypeOK, OrderRows
<1>2. SUFFICES /\ order'.status \in {"PAID", "RECOVERY"} => row.status \notin ActiveStatuses
               /\ FinishExpiry => order.status \notin {"PAID", "RECOVERY"}
  BY DEF PaidOrderIsClosed, Active
<1>3. order.status \in {"PAID", "RECOVERY"} => ~ Active(FirstInvoice)
  BY DEF PaidOrderIsClosed
<1>4. ASSUME UNCHANGED order, row.status = invoices[FirstInvoice].status
      PROVE  order'.status \in {"PAID", "RECOVERY"} => row.status \notin ActiveStatuses
  BY <1>3, <1>4 DEF Active
<1>5. ASSUME FinishExpiry
      PROVE  /\ order.status \notin {"PAID", "RECOVERY"}
             /\ row.status = "EXPIRED"
  <2>1. expiry # NoExpiry /\ expiry.invoice = FirstInvoice
    BY <1>1, <1>5 DEF FinishExpiry, Expiries
  <2>2. Active(FirstInvoice)
    BY <1>5, <2>1 DEF Books, ExpirySound, FinishExpiry, Undisturbed, Active
  <2>3. row.status = "EXPIRED"
    <3>1. PICK x \in InvoiceRows : x = invoices[FirstInvoice]
      BY <1>1
    <3>2. [x EXCEPT !.status = "EXPIRED"].status = "EXPIRED"
      BY DEF InvoiceRows
    <3>3. invoices' = [invoices EXCEPT ![FirstInvoice] = [x EXCEPT !.status = "EXPIRED"]]
      BY <1>1, <1>5, <2>1, <3>1 DEF FinishExpiry
    <3> QED
      BY <1>1, <3>2, <3>3
  <2> QED
    BY <1>3, <2>2, <2>3
<1>6. ASSUME Ledger
      PROVE  order'.status \in {"PAID", "RECOVERY"} => row.status \notin ActiveStatuses
  <2>1. CASE Quiet
    <3>1. row.status = invoices[FirstInvoice].status
      BY <1>1, <2>1, LockFields, AttemptOfSent DEF Quiet, Journal
    <3> QED
      BY <1>4, <2>1, <3>1 DEF Quiet
  <2>2. ASSUME NEW m \in Sent, Grants(m)
        PROVE  row.status = "PAID"
    BY <2>2, GrantSettles DEF Books
  <2>3. ASSUME NEW m \in Movements, NEW code \in ValidationCodes, CreditGroup(m, code)
        PROVE  order'.status \in {"PAID", "RECOVERY"} => row.status \notin ActiveStatuses
    <3>1. CASE ForceRecovery(m)
      BY <2>3, <3>1, ForcedSettles
    <3>2. CASE ~ ForceRecovery(m)
      BY <2>3, <3>2, CreditSettles, UnforcedIsOpen DEF Books, ActiveStatuses
    <3> QED
      BY <3>1, <3>2
  <2>4. ASSUME NEW r \in allocations, ReverseAllocation(r)
        PROVE  row.status = "FAILED"
    BY <2>4, ReversalSettles
  <2> QED
    BY <1>6, <2>1, <2>2, <2>3, <2>4, LedgerWrites DEF ActiveStatuses
<1>7. ASSUME NEW i \in Invoices, NEW asset \in CheckoutAssets, SelectAsset(i, asset)
      PROVE  UNCHANGED order /\ row.status = invoices[FirstInvoice].status
  <2>1. PICK x \in InvoiceRows : x = invoices[i]
    BY <1>1
  <2>2. [x EXCEPT !.asset = asset].status = x.status
    BY DEF InvoiceRows
  <2>3. invoices' = [invoices EXCEPT ![i] = [x EXCEPT !.asset = asset]] /\ UNCHANGED order
    BY <1>1, <1>7, <2>1 DEF SelectAsset
  <2> QED
    BY <1>1, <2>1, <2>2, <2>3
<1>8. CASE Checkout
  BY <1>4, <1>5, <1>7, <1>8, NoneCreated
  DEF Checkout, FindOverdue, CheckNewAttempt, CreateAttemptFails, BeginExpiry, AbortExpiry, rows,
      ActiveStatuses
<1>9. CASE Environment \/ UNCHANGED vars
  BY <1>4, <1>5, <1>9 DEF Environment, Tick, Transfer, RecordRate, vars, rows
<1> QED
  BY <1>5, <1>6, <1>8, <1>9 DEF Next

\* The invariant of an order with one attempt.
Sole ==
  /\ Balanced /\ ExpiryAgrees
  /\ PaidOrderIsClosed
  /\ order.status = "RECOVERY" => ~ Active(FirstInvoice)
  /\ invoices[FirstInvoice].status # "ABSENT"

LEMMA SoleStep ==
  ASSUME Invoices = {FirstInvoice}, Journal, Typed, AttemptRows, AttemptsBacked, Books, Sole,
         [Next]_vars
  PROVE  Sole'
<1>1. Balanced' /\ ExpiryAgrees'
  BY BalancedStep DEF Sole
<1>2. /\ PaidOrderIsClosed'
      /\ order'.status = "RECOVERY" => invoices'[FirstInvoice].status \notin ActiveStatuses
  BY ClosedStep DEF Sole
<1>3. invoices'[FirstInvoice].status # "ABSENT"
  BY AttemptsStay DEF Sole
<1> QED
  BY <1>1, <1>2, <1>3 DEF Sole, Active

LEMMA SoleHolds ==
  ASSUME Invoices = {FirstInvoice}
  PROVE  Spec => [](Journal /\ Typed /\ AttemptsBacked /\ Books /\ Sole)
<1> DEFINE Base == Journal /\ Typed /\ AttemptRows /\ AttemptsBacked /\ Books
<1>1. Init => Sole
  <2> SUFFICES ASSUME Init PROVE Sole
    OBVIOUS
  <2>1. /\ allocations = {} /\ adjustments = {} /\ expiry = NoExpiry
        /\ order.credited = 0 /\ order.overpayment = 0 /\ order.discount = 0
        /\ order.status = "PENDING"
        /\ invoices[FirstInvoice].status = "PENDING"
    BY StateAssumption DEF Init, NewInvoice
  <2>2. NetDiscount(adjustments) = 0 /\ NetCredit(allocations) = 0
    <3>1. Total({}) = 0
      BY TotalFacts, FS_EmptySet DEF Amounts
    <3>2. ActiveDiscounts(adjustments) = {} /\ ActiveCredits(allocations) = {}
      BY <2>1 DEF ActiveDiscounts, ActiveCredits
    <3> QED
      BY <3>1, <3>2 DEF NetDiscount, NetCredit
  <2>3. Capped(0) = 0 /\ Overpaid(0) = 0
    BY StateAssumption DEF Capped, Overpaid
  <2> QED
    BY <2>1, <2>2, <2>3 DEF Sole, Balanced, ExpiryAgrees, PaidOrderIsClosed
<1>2. Base /\ Sole /\ [Next]_vars => Sole'
  BY SoleStep
<1>3. Spec => []Base
  BY AccountSoundHolds, TypedHolds, PTL
<1> QED
  BY <1>1, <1>2, <1>3, PTL DEF Spec

\* With one attempt, what the order and the attempt say was paid is what the append-only
\* tables back, across markInvoiceExpired too, so that no ledger call throws.
THEOREM AccountingBackedHolds ==
  ASSUME Invoices = {FirstInvoice}
  PROVE  Spec => []AccountingBacked
<1> DEFINE Inv == Journal /\ Typed /\ AttemptsBacked /\ Books /\ Sole
<1>1. Inv => AccountingBacked
  <2> SUFFICES ASSUME Inv PROVE AccountingBacked
    OBVIOUS
  <2>1. NetCredit(allocations) \in Nat
    BY SumsNow, SumsType
  <2>2. \A n \in Nat : Capped(n) + Overpaid(n) = n
    BY StateAssumption DEF Capped, Overpaid
  <2>3. Baseline
    BY <2>1, <2>2 DEF Sole, Balanced, Baseline
  <2> QED
    BY <2>3 DEF AccountingBacked, AttemptsBacked
<1> QED
  BY <1>1, SoleHolds, PTL

\* With one attempt, a paid order asks for no further payment.
THEOREM PaidOrderIsClosedHolds ==
  ASSUME Invoices = {FirstInvoice}
  PROVE  Spec => []PaidOrderIsClosed
<1>1. Sole => PaidOrderIsClosed
  BY DEF Sole
<1> QED
  BY <1>1, SoleHolds, PTL

\* With one attempt, nothing in the code takes an order out of recovery, and a paid order
\* only ever turns to recovery.
THEOREM SettlementIsFinalHolds ==
  ASSUME Invoices = {FirstInvoice}
  PROVE  Spec => SettlementIsFinal
<1> DEFINE Inv == Journal /\ Typed /\ AttemptsBacked /\ Books /\ Sole
<1>1. Inv /\ [Next]_vars =>
        [/\ order.status = "RECOVERY" => order'.status = "RECOVERY"
         /\ order.status = "PAID" => order'.status \in {"PAID", "RECOVERY"}]_vars
  <2> SUFFICES ASSUME Inv, [Next]_vars
               PROVE  /\ order.status = "RECOVERY" => order'.status = "RECOVERY"
                      /\ order.status = "PAID" => order'.status \in {"PAID", "RECOVERY"}
    OBVIOUS
  <2>1. FinishExpiry => order.status \notin {"PAID", "RECOVERY"}
    BY ClosedStep DEF Sole
  <2> QED
    BY <2>1, SettledStep
<1> QED
  BY <1>1, SoleHolds, PTL DEF Spec, SettlementIsFinal
=============================================================================
