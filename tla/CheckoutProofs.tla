--------------------------- MODULE CheckoutProofs ---------------------------
(***************************************************************************)
(* The checkout's invariants for every number of attempts, requests and    *)
(* transfers, in four inductive layers.  Sound: what a call may rely on    *)
(* where it stands, and that whoever attaches an attempt gives way or      *)
(* supersedes.  Accounted: the order agrees with its attempts, status by   *)
(* status, and a call that nobody has overtaken is about to leave it so.   *)
(* Paying: whoever is about to write PAID has a paid attempt to show.      *)
(* History: what rows and calls know of the past; the first transfer in    *)
(* time, and with it the window, never changes once it has been seen, and  *)
(* a window that is over gets nothing more.  Page, at the end, is the      *)
(* widget on a buyer's page, with its own inductive invariant.             *)
(***************************************************************************)
EXTENDS Checkout, SumTheorems, TLAPS

Statuses == ActiveStatuses \cup {"ABSENT", "PAID", "EXPIRED", "CANCELLED", "FAILED"}
RowTypes == [status: Statuses, attached: BOOLEAN, superseded: BOOLEAN, createdAt: Nat,
             paid: SUBSET Transfers, atomic: SUBSET Transfers, credited: Nat,
             start: Int, until: Int]
OrderTypes == [status: Statuses \cup {"RECOVERY"}, credited: Nat]
Kinds == {"NONE", "PAID", "PARTIAL", "EXPIRED"}
Decisions == [kind: Kinds, paid: SUBSET Transfers, start: Int, until: Int]
Stations == {"IDLE", "FIND", "CHECKED", "SEEN", "DECIDED"} \cup Transaction
Nobody == CHOOSE i \in Attempts : TRUE
Calls == [at: Stations, attempt: Attempts \cup {Nobody}, row: RowTypes, now: Nat,
          decision: Decisions, terminal: BOOLEAN, actives: SUBSET Attempts, to: OrderTypes,
          fresh: BOOLEAN, alone: BOOLEAN]

\* A window is open for those alone who have received something; without one a row has
\* received nothing or all at once.  What an instance of the release before has left is
\* credited nothing.
RowOK(r) ==
  /\ r.status = "ABSENT" => ~r.attached
  /\ r.start # NoTime => r.paid # {}
  /\ r.start = NoTime => r.until = NoTime /\ (r.paid = {} \/ Sum(r.paid) >= Amount)
  /\ ~r.attached =>
       /\ r.credited = 0 /\ r.status \notin {"CANCELLED", "FAILED"}
       /\ r.status = "PENDING" => r.paid = {}
       /\ r.status = "PARTIAL" => r.paid # {}

DecisionOK(d) ==
  /\ d.kind = "PAID" => d.paid # {} /\ Sum(d.paid) >= Amount
  /\ d.kind = "PARTIAL" => d.paid # {} /\ d.start # NoTime

\* What a call with local state k can rely on, if the attempts are a at time n.
CallOK(k, a, n) ==
  /\ k.at \in {"SEEN", "DECIDED"} \cup Transaction =>
       k.attempt \in Attempts /\ a[k.attempt].status # "ABSENT"
  /\ DecisionOK(k.decision)
  /\ k.at = "SEEN" =>
       /\ RowOK(k.row) /\ k.row.status \in ActiveStatuses
       /\ k.row.createdAt = a[k.attempt].createdAt /\ k.now <= n
  /\ k.at \in Transaction =>
       IF k.row.attached THEN k.at \in {"BEGUN", "TAKEN"} /\ a[k.attempt].attached
       ELSE /\ RowOK(k.row) /\ k.row.status # "ABSENT"
            /\ k.decision.kind = "NONE" \/ k.row.status \in ActiveStatuses
  /\ k.at = "TAKEN" /\ ~k.row.attached /\ ~Preferred(k) =>
       /\ ~a[k.attempt].attached
       /\ AttachedAs(k) \in ActiveStatuses => Rivals(a, k.attempt) = {}

World ==
  /\ now \in Nat
  /\ chain \in [Transfers -> Nat \cup {NoTime}]
  /\ \A t \in Transfers : chain[t] <= now
  /\ journal \in SUBSET {t \in Transfers : chain[t] # NoTime}
  /\ events \in Nat

Typed ==
  /\ World
  /\ order \in OrderTypes
  /\ attempt \in [Attempts -> RowTypes]
  /\ call \in [Callers -> Calls]

OneIsActive(a) == \A i, k \in Attempts : Live(a[i]) /\ Live(a[k]) => i = k

Sound ==
  /\ Typed
  /\ \A i \in Attempts : RowOK(attempt[i])
  /\ \A c \in Callers : CallOK(call[c], attempt, now)
  /\ OneIsActive(attempt)

\* The order o agrees with the attempts a, status by status.
Agrees(o, a) ==
  /\ o.credited = Credit(a)
  /\ o.status \in {"PAID", "PARTIAL"} =>
       \E i \in Attempts : Funded(a) = {i} /\ a[i].status = o.status
  /\ o.status \notin {"PAID", "PARTIAL", "RECOVERY"} => Funded(a) = {}

\* What a transaction in k has read is still so, and what it is about to write agrees
\* with the attempts as they will then be, unless others have overtaken it.
Joins(k) == ~k.row.attached
CallAgrees(k, o, a) ==
  k.alone =>
    /\ Joins(k) /\ k.at \in {"ORDERED", "JOINING", "TAKEN"} => k.terminal = (o.status \in Closed)
    /\ Joins(k) /\ k.at \in {"JOINING", "TAKEN"} => k.actives = {i \in Attempts : Live(a[i])}
    /\ ~Joins(k) /\ k.at = "TAKEN" => Marks(k, a) /\ Agrees(k.to, Marked(k, a))
    /\ /\ Joins(k) /\ k.at = "TAKEN" /\ ~a[k.attempt].attached
       /\ Agrees(o, a) /\ ~Marks(k, Joined(k, a))
       => Agrees(k.to, Joined(k, a))
Accounted ==
  /\ ~overtaken => Agrees(order, attempt)
  /\ \A c \in Callers : CallAgrees(call[c], order, attempt)

\* Whoever is about to write PAID pays an attempt, attaches a paid one or has seen one.
HasPaid(a) ==
  \E i \in Attempts : a[i].attached /\ a[i].status = "PAID" /\ a[i].credited = Amount
CallPays(k, a) ==
  k.at = "TAKEN" /\ k.to.status = "PAID" =>
    \/ HasPaid(a)
    \/ ~Joins(k) /\ FenceHolds(k, a) /\ k.decision.kind = "PAID"
    \/ Joins(k) /\ (a[k.attempt].attached \/ k.row.status = "PAID")
Paying ==
  ~lost => /\ order.status = "PAID" => HasPaid(attempt)
           /\ \A c \in Callers : CallPays(call[c], attempt)

\* What the transfers in ch have come to for an attempt i made at time c: those it
\* has received, the first of them, and those that count.
Received(ch, i, c) == {t \in Transfers : TransferOf[t].to = i /\ ch[t] >= c}
First(ch, i, c) == {t \in Received(ch, i, c) : ch[t] <= c + InvoiceTtl}
Start(ch, ts) == ch[CHOOSE t \in ts : \A u \in ts : ch[t] <= ch[u]]
End(ch, i, c) == Start(ch, First(ch, i, c)) + PartialTtl
Counting(ch, i, c) ==
  IF First(ch, i, c) = {} THEN {} ELSE {t \in Received(ch, i, c) : ch[t] <= End(ch, i, c)}

\* Its window is the one from start to until; at time n it is over, without success.
Opened(ch, i, c, start, until) ==
  /\ First(ch, i, c) # {}
  /\ start = Start(ch, First(ch, i, c)) /\ until = End(ch, i, c)
Missed(ch, i, c, n) ==
  /\ IF First(ch, i, c) = {} THEN c + InvoiceTtl < n ELSE End(ch, i, c) < n
  /\ Sum(Counting(ch, i, c)) < Amount

\* What rows, decisions and calls know of the past.
RowKnows(ch, i, r) == r.start # NoTime => Opened(ch, i, r.createdAt, r.start, r.until)
DecisionKnows(ch, i, c, n, d) ==
  /\ d.kind = "PARTIAL" => Opened(ch, i, c, d.start, d.until)
  /\ d.kind = "EXPIRED" => Missed(ch, i, c, n)
CallKnows(ch, i, c, n, k) ==
  /\ k.at = "SEEN" => RowKnows(ch, i, k.row)
  /\ k.at \in {"DECIDED"} \cup Transaction => DecisionKnows(ch, i, c, n, k.decision)
  /\ k.at \in Transaction /\ Joins(k) /\ k.row.status = "EXPIRED" => Missed(ch, i, c, n)
CallsKnow(ch, i, c, n, cs) ==
  \A x \in Callers : cs[x].attempt = i => CallKnows(ch, i, c, n, cs[x])

\* Nothing has hidden a transfer to the attempt.
Known(i) == ~late /\ Undisputed(i)
Remembers(i) ==
  /\ RowKnows(chain, i, attempt[i])
  /\ attempt[i].status = "EXPIRED" => Missed(chain, i, attempt[i].createdAt, now)
  /\ CallsKnow(chain, i, attempt[i].createdAt, now, call)
History == \A i \in Attempts : Known(i) => Remembers(i)
-----------------------------------------------------------------------------
(* Sums, credits and the first transfer.                                    *)

LEMMA SumOfTransfers ==
  ASSUME NEW ts, ts \subseteq Transfers
  PROVE  /\ Sum(ts) \in Nat
         /\ ts = {} <=> Sum(ts) = 0
         /\ \A us : us \subseteq ts => Sum(us) <= Sum(ts)
<1> DEFINE f == [t \in Transfers |-> TransferOf[t].amount]
<1>1. \A t \in Transfers : f[t] \in Nat /\ f[t] > 0
  BY CheckoutAssumption DEF Facts
<1>2. \A us : Sum(us) = SumFunctionOnSet(f, us)
  BY DEF Sum, SumFunctionOnSet
<1>3. IsFiniteSet(ts)
  BY CheckoutAssumption, FS_Subset
<1> HIDE DEF f
<1>4. Sum(ts) \in Nat
  BY <1>1, <1>2, <1>3, SumGrows
<1>5. ASSUME NEW us, us \subseteq ts
      PROVE  Sum(us) <= Sum(ts)
  BY <1>1, <1>2, <1>3, <1>5, SumGrows
<1>6. Sum({}) = 0
  BY <1>2, SumOfNone
<1>7. ASSUME NEW t \in ts
      PROVE  Sum(ts) > 0
  <2>1. Sum({t}) = f[t]
    BY <1>1, <1>2, SumOfOne
  <2>2. Sum({t}) <= Sum(ts)
    BY <1>5
  <2> QED
    BY <1>1, <1>4, <2>1, <2>2
<1>8. ts = {} <=> Sum(ts) = 0
  BY <1>4, <1>6, <1>7
<1> QED
  BY <1>4, <1>5, <1>8

LEMMA FiatCreditType ==
  ASSUME NEW paid \in SUBSET Transfers
  PROVE  FiatCredit(paid) \in Nat /\ (paid = {} <=> FiatCredit(paid) = 0)
BY SumOfTransfers, CheckoutAssumption DEF FiatCredit, Lesser

LEMMA CreditOf ==
  ASSUME NEW a \in [Attempts -> RowTypes]
  PROVE  Credit(a) \in Nat /\ (Credit(a) = 0 <=> Funded(a) = {})
<1> DEFINE f == [i \in Attempts |-> a[i].credited]
           F == Funded(a)
<1>1. \A i \in Attempts : f[i] \in Nat
  BY DEF RowTypes
<1>2. F \subseteq Attempts /\ IsFiniteSet(F) /\ \A i \in F : f[i] > 0
  BY CheckoutAssumption, FS_Subset DEF Funded
<1>3. Credit(a) = Lesser(Amount, SumFunctionOnSet(f, F))
  BY DEF Credit, SumFunctionOnSet
<1> HIDE DEF f, F
<1>4. SumFunctionOnSet(f, F) \in Nat
  BY <1>1, <1>2, SumGrows
<1>5. SumFunctionOnSet(f, {}) = 0
  BY SumOfNone
<1>6. ASSUME NEW i \in F
      PROVE  SumFunctionOnSet(f, F) > 0
  <2>1. SumFunctionOnSet(f, {i}) = f[i]
    BY <1>1, <1>2, SumOfOne
  <2>2. SumFunctionOnSet(f, {i}) <= SumFunctionOnSet(f, F)
    <3>1. {i} \in SUBSET F /\ \A k \in F : f[k] \in Nat
      BY <1>1, <1>2
    <3> QED
      BY <1>2, <3>1, SumGrows
  <2> QED
    BY <1>1, <1>2, <1>4, <2>1, <2>2
<1>7. SumFunctionOnSet(f, F) = 0 <=> F = {}
  BY <1>4, <1>5, <1>6
<1>8. Credit(a) \in Nat /\ (Credit(a) = 0 <=> SumFunctionOnSet(f, F) = 0)
  BY <1>3, <1>4, CheckoutAssumption DEF Lesser
<1> QED
  BY <1>7, <1>8 DEF F

\* The credit is that of the funded attempts.
LEMMA CreditAgrees ==
  ASSUME NEW a, NEW b, Funded(a) = Funded(b), \A i \in Funded(a) : a[i].credited = b[i].credited
  PROVE  Credit(a) = Credit(b)
<1> DEFINE f == [i \in Attempts |-> a[i].credited]
           g == [i \in Attempts |-> b[i].credited]
           F == Funded(a)
<1>1. F \subseteq Attempts /\ IsFiniteSet(F)
  BY CheckoutAssumption, FS_Subset DEF Funded
<1>2. \A i \in F : f[i] = g[i]
  BY <1>1
<1>3. /\ Credit(a) = Lesser(Amount, SumFunctionOnSet(f, F))
      /\ Credit(b) = Lesser(Amount, SumFunctionOnSet(g, F))
  BY DEF Credit, SumFunctionOnSet
<1> HIDE DEF f, g, F
<1>4. SumFunctionOnSet(f, F) = SumFunctionOnSet(g, F)
  BY <1>1, <1>2, SumAgrees
<1> QED
  BY <1>3, <1>4

LEMMA FundedAlone ==
  ASSUME NEW a, Cardinality(Funded(a)) <= 1, NEW i \in Funded(a)
  PROVE  Funded(a) = {i}
<1>1. IsFiniteSet(Funded(a))
  BY CheckoutAssumption, FS_Subset DEF Funded
<1>2. Cardinality(Funded(a)) \in Nat /\ Cardinality(Funded(a)) # 0
  BY <1>1, FS_EmptySet, FS_CardinalityType
<1>3. Cardinality(Funded(a)) = 1
  BY <1>2
<1> QED
  BY <1>1, <1>3, FS_Singleton

LEMMA FundedCount ==
  ASSUME NEW a
  PROVE  Cardinality(Funded(a)) \in Nat
BY CheckoutAssumption, FS_Subset, FS_CardinalityType DEF Funded

LEMMA StartIs ==
  ASSUME NEW ch \in [Transfers -> Nat \cup {NoTime}], NEW ts \in SUBSET Transfers, ts # {},
         \A t \in ts : ch[t] # NoTime
  PROVE  /\ Start(ch, ts) \in Nat
         /\ \E t \in ts : Start(ch, ts) = ch[t]
         /\ \A t \in ts : Start(ch, ts) <= ch[t]
<1> DEFINE T == {ch[t] : t \in ts}
<1>1. T \subseteq Nat /\ T # {}
  OBVIOUS
<1>2. \E n \in T : \A m \in T : n <= m
  <2> HIDE DEF T
  <2> QED
    BY <1>1, LeastNumber
<1>3. \E t \in ts : \A u \in ts : ch[t] <= ch[u]
  BY <1>2
<1> DEFINE x == CHOOSE t \in ts : \A u \in ts : ch[t] <= ch[u]
<1>4. x \in ts /\ \A u \in ts : ch[x] <= ch[u]
  BY <1>3
<1>5. Start(ch, ts) = ch[x]
  BY DEF Start
<1> HIDE DEF x
<1> QED
  BY <1>1, <1>4, <1>5

LEMMA StartAgrees ==
  ASSUME NEW ch \in [Transfers -> Nat \cup {NoTime}], NEW ts \in SUBSET Transfers, ts # {},
         \A t \in ts : ch[t] # NoTime, NEW x \in ts, \A t \in ts : ch[x] <= ch[t]
  PROVE  Start(ch, ts) = ch[x]
<1>1. PICK y \in ts : Start(ch, ts) = ch[y]
  BY StartIs
<1>2. ch[y] <= ch[x] /\ ch[x] <= ch[y]
  BY <1>1, StartIs
<1> QED
  BY <1>1, <1>2
-----------------------------------------------------------------------------
(* What joining the order comes to.                                         *)

\* Everything that an attachment leaves alone in a row.
SameFacts(r, s) ==
  /\ s.createdAt = r.createdAt /\ s.paid = r.paid /\ s.start = r.start /\ s.until = r.until
  /\ r.attached => s.attached
GivesUp(r, s) ==
  SameFacts(r, s) /\ r.attached /\ r.credited = s.credited /\ s.status \in {"FAILED", "CANCELLED"}

\* Joined, row by row: what becomes of the attempt's own and of a rival's.
CreditDue(f) == IF f.status = "PAID" THEN Amount ELSE FiatCredit(f.paid)
Attach(k, r) ==
  [r EXCEPT !.attached = TRUE, !.status = AttachedAs(k), !.superseded = AttachedAs(k) = "CANCELLED",
            !.atomic = k.row.paid, !.credited = CreditDue(k.row)]
GiveUp(r) ==
  [r EXCEPT !.status = IF r.credited > 0 THEN "FAILED" ELSE "CANCELLED", !.superseded = TRUE]
Restore(k, r) ==
  IF r.status = "CANCELLED" /\ r.superseded /\ k.row.status # "CANCELLED"
  THEN [r EXCEPT !.status = k.row.status, !.superseded = FALSE] ELSE r
Own(k, r) ==
  LET s == IF r.attached THEN r ELSE Attach(k, r)
  IN  IF Preferred(k) THEN Restore(k, s) ELSE s
JoinedRow(k, a, x) ==
  IF x = k.attempt THEN Own(k, a[x])
  ELSE IF Preferred(k) /\ Live(a[x]) THEN GiveUp(a[x]) ELSE a[x]

LEMMA AttachIs ==
  ASSUME NEW k \in Calls, NEW r \in RowTypes, NEW s, s = Attach(k, r)
  PROVE  /\ s \in RowTypes /\ SameFacts(r, s) /\ s.attached /\ s.credited = CreditDue(k.row)
         /\ s.status = AttachedAs(k) /\ s.superseded = (AttachedAs(k) = "CANCELLED")
<1>1. PICK st : st = AttachedAs(k)
  OBVIOUS
<1>2. PICK n : n = CreditDue(k.row)
  OBVIOUS
<1>3. PICK p : p = k.row.paid
  OBVIOUS
<1>4. k.row \in RowTypes /\ k.row.status \in Statuses /\ p \in SUBSET Transfers
  BY <1>3 DEF Calls, RowTypes
<1>5. n \in Nat
  BY <1>2, <1>3, <1>4, FiatCreditType, CheckoutAssumption DEF CreditDue
<1>6. st \in Statuses
  BY <1>1, <1>4 DEF AttachedAs, Statuses
<1>7. s = [r EXCEPT !.attached = TRUE, !.status = st, !.superseded = st = "CANCELLED",
                    !.atomic = p, !.credited = n]
  BY <1>1, <1>2, <1>3 DEF Attach
<1>8. /\ s \in RowTypes /\ SameFacts(r, s) /\ s.attached /\ s.credited = n
      /\ s.status = st /\ s.superseded = (st = "CANCELLED")
  BY <1>4, <1>5, <1>6, <1>7 DEF RowTypes, SameFacts
<1> QED
  BY <1>1, <1>2, <1>8

LEMMA GiveUpIs ==
  ASSUME NEW r \in RowTypes, r.attached, NEW s, s = GiveUp(r)
  PROVE  s \in RowTypes /\ GivesUp(r, s)
<1>1. PICK st : st = IF r.credited > 0 THEN "FAILED" ELSE "CANCELLED"
  OBVIOUS
<1>2. st \in {"FAILED", "CANCELLED"} /\ st \in Statuses
  BY <1>1 DEF Statuses
<1>3. s = [r EXCEPT !.status = st, !.superseded = TRUE]
  BY <1>1 DEF GiveUp
<1> QED
  BY <1>2, <1>3 DEF RowTypes, GivesUp, SameFacts

LEMMA RestoreIs ==
  ASSUME NEW k \in Calls, NEW r \in RowTypes, NEW s, s = Restore(k, r)
  PROVE  /\ s \in RowTypes /\ SameFacts(r, s) /\ s.credited = r.credited /\ s.attached = r.attached
         /\ IF r.status = "CANCELLED" /\ r.superseded /\ k.row.status # "CANCELLED"
            THEN s.status = k.row.status ELSE s = r
<1>1. PICK st \in Statuses : st = k.row.status
  BY DEF Calls, RowTypes
<1>2. s = IF r.status = "CANCELLED" /\ r.superseded /\ st # "CANCELLED"
          THEN [r EXCEPT !.status = st, !.superseded = FALSE] ELSE r
  BY <1>1 DEF Restore
<1> QED
  BY <1>1, <1>2 DEF RowTypes, SameFacts

\* What is found without an order.
FoundAs(k) == k \in Calls /\ k.attempt \in Attempts /\ Joins(k) /\ RowOK(k.row) /\ k.row.status # "ABSENT"

OwnAs(k, r, s) ==
  /\ s \in RowTypes /\ SameFacts(r, s) /\ s.attached
  /\ r.attached => /\ s.credited = r.credited
                   /\ s = r \/ (r.status = "CANCELLED" /\ s.status = k.row.status)
  /\ ~r.attached => /\ s.credited = CreditDue(k.row)
                    /\ s.status = IF Preferred(k) THEN k.row.status ELSE AttachedAs(k)

LEMMA OwnIs ==
  ASSUME NEW k, FoundAs(k), NEW r \in RowTypes, NEW s, s = Own(k, r)
  PROVE  OwnAs(k, r, s)
<1>1. k \in Calls /\ k.row.status # "CANCELLED"
  BY DEF FoundAs, RowOK, Joins
<1>2. PICK j : j = IF r.attached THEN r ELSE Attach(k, r)
  OBVIOUS
<1>3. /\ j \in RowTypes /\ SameFacts(r, j) /\ j.attached
      /\ r.attached => j = r
      /\ ~r.attached => /\ j.credited = CreditDue(k.row) /\ j.status = AttachedAs(k)
                        /\ j.superseded = (AttachedAs(k) = "CANCELLED")
  <2>1. CASE r.attached
    BY <1>2, <2>1 DEF SameFacts
  <2>2. CASE ~r.attached
    <3>1. j = Attach(k, r)
      BY <1>2, <2>2
    <3> QED
      BY <1>1, <2>2, <3>1, AttachIs
  <2> QED
    BY <2>1, <2>2
<1>4. CASE ~Preferred(k)
  <2>1. s = j
    BY <1>2, <1>4 DEF Own
  <2> QED
    BY <1>3, <1>4, <2>1 DEF OwnAs
<1>5. CASE Preferred(k)
  <2>1. s = Restore(k, j)
    BY <1>2, <1>5 DEF Own
  <2>2. /\ s \in RowTypes /\ SameFacts(j, s) /\ s.credited = j.credited /\ s.attached = j.attached
        /\ IF j.status = "CANCELLED" /\ j.superseded THEN s.status = k.row.status ELSE s = j
    BY <1>1, <1>3, <2>1, RestoreIs
  <2>3. SameFacts(r, s) /\ s.attached
    BY <1>3, <2>2 DEF SameFacts
  <2>4. AttachedAs(k) \in {k.row.status, "CANCELLED"}
    BY DEF AttachedAs
  <2> QED
    BY <1>3, <1>5, <2>2, <2>3, <2>4 DEF OwnAs
<1> QED
  BY <1>4, <1>5

LEMMA JoinedIs ==
  ASSUME NEW k, k.attempt \in Attempts, Joins(k), NEW a \in [Attempts -> RowTypes]
  PROVE  /\ Joined(k, a) = [x \in Attempts |-> Joined(k, a)[x]]
         /\ \A x \in Attempts : Joined(k, a)[x] = JoinedRow(k, a, x)
<1>1. PICK i \in Attempts : i = k.attempt
  OBVIOUS
<1>2. PICK j : j = IF a[i].attached THEN a ELSE Attached(k, a)
  OBVIOUS
<1>3. PICK own : own = IF a[i].attached THEN a[i] ELSE Attach(k, a[i])
  OBVIOUS
<1>4. j = [a EXCEPT ![i] = own]
  <2>1. CASE a[i].attached
    BY <1>2, <1>3, <2>1
  <2>2. CASE ~a[i].attached
    BY <1>1, <1>2, <1>3, <2>2 DEF Attached, Attach, CreditDue
  <2> QED
    BY <2>1, <2>2
<1>5. j = [x \in Attempts |-> j[x]] /\ j[i] = own /\ \A x \in Attempts \ {i} : j[x] = a[x]
  BY <1>4
<1>6. CASE ~Preferred(k)
  <2>1. Joined(k, a) = j
    BY <1>1, <1>2, <1>6 DEF Joined, Joins
  <2> QED
    BY <1>1, <1>3, <1>5, <1>6, <2>1 DEF JoinedRow, Own
<1>7. CASE Preferred(k)
  <2>1. PICK s : s = Superseded(j, i)
    OBVIOUS
  <2>2. s = [x \in Attempts |-> s[x]] /\ \A x \in Attempts : s[x] = IF x \in Rivals(j, i) THEN GiveUp(j[x]) ELSE j[x]
    BY <2>1 DEF Superseded, GiveUp
  <2>3. \A x \in Attempts : x \in Rivals(j, i) <=> x # i /\ Live(a[x])
    BY <1>5 DEF Rivals
  <2>4. s[i] = own /\ \A x \in Attempts \ {i} : s[x] = IF Live(a[x]) THEN GiveUp(a[x]) ELSE a[x]
    BY <1>5, <2>2, <2>3
  <2>5. PICK b : b = Restored(s, i, k.row)
    OBVIOUS
  <2>6. b = [s EXCEPT ![i] = Restore(k, own)]
    BY <2>2, <2>4, <2>5 DEF Restored, Restore
  <2>7. b = [x \in Attempts |-> b[x]] /\ b[i] = Restore(k, own) /\ \A x \in Attempts \ {i} : b[x] = s[x]
    BY <2>2, <2>6
  <2>8. Joined(k, a) = b
    BY <1>1, <1>2, <1>7, <2>1, <2>5 DEF Joined, Joins
  <2>9. \A x \in Attempts : b[x] = JoinedRow(k, a, x)
    BY <1>1, <1>3, <1>7, <2>4, <2>7 DEF JoinedRow, Own
  <2> QED
    BY <2>7, <2>8, <2>9
<1> QED
  BY <1>6, <1>7

JoinedAs(k, a, b) ==
  /\ b \in [Attempts -> RowTypes]
  /\ OwnAs(k, a[k.attempt], b[k.attempt])
  /\ \A x \in Attempts \ {k.attempt} :
       /\ b[x] = a[x] \/ (Preferred(k) /\ Live(a[x]) /\ GivesUp(a[x], b[x]))
       /\ Preferred(k) => ~Live(b[x])

LEMMA Joining ==
  ASSUME NEW k, FoundAs(k), NEW a \in [Attempts -> RowTypes], NEW b, b = Joined(k, a)
  PROVE  JoinedAs(k, a, b)
<1>1. k.attempt \in Attempts /\ Joins(k)
  BY DEF FoundAs
<1>2. b = [x \in Attempts |-> b[x]] /\ \A x \in Attempts : b[x] = JoinedRow(k, a, x)
  BY <1>1, JoinedIs
<1>3. b[k.attempt] = Own(k, a[k.attempt])
  BY <1>1, <1>2 DEF JoinedRow
<1>4. OwnAs(k, a[k.attempt], b[k.attempt])
  BY <1>1, <1>3, OwnIs
<1>5. ASSUME NEW x \in Attempts \ {k.attempt}
      PROVE  /\ b[x] \in RowTypes
             /\ b[x] = a[x] \/ (Preferred(k) /\ Live(a[x]) /\ GivesUp(a[x], b[x]))
             /\ Preferred(k) => ~Live(b[x])
  <2>1. CASE Preferred(k) /\ Live(a[x])
    <3>1. b[x] = GiveUp(a[x]) /\ a[x].attached /\ a[x] \in RowTypes
      BY <1>2, <2>1 DEF JoinedRow, Live
    <3>2. b[x] \in RowTypes /\ GivesUp(a[x], b[x])
      BY <3>1, GiveUpIs
    <3> QED
      BY <2>1, <3>2 DEF GivesUp, Live, ActiveStatuses
  <2>2. CASE ~(Preferred(k) /\ Live(a[x]))
    BY <1>2, <2>2 DEF JoinedRow
  <2> QED
    BY <2>1, <2>2
<1>6. \A x \in Attempts : b[x] \in RowTypes
  BY <1>4, <1>5 DEF OwnAs
<1> QED
  BY <1>2, <1>4, <1>5, <1>6 DEF JoinedAs

\* Attempts of no order make no difference to one.
SameBook(a, b) == \A x \in Attempts : a[x] = b[x] \/ (~a[x].attached /\ ~b[x].attached)

LEMMA JoinedSame ==
  ASSUME NEW k, k.attempt \in Attempts, Joins(k), NEW a \in [Attempts -> RowTypes],
         NEW b \in [Attempts -> RowTypes], SameBook(a, b), a[k.attempt] = b[k.attempt]
  PROVE  /\ SameBook(Joined(k, a), Joined(k, b))
         /\ Joined(k, a)[k.attempt] = Joined(k, b)[k.attempt]
<1>1. /\ \A x \in Attempts : Joined(k, a)[x] = JoinedRow(k, a, x)
      /\ \A x \in Attempts : Joined(k, b)[x] = JoinedRow(k, b, x)
  BY JoinedIs
<1>2. Joined(k, a)[k.attempt] = Joined(k, b)[k.attempt]
  BY <1>1 DEF JoinedRow
<1>3. ASSUME NEW x \in Attempts \ {k.attempt}
      PROVE  \/ JoinedRow(k, a, x) = JoinedRow(k, b, x)
             \/ ~JoinedRow(k, a, x).attached /\ ~JoinedRow(k, b, x).attached
  BY DEF JoinedRow, SameBook, Live
<1> QED
  BY <1>1, <1>2, <1>3 DEF SameBook

LEMMA SameBookAgrees ==
  ASSUME NEW a \in [Attempts -> RowTypes], NEW b \in [Attempts -> RowTypes], SameBook(a, b)
  PROVE  /\ Funded(a) = Funded(b) /\ Credit(a) = Credit(b)
         /\ {i \in Attempts : Live(a[i])} = {i \in Attempts : Live(b[i])}
         /\ \A o : Agrees(o, a) <=> Agrees(o, b)
<1>1. Funded(a) = Funded(b) /\ \A i \in Funded(a) : a[i] = b[i]
  BY DEF Funded, SameBook
<1>2. {i \in Attempts : Live(a[i])} = {i \in Attempts : Live(b[i])}
  BY DEF Live, SameBook
<1>3. Credit(a) = Credit(b)
  BY <1>1, CreditAgrees
<1> QED
  BY <1>1, <1>2, <1>3 DEF Agrees
-----------------------------------------------------------------------------
(* What is known of the past stays true.                                    *)

Chains == [Transfers -> Nat \cup {NoTime}]

LEMMA Windows ==
  ASSUME NEW ch \in Chains, NEW i \in Attempts, NEW c \in Nat
  PROVE  /\ Received(ch, i, c) \in SUBSET Transfers
         /\ \A t \in Received(ch, i, c) : ch[t] \in Nat
         /\ First(ch, i, c) \in SUBSET Received(ch, i, c)
         /\ First(ch, i, c) # {} =>
              /\ Start(ch, First(ch, i, c)) \in Nat /\ End(ch, i, c) \in Nat
              /\ Start(ch, First(ch, i, c)) <= End(ch, i, c)
         /\ Counting(ch, i, c) \in SUBSET Transfers
<1>1. Received(ch, i, c) \in SUBSET Transfers /\ \A t \in Received(ch, i, c) : ch[t] \in Nat
  BY DEF Received, Chains, NoTime
<1>2. First(ch, i, c) \in SUBSET Received(ch, i, c) /\ Counting(ch, i, c) \in SUBSET Transfers
  BY <1>1 DEF First, Counting
<1>3. ASSUME First(ch, i, c) # {}
      PROVE  /\ Start(ch, First(ch, i, c)) \in Nat /\ End(ch, i, c) \in Nat
             /\ Start(ch, First(ch, i, c)) <= End(ch, i, c)
  <2> DEFINE F == First(ch, i, c)
  <2>1. F \in SUBSET Transfers /\ F # {} /\ \A t \in F : ch[t] # NoTime
    BY <1>1, <1>2, <1>3 DEF NoTime
  <2> HIDE DEF F
  <2>2. Start(ch, F) \in Nat
    BY <2>1, StartIs DEF Chains
  <2> QED
    BY <2>2, CheckoutAssumption DEF F, End
<1> QED
  BY <1>1, <1>2, <1>3

\* A transfer that is made now comes after all others.
LEMMA PayKeeps ==
  ASSUME NEW ch \in Chains, NEW n \in Nat, \A u \in Transfers : ch[u] <= n,
         NEW t \in Transfers, ch[t] = NoTime, NEW dh, dh = [ch EXCEPT ![t] = n],
         NEW i \in Attempts, NEW c \in Nat
  PROVE  /\ \A start, until : Opened(ch, i, c, start, until) => Opened(dh, i, c, start, until)
         /\ Missed(ch, i, c, n) => Missed(dh, i, c, n)
<1> DEFINE F == First(ch, i, c)
           G == First(dh, i, c)
           R == Received(ch, i, c)
           S == Received(dh, i, c)
<1>1. dh \in Chains /\ dh[t] = n /\ \A u \in Transfers \ {t} : dh[u] = ch[u]
  BY DEF Chains
<1>2. R \in SUBSET Transfers /\ t \notin R /\ \A u \in R : ch[u] \in Nat
  BY DEF Received, Chains, NoTime
<1>3. \A u \in Transfers \ {t} : u \in S <=> u \in R
  BY <1>1 DEF Received
<1>4. S \in SUBSET Transfers
  BY DEF Received
<1>5. \A u : u \in F <=> u \in R /\ ch[u] <= c + InvoiceTtl
  BY DEF First
<1>6. \A u : u \in G <=> u \in S /\ dh[u] <= c + InvoiceTtl
  BY DEF First
<1>7. InvoiceTtl \in Nat /\ PartialTtl \in Nat
  BY CheckoutAssumption
<1>8. F # {} => G # {} /\ Start(dh, G) = Start(ch, F)
  <2> SUFFICES ASSUME F # {} PROVE G # {} /\ Start(dh, G) = Start(ch, F)
    OBVIOUS
  <2>1. F \in SUBSET Transfers /\ \A u \in F : ch[u] # NoTime
    BY <1>2, <1>5 DEF NoTime
  <2>2. PICK x \in F : Start(ch, F) = ch[x] /\ \A u \in F : ch[x] <= ch[u]
    <3> HIDE DEF F
    <3>1. (\E x \in F : Start(ch, F) = ch[x]) /\ (\A u \in F : Start(ch, F) <= ch[u])
      BY <2>1, StartIs DEF Chains
    <3> QED
      BY <3>1
  <2>3. x \in G /\ dh[x] = ch[x]
    BY <1>1, <1>2, <1>3, <1>5, <1>6, <2>2
  <2>4. \A u \in G : dh[x] <= dh[u]
    <3> SUFFICES ASSUME NEW u \in G PROVE dh[x] <= dh[u]
      OBVIOUS
    <3>1. CASE u = t
      BY <1>1, <2>1, <2>2, <2>3, <3>1
    <3>2. CASE u # t
      <4>1. u \in F /\ dh[u] = ch[u]
        BY <1>1, <1>3, <1>4, <1>5, <1>6, <3>2
      <4> QED
        BY <2>2, <2>3, <4>1
    <3> QED
      BY <3>1, <3>2
  <2>5. G \in SUBSET Transfers /\ \A u \in G : dh[u] # NoTime
    <3>1. \A u \in S : u \in Transfers /\ dh[u] >= c
      BY DEF Received
    <3>2. \A u \in S : dh[u] # NoTime
      BY <1>1, <3>1 DEF Chains, NoTime
    <3> QED
      BY <1>4, <1>6, <3>2
  <2> HIDE DEF F, G
  <2>6. Start(dh, G) = dh[x]
    BY <1>1, <2>3, <2>4, <2>5, StartAgrees DEF Chains
  <2> QED
    BY <2>2, <2>3, <2>6
<1>9. F # {} => End(dh, i, c) = End(ch, i, c)
  BY <1>8 DEF End
<1>10. \A start, until : Opened(ch, i, c, start, until) => Opened(dh, i, c, start, until)
  BY <1>8, <1>9 DEF Opened
<1>11. ASSUME Missed(ch, i, c, n)
       PROVE  Missed(dh, i, c, n)
  <2>1. CASE F = {}
    <3>1. c + InvoiceTtl < n
      BY <1>11, <2>1 DEF Missed
    <3>2. G = {}
      <4> SUFFICES ASSUME NEW u \in G PROVE FALSE
        OBVIOUS
      <4>1. u # t
        <5>1. dh[u] <= c + InvoiceTtl
          BY DEF First
        <5> HIDE DEF G
        <5> QED
          BY <1>1, <1>7, <3>1, <5>1
      <4>2. u \in F
        BY <1>1, <1>3, <1>4, <1>5, <1>6, <4>1
      <4> QED
        BY <2>1, <4>2
    <3>3. Counting(dh, i, c) = Counting(ch, i, c)
      BY <2>1, <3>2 DEF Counting
    <3> QED
      BY <1>11, <2>1, <3>1, <3>2, <3>3 DEF Missed
  <2>2. CASE F # {}
    <3>1. End(ch, i, c) < n /\ G # {} /\ End(dh, i, c) = End(ch, i, c)
      BY <1>8, <1>9, <1>11, <2>2 DEF Missed
    <3>2. End(ch, i, c) \in Nat
      BY <2>2, Windows
    <3>3. \A u : u \in R /\ ch[u] <= End(ch, i, c) <=> u \in S /\ dh[u] <= End(ch, i, c)
      <4> SUFFICES ASSUME NEW u
                   PROVE  u \in R /\ ch[u] <= End(ch, i, c) <=> u \in S /\ dh[u] <= End(ch, i, c)
        OBVIOUS
      <4>1. CASE u = t
        BY <1>1, <1>2, <3>1, <3>2, <4>1
      <4>2. CASE u # t
        BY <1>1, <1>2, <1>3, <1>4, <4>2
      <4> QED
        BY <4>1, <4>2
    <3>4. Counting(dh, i, c) = Counting(ch, i, c)
      <4>1. Counting(ch, i, c) = {u \in R : ch[u] <= End(ch, i, c)}
        BY <2>2 DEF Counting
      <4>2. Counting(dh, i, c) = {u \in S : dh[u] <= End(ch, i, c)}
        BY <3>1 DEF Counting
      <4> QED
        BY <3>3, <4>1, <4>2
    <3> QED
      BY <1>11, <2>2, <3>1, <3>4 DEF Missed
  <2> QED
    BY <2>1, <2>2
<1> QED
  BY <1>10, <1>11

\* What is over stays over.
LEMMA TickKeeps ==
  ASSUME NEW ch \in Chains, NEW n \in Nat, NEW m \in Nat, n <= m,
         NEW i \in Attempts, NEW c \in Nat, Missed(ch, i, c, n)
  PROVE  Missed(ch, i, c, m)
<1>1. First(ch, i, c) # {} => End(ch, i, c) \in Nat
  BY Windows
<1> QED
  BY <1>1, CheckoutAssumption DEF Missed
-----------------------------------------------------------------------------
(* What a decision comes to.                                                *)

CountsAs(d, at, until, paid, start) ==
  /\ d \in Decisions
  /\ d.kind = "PAID" => Sum(d.paid) >= Amount
  /\ d.kind = "PARTIAL" => d.start = start /\ d.until = until /\ d.paid = paid
  /\ d.kind = "EXPIRED" => until < at /\ Sum(paid) < Amount

LEMMA CountedIs ==
  ASSUME NEW r \in RowTypes, NEW at \in Nat, NEW ts \in SUBSET Transfers, NEW start \in Int,
         NEW until, until = (IF r.until # NoTime THEN r.until ELSE start + PartialTtl),
         NEW paid, paid = r.paid \cup {t \in ts : chain[t] <= until}
  PROVE  CountsAs(Counted(r, at, ts, start), at, until, paid, start)
<1>1. until \in Int /\ paid \in SUBSET Transfers
  BY CheckoutAssumption DEF RowTypes
<1>2. Sum(paid) \in Nat /\ Amount \in Nat
  BY <1>1, SumOfTransfers, CheckoutAssumption
<1>3. Undecided \in Decisions /\ Undecided.kind = "NONE"
  BY DEF Undecided, Decisions, Kinds, NoTime
<1>4. Expired \in Decisions /\ Expired.kind = "EXPIRED"
  BY DEF Expired, Undecided, Decisions, Kinds, NoTime
<1>5. PICK c : c = Counted(r, at, ts, start)
  OBVIOUS
<1>6. c = IF Sum(paid) >= Amount
          THEN IF ts = {} THEN Undecided ELSE [Undecided EXCEPT !.kind = "PAID", !.paid = paid]
          ELSE IF until < at THEN Expired
          ELSE [kind |-> "PARTIAL", paid |-> paid, start |-> start, until |-> until]
  BY <1>5 DEF Counted
<1> SUFFICES CountsAs(c, at, until, paid, start)
  BY <1>5
<1>7. CASE c = Undecided
  BY <1>3, <1>7 DEF CountsAs
<1>8. CASE c = [Undecided EXCEPT !.kind = "PAID", !.paid = paid] /\ Sum(paid) >= Amount
  <2>1. c = [kind |-> "PAID", paid |-> paid, start |-> NoTime, until |-> NoTime]
    BY <1>8 DEF Undecided
  <2>2. c \in Decisions /\ c.kind = "PAID" /\ c.paid = paid
    BY <1>1, <2>1 DEF Decisions, Kinds, NoTime
  <2> QED
    BY <1>8, <2>2 DEF CountsAs
<1>9. CASE c = Expired /\ until < at /\ ~(Sum(paid) >= Amount)
  BY <1>2, <1>4, <1>9 DEF CountsAs
<1>10. CASE c = [kind |-> "PARTIAL", paid |-> paid, start |-> start, until |-> until]
  BY <1>1, <1>10 DEF CountsAs, Decisions, Kinds
<1> QED
  BY <1>6, <1>7, <1>8, <1>9, <1>10

\* The ways in which a decision comes about, on the matches ts of an active row: in its
\* window, at its start, for what has been received at once, or without any payment.
DecidesAs(d, r, at, ts) ==
  \/ d = Undecided
  \/ /\ r.start # NoTime /\ r.paid # {}
     /\ \E until \in Int :
          /\ r.until # NoTime => until = r.until
          /\ CountsAs(d, at, until, r.paid \cup {t \in ts : chain[t] <= until}, r.start)
  \/ /\ r.start = NoTime /\ r.paid = {}
     /\ {t \in ts : chain[t] <= LockUntil(r)} # {}
     /\ \E start \in Nat :
          /\ start = Start(chain, {t \in ts : chain[t] <= LockUntil(r)})
          /\ CountsAs(d, at, start + PartialTtl, {t \in ts : chain[t] <= start + PartialTtl}, start)
  \/ d \in Decisions /\ d.kind = "PAID" /\ Sum(d.paid) >= Amount
  \/ /\ r.start = NoTime /\ r.paid = {} /\ {t \in ts : chain[t] <= LockUntil(r)} = {}
     /\ d = Expired /\ LockUntil(r) < at

LEMMA Deciding ==
  ASSUME Typed, NEW r \in RowTypes, RowOK(r), NEW at \in Nat,
         NEW ts \in SUBSET Transfers, \A t \in ts : chain[t] # NoTime,
         NEW d, d = Decision(r, at, ts)
  PROVE  DecidesAs(d, r, at, ts)
<1> DEFINE starters == {t \in ts : chain[t] <= LockUntil(r)}
<1>1. CASE r.start # NoTime
  <2>1. r.paid # {}
    BY <1>1 DEF RowOK
  <2>2. d = Counted(r, at, ts, r.start)
    BY <1>1, <2>1 DEF Decision
  <2>3. PICK until : until = IF r.until # NoTime THEN r.until ELSE r.start + PartialTtl
    OBVIOUS
  <2>4. until \in Int /\ (r.until # NoTime => until = r.until) /\ r.start \in Int
    BY <2>3, CheckoutAssumption DEF RowTypes
  <2>5. CountsAs(d, at, until, r.paid \cup {t \in ts : chain[t] <= until}, r.start)
    BY <2>2, <2>3, <2>4, CountedIs
  <2> QED
    BY <1>1, <2>1, <2>4, <2>5 DEF DecidesAs
<1>2. CASE r.start = NoTime /\ r.paid = {}
  <2>1. r.until = NoTime
    BY <1>2 DEF RowOK
  <2>2. CASE starters = {}
    <3>1. d = IF LockPassed(r, at) THEN Expired ELSE Undecided
      BY <1>2, <2>2 DEF Decision
    <3> QED
      BY <1>2, <2>2, <3>1 DEF DecidesAs, LockPassed
  <2>3. CASE starters # {}
    <3>1. PICK start : start = Start(chain, starters)
      OBVIOUS
    <3>2. start \in Nat
      <4> HIDE DEF starters
      <4>1. starters \in SUBSET Transfers /\ \A t \in starters : chain[t] # NoTime
        BY DEF starters
      <4> QED
        BY <2>3, <3>1, <4>1, StartIs DEF Typed, World
    <3>3. Earliest(starters) = start
      BY <3>1 DEF Start, Earliest
    <3>4. d = Counted(r, at, ts, start)
      BY <1>2, <2>3, <3>3 DEF Decision
    <3>5. PICK until : until = start + PartialTtl
      OBVIOUS
    <3>6. PICK paid : paid = {t \in ts : chain[t] <= until}
      OBVIOUS
    <3>7. /\ until = IF r.until # NoTime THEN r.until ELSE start + PartialTtl
          /\ paid = r.paid \cup {t \in ts : chain[t] <= until} /\ start \in Int
      BY <1>2, <2>1, <3>2, <3>5, <3>6
    <3>8. CountsAs(d, at, until, paid, start)
      BY <3>4, <3>7, CountedIs
    <3> QED
      BY <1>2, <2>3, <3>1, <3>2, <3>5, <3>6, <3>8 DEF DecidesAs
  <2> QED
    BY <2>2, <2>3
<1>3. CASE r.paid # {} /\ Sum(r.paid) >= Amount
  <2>1. PICK start : d = Counted(r, at, ts, start)
    BY <1>3 DEF Decision
  <2>2. PICK until : until = IF r.until # NoTime THEN r.until ELSE start + PartialTtl
    OBVIOUS
  <2>3. PICK paid : paid = r.paid \cup {t \in ts : chain[t] <= until}
    OBVIOUS
  <2>4. paid \in SUBSET Transfers /\ r.paid \subseteq paid /\ r.paid \in SUBSET Transfers
    BY <2>3 DEF RowTypes
  <2>5. Sum(r.paid) \in Nat /\ Sum(paid) \in Nat /\ Sum(r.paid) <= Sum(paid)
    BY <2>4, SumOfTransfers
  <2>6. Sum(paid) >= Amount
    BY <1>3, <2>5, CheckoutAssumption
  <2>7. d = Undecided \/ d = [Undecided EXCEPT !.kind = "PAID", !.paid = paid]
    BY <2>1, <2>2, <2>3, <2>6 DEF Counted
  <2>8. CASE d = [Undecided EXCEPT !.kind = "PAID", !.paid = paid]
    <3>1. d = [kind |-> "PAID", paid |-> paid, start |-> NoTime, until |-> NoTime]
      BY <2>8 DEF Undecided
    <3>2. d \in Decisions /\ d.kind = "PAID" /\ d.paid = paid
      BY <2>4, <3>1 DEF Decisions, Kinds, NoTime
    <3> QED
      BY <2>6, <3>2 DEF DecidesAs
  <2> QED
    BY <2>7, <2>8 DEF DecidesAs
<1> QED
  BY <1>1, <1>2, <1>3 DEF RowOK

\* A decision is one that can be written.
LEMMA DecisionType ==
  ASSUME Typed, NEW r \in RowTypes, NEW at \in Nat, NEW ts \in SUBSET Transfers,
         \A t \in ts : chain[t] # NoTime, NEW d, DecidesAs(d, r, at, ts)
  PROVE  d \in Decisions /\ DecisionOK(d)
<1>1. Undecided \in Decisions /\ Undecided.kind = "NONE"
  BY DEF Undecided, Decisions, Kinds, NoTime
<1>2. Expired \in Decisions /\ Expired.kind = "EXPIRED"
  BY DEF Expired, Undecided, Decisions, Kinds, NoTime
<1>3. CASE d = Undecided \/ d = Expired
  BY <1>1, <1>2, <1>3 DEF DecisionOK
<1>4. ASSUME d \in Decisions, d.kind = "PAID" => Sum(d.paid) >= Amount,
             d.kind = "PARTIAL" => d.paid # {} /\ d.start # NoTime
      PROVE  d \in Decisions /\ DecisionOK(d)
  <2>1. ASSUME d.kind = "PAID"
        PROVE  d.paid # {}
    <3>1. d.paid \in SUBSET Transfers /\ Sum(d.paid) >= Amount
      BY <1>4, <2>1 DEF Decisions
    <3>2. d.paid = {} => Sum(d.paid) = 0
      BY <3>1, SumOfTransfers
    <3> QED
      BY <3>1, <3>2, CheckoutAssumption
  <2> QED
    BY <1>4, <2>1 DEF DecisionOK
<1>5. ASSUME r.start # NoTime, r.paid # {}, NEW until \in Int,
             CountsAs(d, at, until, r.paid \cup {t \in ts : chain[t] <= until}, r.start)
      PROVE  d \in Decisions /\ DecisionOK(d)
  <2>1. /\ d \in Decisions /\ (d.kind = "PAID" => Sum(d.paid) >= Amount)
        /\ d.kind = "PARTIAL" => d.paid # {} /\ d.start # NoTime
    BY <1>5 DEF CountsAs
  <2> QED
    BY <1>4, <2>1
<1>6. ASSUME {t \in ts : chain[t] <= LockUntil(r)} # {}, NEW start \in Nat,
             start = Start(chain, {t \in ts : chain[t] <= LockUntil(r)}),
             CountsAs(d, at, start + PartialTtl, {t \in ts : chain[t] <= start + PartialTtl}, start)
      PROVE  d \in Decisions /\ DecisionOK(d)
  <2> DEFINE starters == {t \in ts : chain[t] <= LockUntil(r)}
  <2>1. starters \in SUBSET ts /\ starters # {} /\ start = Start(chain, starters)
    BY <1>6
  <2> HIDE DEF starters
  <2>2. PICK t \in starters : start = chain[t]
    BY <2>1, StartIs DEF Typed, World
  <2>3. {u \in ts : chain[u] <= start + PartialTtl} # {}
    BY <2>1, <2>2, CheckoutAssumption
  <2>4. /\ d \in Decisions /\ (d.kind = "PAID" => Sum(d.paid) >= Amount)
        /\ d.kind = "PARTIAL" => d.paid # {} /\ d.start # NoTime
    BY <1>6, <2>3 DEF CountsAs, NoTime
  <2> QED
    BY <1>4, <2>4
<1> QED
  BY <1>3, <1>4, <1>5, <1>6 DEF DecidesAs

\* What the provider can show to a call that has read row r at time at.
VisibleTo(i, r, at) == InWindow({t \in Transfers : chain[t] # NoTime}, i, r, at)

LEMMA VisibleIs ==
  ASSUME Typed, NEW i \in Attempts, NEW r \in RowTypes, NEW at \in Nat
  PROVE  /\ VisibleTo(i, r, at) \in SUBSET Transfers
         /\ \A t \in VisibleTo(i, r, at) : chain[t] # NoTime
         /\ \A t : t \in VisibleTo(i, r, at) <=>
                     /\ t \in Received(chain, i, r.createdAt)
                     /\ chain[t] <= at /\ chain[t] <= SearchLimit(r)
<1>1. VisibleTo(i, r, at) \in SUBSET Transfers /\ \A t \in VisibleTo(i, r, at) : chain[t] # NoTime
  BY DEF VisibleTo, InWindow
<1>2. r.createdAt \in Nat /\ SearchLimit(r) \in Int
  BY CheckoutAssumption DEF RowTypes, SearchLimit, LockUntil
<1>3. \A n \in Int : n \in Window(r, at) <=> r.createdAt <= n /\ n <= at /\ n <= SearchLimit(r)
  BY <1>2 DEF Window, Lesser
<1>4. \A t \in Transfers : chain[t] \in Int /\ (chain[t] >= r.createdAt => chain[t] # NoTime)
  BY <1>2 DEF Typed, World, NoTime
<1>5. ASSUME NEW t
      PROVE  t \in VisibleTo(i, r, at) <=>
               /\ t \in Received(chain, i, r.createdAt)
               /\ chain[t] <= at /\ chain[t] <= SearchLimit(r)
  BY <1>2, <1>3, <1>4 DEF VisibleTo, InWindow, Received
<1> QED
  BY <1>1, <1>5

\* A decision on all that has been received knows the window, and whether it is over.
LEMMA DecisionIsRight ==
  ASSUME Typed, NEW i \in Attempts, NEW r \in RowTypes, RowOK(r),
         NEW at \in Nat, at <= now, RowKnows(chain, i, r),
         NEW d, DecidesAs(d, r, at, VisibleTo(i, r, at))
  PROVE  DecisionKnows(chain, i, r.createdAt, now, d)
<1> DEFINE c == r.createdAt
           F == First(chain, i, c)
           R == Received(chain, i, c)
           V == VisibleTo(i, r, at)
           Begun == {t \in V : chain[t] <= LockUntil(r)}
<1>1. c \in Nat /\ r.until \in Int /\ LockUntil(r) = c + InvoiceTtl /\ now \in Nat /\ chain \in Chains
  BY DEF RowTypes, LockUntil, Typed, World, Chains
<1>2. InvoiceTtl \in Nat /\ PartialTtl \in Nat /\ Amount \in Nat \ {0}
  BY CheckoutAssumption
<1>3. \A t : t \in V <=> t \in R /\ chain[t] <= at /\ chain[t] <= SearchLimit(r)
  BY VisibleIs
<1>4. \A t : t \in F <=> t \in R /\ chain[t] <= c + InvoiceTtl
  BY DEF First
<1>5. /\ R \in SUBSET Transfers /\ \A t \in R : chain[t] \in Nat
      /\ F # {} => Start(chain, F) \in Nat /\ End(chain, i, c) \in Nat
  BY <1>1, Windows
<1>6. End(chain, i, c) = Start(chain, F) + PartialTtl
  BY DEF End
<1> HIDE DEF V, F, R
<1>7. ASSUME d = Undecided
      PROVE  DecisionKnows(chain, i, c, now, d)
  BY <1>7 DEF Undecided, DecisionKnows
<1>8. ASSUME F # {}, NEW paid \in SUBSET Transfers, NEW until \in Int, until = End(chain, i, c),
             SearchLimit(r) >= until, \A t \in V : chain[t] <= until => t \in paid,
             CountsAs(d, at, until, paid, Start(chain, F))
      PROVE  DecisionKnows(chain, i, c, now, d)
  <2>1. ASSUME d.kind = "PARTIAL"
        PROVE  Opened(chain, i, c, d.start, d.until)
    BY <1>8, <2>1 DEF Opened, CountsAs, F
  <2>2. ASSUME d.kind = "EXPIRED"
        PROVE  Missed(chain, i, c, now)
    <3>1. until < at /\ Sum(paid) < Amount
      BY <1>8, <2>2 DEF CountsAs
    <3>2. Counting(chain, i, c) = {t \in R : chain[t] <= until}
      BY <1>8 DEF Counting, F, R
    <3>0. SearchLimit(r) \in Int
      BY <1>1, <1>2 DEF SearchLimit
    <3>3. Counting(chain, i, c) \subseteq paid
      <4>1. ASSUME NEW t \in R, chain[t] <= until
            PROVE  t \in paid
        <5>1. chain[t] \in Nat /\ chain[t] <= at /\ chain[t] <= SearchLimit(r)
          BY <1>5, <1>8, <3>0, <3>1, <4>1
        <5> QED
          BY <1>3, <1>8, <4>1, <5>1
      <4> QED
        BY <3>2, <4>1
    <3>4. Sum(Counting(chain, i, c)) <= Sum(paid) /\ Sum(paid) \in Nat
      BY <3>3, SumOfTransfers
    <3>5. Sum(Counting(chain, i, c)) \in Nat
      BY <3>3, SumOfTransfers
    <3>6. Sum(Counting(chain, i, c)) < Amount
      BY <1>2, <3>1, <3>4, <3>5
    <3>7. End(chain, i, c) < now
      BY <1>1, <1>8, <3>1
    <3> QED
      BY <1>8, <3>6, <3>7 DEF Missed, F
  <2> QED
    BY <2>1, <2>2 DEF DecisionKnows
<1>9. ASSUME r.start # NoTime, NEW until \in Int, r.until # NoTime => until = r.until,
             CountsAs(d, at, until, r.paid \cup {t \in V : chain[t] <= until}, r.start)
      PROVE  DecisionKnows(chain, i, c, now, d)
  <2>1. F # {} /\ r.start = Start(chain, F) /\ r.until = End(chain, i, c)
    BY <1>9 DEF RowKnows, Opened, F
  <2>2. r.until # NoTime /\ until = r.until /\ SearchLimit(r) = until
    BY <1>5, <1>9, <2>1 DEF NoTime, SearchLimit
  <2>3. PICK paid : paid = r.paid \cup {t \in V : chain[t] <= until}
    OBVIOUS
  <2>4. paid \in SUBSET Transfers
    BY <1>3, <1>5, <2>3 DEF RowTypes
  <2>5. /\ CountsAs(d, at, until, paid, Start(chain, F))
        /\ \A t \in V : chain[t] <= until => t \in paid
    BY <1>9, <2>1, <2>3
  <2>6. SearchLimit(r) >= until /\ until = End(chain, i, c)
    BY <2>1, <2>2
  <2> QED
    BY <1>8, <2>1, <2>4, <2>5, <2>6
<1>10. ASSUME r.start = NoTime, Begun # {}, NEW start \in Nat, start = Start(chain, Begun),
              CountsAs(d, at, start + PartialTtl, {t \in V : chain[t] <= start + PartialTtl}, start)
       PROVE  DecisionKnows(chain, i, c, now, d)
  <2>1. SearchLimit(r) = c + InvoiceTtl + PartialTtl
    BY <1>1, <1>10 DEF SearchLimit, RowOK
  <2>2. \A t : t \in Begun <=> t \in F /\ chain[t] <= at
    BY <1>1, <1>2, <1>3, <1>4, <1>5, <2>1
  <2> HIDE DEF Begun
  <2>3. Begun \in SUBSET F /\ F \in SUBSET Transfers /\ \A t \in F : chain[t] # NoTime
    BY <1>4, <1>5, <2>2 DEF NoTime
  <2>4. PICK x \in Begun : start = chain[x] /\ \A t \in Begun : chain[x] <= chain[t]
    <3>1. (\E x \in Begun : Start(chain, Begun) = chain[x]) /\ \A t \in Begun : Start(chain, Begun) <= chain[t]
      BY <1>1, <1>10, <2>3, StartIs DEF Chains
    <3> QED
      BY <1>10, <3>1
  <2>5. x \in F /\ \A t \in F : chain[x] <= chain[t]
    <3>1. ASSUME NEW t \in F
          PROVE  chain[x] <= chain[t]
      <4>1. CASE t \in Begun
        BY <2>4, <4>1
      <4>2. CASE t \notin Begun
        <5>1. chain[t] \in Nat /\ chain[x] \in Nat /\ chain[x] <= at /\ ~(chain[t] <= at)
          BY <1>4, <1>5, <2>2, <2>3, <4>2
        <5> QED
          BY <5>1
      <4> QED
        BY <4>1, <4>2
    <3> QED
      BY <2>3, <3>1
  <2>6. start = Start(chain, F)
    BY <1>1, <2>3, <2>4, <2>5, StartAgrees DEF Chains
  <2>7. start <= c + InvoiceTtl
    BY <1>4, <2>4, <2>5
  <2>8. PICK until \in Int : until = start + PartialTtl
    BY <1>2
  <2>9. PICK paid : paid = {t \in V : chain[t] <= until}
    OBVIOUS
  <2>10. paid \in SUBSET Transfers
    BY <1>3, <1>5, <2>9
  <2>11. SearchLimit(r) >= until /\ until = End(chain, i, c)
    BY <1>1, <1>2, <1>6, <2>1, <2>6, <2>7, <2>8
  <2>12. CountsAs(d, at, until, paid, Start(chain, F))
    BY <1>10, <2>6, <2>8, <2>9
  <2> QED
    BY <1>8, <2>5, <2>9, <2>10, <2>11, <2>12
<1>11. ASSUME r.start = NoTime, Begun = {}, d = Expired, LockUntil(r) < at
       PROVE  DecisionKnows(chain, i, c, now, d)
  <2>1. SearchLimit(r) = c + InvoiceTtl + PartialTtl
    BY <1>1, <1>11 DEF SearchLimit, RowOK
  <2>2. F = {}
    BY <1>1, <1>2, <1>3, <1>4, <1>5, <1>11, <2>1
  <2>3. Counting(chain, i, c) = {}
    BY <2>2 DEF Counting, F
  <2>4. Sum(Counting(chain, i, c)) = 0
    BY <2>3, SumOfTransfers
  <2>5. c + InvoiceTtl < now
    BY <1>1, <1>2, <1>11
  <2>6. Missed(chain, i, c, now)
    BY <1>2, <2>2, <2>4, <2>5 DEF Missed, F
  <2>7. d.kind = "EXPIRED"
    BY <1>11 DEF Expired, Undecided
  <2> QED
    BY <2>6, <2>7 DEF DecisionKnows
<1>12. ASSUME d.kind = "PAID"
       PROVE  DecisionKnows(chain, i, c, now, d)
  BY <1>12 DEF DecisionKnows
<1> QED
  BY <1>7, <1>9, <1>10, <1>11, <1>12 DEF DecidesAs, V
-----------------------------------------------------------------------------
(* The rows that are written.                                               *)

LEMMA AbsentIs ==
  /\ Absent \in RowTypes /\ RowOK(Absent)
  /\ Absent.status = "ABSENT" /\ Absent.attached = FALSE /\ Absent.credited = 0
  /\ Absent.start = NoTime
<1>1. PICK n : n = now
  OBVIOUS
<1> DEFINE r == [status |-> "PENDING", attached |-> FALSE, superseded |-> FALSE, createdAt |-> n,
                 paid |-> {}, atomic |-> {}, credited |-> 0, start |-> NoTime, until |-> NoTime]
<1>2. Absent = [r EXCEPT !.status = "ABSENT", !.createdAt = 0]
  BY <1>1 DEF Absent, NewRow
<1>3. r \in [status: Statuses, attached: BOOLEAN, superseded: BOOLEAN, createdAt: {n},
             paid: SUBSET Transfers, atomic: SUBSET Transfers, credited: Nat, start: Int, until: Int]
  BY DEF Statuses, ActiveStatuses, NoTime
<1>4. r.attached = FALSE /\ r.credited = 0 /\ r.start = NoTime /\ r.until = NoTime /\ r.paid = {}
  OBVIOUS
<1> HIDE DEF r
<1>5. /\ Absent \in RowTypes /\ Absent.status = "ABSENT" /\ Absent.attached = FALSE
      /\ Absent.credited = 0 /\ Absent.start = NoTime /\ Absent.until = NoTime /\ Absent.paid = {}
  BY <1>2, <1>3, <1>4 DEF RowTypes, Statuses
<1> QED
  BY <1>5 DEF RowOK, ActiveStatuses

LEMMA RestingIs ==
  /\ Resting \in Calls /\ Resting.at = "IDLE" /\ ~Resting.row.attached
  /\ Resting.decision = Undecided
  /\ AttachedRow \in RowTypes /\ AttachedRow.attached
  /\ Undecided \in Decisions /\ Undecided.kind = "NONE" /\ DecisionOK(Undecided)
<1>1. Undecided \in Decisions /\ Undecided.kind = "NONE"
  BY DEF Undecided, Decisions, Kinds, NoTime
<1>2. Resting = [at |-> "IDLE", attempt |-> Nobody, row |-> Absent, now |-> 0,
                 decision |-> Undecided, terminal |-> FALSE, actives |-> {}, to |-> NewOrder,
                 fresh |-> TRUE, alone |-> TRUE]
  BY DEF Resting, Nobody
<1>3. NewOrder \in OrderTypes
  BY DEF NewOrder, OrderTypes, Statuses, ActiveStatuses
<1>4. PICK u : u = Undecided
  OBVIOUS
<1>5. PICK r : r = Absent
  OBVIOUS
<1>6. PICK o : o = NewOrder
  OBVIOUS
<1>7. /\ Resting = [at |-> "IDLE", attempt |-> Nobody, row |-> r, now |-> 0,
                    decision |-> u, terminal |-> FALSE, actives |-> {}, to |-> o,
                    fresh |-> TRUE, alone |-> TRUE]
      /\ u \in Decisions /\ r \in RowTypes /\ ~r.attached /\ o \in OrderTypes
  BY <1>1, <1>2, <1>3, <1>4, <1>5, <1>6, AbsentIs
<1>8. Resting \in Calls /\ Resting.at = "IDLE" /\ Resting.row = r /\ Resting.decision = u
  BY <1>7 DEF Calls, Stations
<1>9. AttachedRow \in RowTypes /\ AttachedRow.attached
  BY AbsentIs DEF AttachedRow, RowTypes
<1> QED
  BY <1>1, <1>4, <1>7, <1>8, <1>9 DEF DecisionOK

LEMMA NewRowIs ==
  ASSUME Typed, NEW attached \in BOOLEAN, NEW r, r = NewRow(attached)
  PROVE  /\ r \in RowTypes /\ RowOK(r)
         /\ r.status = "PENDING" /\ r.attached = attached /\ r.createdAt = now
         /\ r.credited = 0 /\ r.start = NoTime
<1>1. PICK n \in Nat : n = now
  BY DEF Typed, World
<1>2. r = [status |-> "PENDING", attached |-> attached, superseded |-> FALSE, createdAt |-> n,
           paid |-> {}, atomic |-> {}, credited |-> 0, start |-> NoTime, until |-> NoTime]
  BY <1>1 DEF NewRow
<1>3. /\ r \in RowTypes
      /\ r.status = "PENDING" /\ r.attached = attached /\ r.createdAt = n /\ r.paid = {}
      /\ r.credited = 0 /\ r.start = NoTime /\ r.until = NoTime
  BY <1>2 DEF RowTypes, Statuses, ActiveStatuses, NoTime
<1>4. RowOK(r)
  BY <1>3 DEF RowOK
<1> QED
  BY <1>1, <1>3, <1>4

WrittenAs(row, r, d) ==
  /\ row \in RowTypes
  /\ row.status = d.kind /\ d.kind \in {"PAID", "PARTIAL", "EXPIRED"}
  /\ row.createdAt = r.createdAt /\ row.attached = r.attached
  /\ row.paid = IF d.kind = "EXPIRED" THEN r.paid ELSE d.paid
  /\ d.kind = "PAID" => row.credited = Amount
  /\ d.kind = "PARTIAL" => row.credited > 0
  /\ d.kind = "EXPIRED" => row.credited = r.credited
  /\ IF d.kind = "PARTIAL" THEN row.start = d.start /\ row.until = d.until
     ELSE row.start = r.start /\ row.until = r.until

LEMMA Writing ==
  ASSUME NEW r \in RowTypes, NEW d \in Decisions, DecisionOK(d), d.kind # "NONE",
         NEW row, row = Written(r, d)
  PROVE  WrittenAs(row, r, d)
<1>1. d.paid \in SUBSET Transfers /\ d.start \in Int /\ d.until \in Int /\ Amount \in Nat
  BY CheckoutAssumption DEF Decisions
<1>2. CASE d.kind = "EXPIRED"
  <2>1. row = [r EXCEPT !.status = "EXPIRED"]
    BY <1>2 DEF Written
  <2> QED
    BY <1>2, <2>1 DEF WrittenAs, RowTypes, Statuses, ActiveStatuses
<1>3. CASE d.kind = "PAID"
  <2>1. row = [r EXCEPT !.status = "PAID", !.paid = d.paid, !.atomic = d.paid, !.credited = Amount]
    BY <1>3 DEF Written
  <2> QED
    BY <1>1, <1>3, <2>1 DEF WrittenAs, RowTypes, Statuses, ActiveStatuses
<1>4. CASE d.kind = "PARTIAL"
  <2>1. PICK n : n = FiatCredit(d.paid)
    OBVIOUS
  <2>2. n \in Nat /\ n > 0
    BY <1>1, <1>4, <2>1, FiatCreditType DEF DecisionOK
  <2>3. row = [r EXCEPT !.status = "PARTIAL", !.paid = d.paid, !.atomic = d.paid, !.credited = n,
                        !.start = d.start, !.until = d.until]
    BY <1>4, <2>1 DEF Written
  <2> QED
    BY <1>1, <1>4, <2>2, <2>3 DEF WrittenAs, RowTypes, Statuses, ActiveStatuses
<1> QED
  BY <1>2, <1>3, <1>4 DEF Decisions, Kinds

LEMMA WrittenOK ==
  ASSUME NEW r \in RowTypes, RowOK(r), NEW d \in Decisions, DecisionOK(d), NEW row, WrittenAs(row, r, d),
         row.attached \/ row.credited = 0
  PROVE  RowOK(row)
BY DEF RowOK, WrittenAs, DecisionOK

RecoveredAs(row, r, d) ==
  /\ row \in RowTypes
  /\ row.status = "FAILED" /\ row.createdAt = r.createdAt /\ row.attached = r.attached
  /\ row.paid = d.paid
  /\ row.start = IF r.start = NoTime /\ d.kind = "PARTIAL" THEN d.start ELSE r.start
  /\ row.until = IF r.until = NoTime /\ d.kind = "PARTIAL" THEN d.until ELSE r.until

LEMMA Recovering ==
  ASSUME NEW r \in RowTypes, NEW d \in Decisions, NEW row, row = Recovered(r, d)
  PROVE  RecoveredAs(row, r, d)
<1>1. PICK n : n = IF d.kind = "PAID" THEN Amount ELSE FiatCredit(d.paid)
  OBVIOUS
<1>2. n \in Nat /\ d.paid \in SUBSET Transfers /\ d.start \in Int /\ d.until \in Int
  BY <1>1, FiatCreditType, CheckoutAssumption DEF Decisions
<1>3. PICK s : s = IF r.start = NoTime /\ d.kind = "PARTIAL" THEN d.start ELSE r.start
  OBVIOUS
<1>4. PICK u : u = IF r.until = NoTime /\ d.kind = "PARTIAL" THEN d.until ELSE r.until
  OBVIOUS
<1>5. s \in Int /\ u \in Int
  BY <1>2, <1>3, <1>4 DEF RowTypes
<1>6. row = [r EXCEPT !.status = "FAILED", !.paid = d.paid, !.atomic = d.paid, !.credited = n,
                      !.start = s, !.until = u]
  BY <1>1, <1>3, <1>4 DEF Recovered
<1>7. /\ row \in RowTypes
      /\ row.status = "FAILED" /\ row.createdAt = r.createdAt /\ row.attached = r.attached
      /\ row.paid = d.paid /\ row.start = s /\ row.until = u
  BY <1>2, <1>5, <1>6 DEF RowTypes, Statuses, ActiveStatuses
<1> QED
  BY <1>3, <1>4, <1>7 DEF RecoveredAs

LEMMA RecoveredOK ==
  ASSUME NEW r \in RowTypes, RowOK(r), r.attached, NEW d \in Decisions, DecisionOK(d),
         d.kind \in {"PAID", "PARTIAL"}, NEW row, RecoveredAs(row, r, d)
  PROVE  RowOK(row)
BY DEF RowOK, RecoveredAs, DecisionOK

\* Marked: the three ways in which a transaction leaves its attempt.
MarkedAs(k, a, b) ==
  /\ b \in [Attempts -> RowTypes] /\ \A x \in Attempts \ {k.attempt} : b[x] = a[x]
  /\ \/ FenceHolds(k, a) /\ WrittenAs(b[k.attempt], a[k.attempt], k.decision)
     \/ ~FenceHolds(k, a) /\ Recovers(k, a) /\ RecoveredAs(b[k.attempt], a[k.attempt], k.decision)
     \/ ~Marks(k, a) /\ b = a

LEMMA Marking ==
  ASSUME NEW k \in Calls, k.attempt \in Attempts, DecisionOK(k.decision),
         NEW a \in [Attempts -> RowTypes], NEW b, b = Marked(k, a)
  PROVE  MarkedAs(k, a, b)
<1>1. PICK i \in Attempts : i = k.attempt
  OBVIOUS
<1>2. PICK d \in Decisions : d = k.decision
  BY DEF Calls
<1>3. CASE FenceHolds(k, a)
  <2>1. PICK row : row = Written(a[i], d)
    OBVIOUS
  <2>2. WrittenAs(row, a[i], d)
    BY <1>2, <1>3, <2>1, Writing DEF FenceHolds
  <2>3. b = [a EXCEPT ![i] = row]
    BY <1>1, <1>2, <1>3, <2>1 DEF Marked
  <2>4. b \in [Attempts -> RowTypes] /\ b[i] = row /\ \A x \in Attempts \ {i} : b[x] = a[x]
    BY <2>2, <2>3 DEF WrittenAs
  <2> QED
    BY <1>1, <1>2, <1>3, <2>2, <2>4 DEF MarkedAs
<1>4. CASE ~FenceHolds(k, a) /\ Recovers(k, a)
  <2>1. PICK row : row = Recovered(a[i], d)
    OBVIOUS
  <2>2. RecoveredAs(row, a[i], d)
    BY <2>1, Recovering
  <2>3. b = [a EXCEPT ![i] = row]
    BY <1>1, <1>2, <1>4, <2>1 DEF Marked
  <2>4. b \in [Attempts -> RowTypes] /\ b[i] = row /\ \A x \in Attempts \ {i} : b[x] = a[x]
    BY <2>2, <2>3 DEF RecoveredAs
  <2> QED
    BY <1>1, <1>2, <1>4, <2>2, <2>4 DEF MarkedAs
<1>5. CASE ~FenceHolds(k, a) /\ ~Recovers(k, a)
  BY <1>5 DEF Marked, MarkedAs, Marks
<1> QED
  BY <1>3, <1>4, <1>5
-----------------------------------------------------------------------------
(* The calls while others write.                                            *)

\* No attempt disappears, is made again or leaves its order.
Evolves(a, b) ==
  \A i \in Attempts : a[i].status # "ABSENT" =>
    /\ b[i].status # "ABSENT" /\ b[i].createdAt = a[i].createdAt
    /\ a[i].attached => b[i].attached

\* The attempts become those in a by writes to those in w.
Wrote(a, w) ==
  /\ a \in [Attempts -> RowTypes] /\ w \subseteq Attempts
  /\ \A i \in Attempts \ w : a[i] = attempt[i]
  /\ Evolves(attempt, a)

\* What that, and the order o, make of a call with local state k.
OutdatedAs(k, l, o, a, w) ==
  /\ l.attempt = k.attempt /\ l.row = k.row /\ l.now = k.now /\ l.decision = k.decision
  /\ l.terminal = k.terminal /\ l.actives = k.actives
  /\ k.at \notin Transaction => l.at = k.at
  /\ k.at \in Transaction =>
       /\ \/ l.at = k.at
          \/ k.at = "TAKEN" /\ l.at = IF Joins(k) THEN "JOINING" ELSE "BEGUN"
       /\ l.at = "TAKEN" => k.at = "TAKEN" /\ l.to = k.to /\ ~Conflicts(k, a, w)
       /\ l.fresh = (k.fresh /\ k.attempt \notin w)
       /\ l.alone => k.alone /\ o = order /\ \A x \in w : ~a[x].attached

LEMMA OutdatedIs ==
  ASSUME NEW k \in Calls, k.at \in Transaction, NEW o, NEW a, NEW w,
         NEW l, l = OutdatedCall(k, o, a, w)
  PROVE  l \in Calls /\ OutdatedAs(k, l, o, a, w)
<1>1. PICK again \in BOOLEAN : again <=> k.at = "TAKEN" /\ Conflicts(k, a, w)
  OBVIOUS
<1>2. PICK at : at = IF ~again THEN k.at ELSE IF k.row.attached THEN "BEGUN" ELSE "JOINING"
  OBVIOUS
<1>3. PICK to : to = IF again THEN NewOrder ELSE k.to
  OBVIOUS
<1>4. PICK fresh \in BOOLEAN : fresh <=> k.fresh /\ k.attempt \notin w
  OBVIOUS
<1>5. PICK alone \in BOOLEAN : alone <=> k.alone /\ o = order /\ \A x \in w : ~a[x].attached
  OBVIOUS
<1>6. at \in Stations /\ to \in OrderTypes /\ k.fresh \in BOOLEAN
  BY <1>2, <1>3 DEF Stations, Transaction, Calls, NewOrder, OrderTypes, Statuses, ActiveStatuses
<1>7. l = [k EXCEPT !.at = at, !.to = to, !.fresh = fresh, !.alone = alone]
  BY <1>1, <1>2, <1>3, <1>4, <1>5 DEF OutdatedCall
<1>8. /\ l \in Calls
      /\ l.attempt = k.attempt /\ l.row = k.row /\ l.now = k.now /\ l.decision = k.decision
      /\ l.terminal = k.terminal /\ l.actives = k.actives
      /\ l.at = at /\ l.to = to /\ l.fresh = fresh /\ l.alone = alone
  BY <1>6, <1>7 DEF Calls
<1>9. (l.at = k.at) \/ (k.at = "TAKEN" /\ l.at = IF Joins(k) THEN "JOINING" ELSE "BEGUN")
  BY <1>1, <1>2, <1>8 DEF Joins
<1>10. l.at = "TAKEN" => k.at = "TAKEN" /\ l.to = k.to /\ ~Conflicts(k, a, w)
  BY <1>1, <1>2, <1>3, <1>8
<1>11. l.fresh = (k.fresh /\ k.attempt \notin w)
  BY <1>4, <1>8, Zenon
<1>12. l.alone => k.alone /\ o = order /\ \A x \in w : ~a[x].attached
  BY <1>5, <1>8
<1> QED
  BY <1>8, <1>9, <1>10, <1>11, <1>12 DEF OutdatedAs

\* Who writes nothing outdates nobody.
LEMMA Undisturbed ==
  ASSUME NEW k \in Calls
  PROVE  OutdatedAs(k, k, order, attempt, {})
<1>1. ~Conflicts(k, attempt, {})
  BY DEF Conflicts
<1>2. k.fresh \in BOOLEAN
  BY DEF Calls
<1>3. k.fresh = (k.fresh /\ k.attempt \notin {})
  BY <1>2
<1> QED
  BY <1>1, <1>3 DEF OutdatedAs

\* A step in which call c comes to k and the attempts in w are written.
Moved(c, k, w) ==
  /\ k \in Calls /\ call' \in [Callers -> Calls] /\ call'[c] = k
  /\ \A x \in Callers \ {c} : OutdatedAs(call[x], call'[x], order', attempt', w)

LEMMA MovesAlone ==
  ASSUME call \in [Callers -> Calls], NEW c \in Callers, NEW k \in Calls,
         call' = [call EXCEPT ![c] = k], UNCHANGED rows
  PROVE  Moved(c, k, {})
<1>1. order' = order /\ attempt' = attempt
  BY DEF rows
<1>2. \A x \in Callers \ {c} : call'[x] = call[x] /\ call[x] \in Calls
  OBVIOUS
<1>3. \A x \in Callers \ {c} : OutdatedAs(call[x], call'[x], order, attempt, {})
  BY <1>2, Undisturbed
<1> QED
  BY <1>1, <1>3 DEF Moved

LEMMA MovesOthers ==
  ASSUME NEW cs \in [Callers -> Calls], NEW o, NEW a, NEW w, NEW ds, ds = Outdated(cs, o, a, w)
  PROVE  /\ ds \in [Callers -> Calls]
         /\ \A x \in Callers : OutdatedAs(cs[x], ds[x], o, a, w)
         /\ \A x \in Callers : cs[x].at \notin Transaction => ds[x] = cs[x]
<1>1. ds = [x \in Callers |-> ds[x]]
  BY DEF Outdated
<1>2. \A x \in Callers :
        ds[x] = IF cs[x].at \in Transaction THEN OutdatedCall(cs[x], o, a, w) ELSE cs[x]
  BY DEF Outdated
<1>3. ASSUME NEW x \in Callers
      PROVE  ds[x] \in Calls /\ OutdatedAs(cs[x], ds[x], o, a, w)
  <2>1. CASE cs[x].at \in Transaction
    <3>1. cs[x] \in Calls /\ ds[x] = OutdatedCall(cs[x], o, a, w)
      BY <1>2, <2>1
    <3> QED
      BY <2>1, <3>1, OutdatedIs
  <2>2. CASE cs[x].at \notin Transaction
    <3>1. ds[x] = cs[x]
      BY <1>2, <2>2
    <3> QED
      BY <2>2, <3>1 DEF OutdatedAs
  <2> QED
    BY <2>1, <2>2
<1> QED
  BY <1>1, <1>2, <1>3

LEMMA MovesAndWrites ==
  ASSUME call \in [Callers -> Calls], NEW c \in Callers, NEW k \in Calls, k.at \notin Transaction,
         NEW w, call' = Outdated([call EXCEPT ![c] = k], order', attempt', w)
  PROVE  Moved(c, k, w)
<1>1. PICK cs : cs = [call EXCEPT ![c] = k]
  OBVIOUS
<1>2. cs \in [Callers -> Calls] /\ cs[c] = k /\ \A x \in Callers \ {c} : cs[x] = call[x]
  BY <1>1
<1>3. PICK o : o = order'
  OBVIOUS
<1>4. PICK a : a = attempt'
  OBVIOUS
<1>5. PICK ds : ds = call'
  OBVIOUS
<1>6. ds = Outdated(cs, o, a, w)
  BY <1>1, <1>3, <1>4, <1>5
<1>7. /\ ds \in [Callers -> Calls] /\ ds[c] = k
      /\ \A x \in Callers : OutdatedAs(cs[x], ds[x], o, a, w)
  BY <1>2, <1>6, MovesOthers
<1> QED
  BY <1>2, <1>3, <1>4, <1>5, <1>7 DEF Moved
-----------------------------------------------------------------------------
(* What a call relies on, others cannot take away.                          *)

LEMMA FoundIs ==
  ASSUME NEW k \in Calls, NEW a, NEW n, CallOK(k, a, n), k.at \in Transaction, Joins(k)
  PROVE  FoundAs(k)
BY DEF CallOK, FoundAs, Joins

\* Whoever has attached its attempt keeps it, and keeps the place of an active one.
LEMMA ConflictFree ==
  ASSUME Sound, NEW k, FoundAs(k), ~attempt[k.attempt].attached,
         NEW a, NEW w, Wrote(a, w), ~Conflicts(k, a, w)
  PROVE  /\ k.attempt \notin w /\ a[k.attempt] = attempt[k.attempt]
         /\ Live(Joined(k, attempt)[k.attempt]) => \A x \in w \ {k.attempt} : ~Live(a[x])
<1>1. PICK b : b = Joined(k, attempt)
  OBVIOUS
<1>2. JoinedAs(k, attempt, b) /\ k.attempt \in Attempts
  BY <1>1, Joining DEF FoundAs, Sound, Typed
<1>3. b[k.attempt].attached
  BY <1>2 DEF JoinedAs, OwnAs
<1>4. k.attempt \in Changed(b)
  BY <1>2, <1>3 DEF Changed
<1>5. k.attempt \notin w
  BY <1>1, <1>4 DEF Conflicts
<1>6. a[k.attempt] = attempt[k.attempt]
  BY <1>2, <1>5 DEF Wrote
<1>7. Live(b[k.attempt]) => \A x \in w \ {k.attempt} : ~Live(a[x])
  BY <1>1 DEF Conflicts
<1> QED
  BY <1>1, <1>5, <1>6, <1>7

LEMMA KeptOK ==
  ASSUME Sound, NEW k \in Calls, CallOK(k, attempt, now), NEW l \in Calls, NEW o, NEW a, NEW w,
         OutdatedAs(k, l, o, a, w), Wrote(a, w), NEW n \in Nat, now <= n
  PROVE  CallOK(l, a, n)
<1>1. /\ l.attempt = k.attempt /\ l.row = k.row /\ l.now = k.now /\ l.decision = k.decision
      /\ Preferred(l) = Preferred(k) /\ AttachedAs(l) = AttachedAs(k)
  BY DEF OutdatedAs, Preferred, Prefers, AttachedAs
<1>2. l.at \in Transaction <=> k.at \in Transaction
  BY DEF OutdatedAs, Transaction
<1>3. ASSUME l.at \in {"SEEN", "DECIDED"} \cup Transaction
      PROVE  /\ k.at \in {"SEEN", "DECIDED"} \cup Transaction
             /\ k.attempt \in Attempts /\ a[k.attempt].status # "ABSENT"
             /\ a[k.attempt].createdAt = attempt[k.attempt].createdAt
             /\ attempt[k.attempt].attached => a[k.attempt].attached
  <2>1. k.at \in {"SEEN", "DECIDED"} \cup Transaction
    BY <1>2, <1>3 DEF OutdatedAs
  <2> QED
    BY <2>1 DEF CallOK, Wrote, Evolves
<1>4. DecisionOK(l.decision)
  BY <1>1 DEF CallOK
<1>5. ASSUME l.at = "SEEN"
      PROVE  /\ RowOK(l.row) /\ l.row.status \in ActiveStatuses
             /\ l.row.createdAt = a[l.attempt].createdAt /\ l.now <= n
  <2>1. k.at = "SEEN"
    BY <1>2, <1>5 DEF OutdatedAs, Transaction
  <2>2. k.now <= now /\ k.now \in Nat /\ now \in Nat
    BY <2>1 DEF CallOK, Calls, Sound, Typed, World
  <2> QED
    BY <1>1, <1>3, <1>5, <2>1, <2>2 DEF CallOK
<1>6. ASSUME l.at \in Transaction
      PROVE  IF l.row.attached THEN l.at \in {"BEGUN", "TAKEN"} /\ a[l.attempt].attached
             ELSE /\ RowOK(l.row) /\ l.row.status # "ABSENT"
                  /\ l.decision.kind = "NONE" \/ l.row.status \in ActiveStatuses
  BY <1>1, <1>2, <1>3, <1>6 DEF CallOK, OutdatedAs, Joins
<1>7. ASSUME l.at = "TAKEN", ~l.row.attached, ~Preferred(l)
      PROVE  /\ ~a[l.attempt].attached
             /\ AttachedAs(l) \in ActiveStatuses => Rivals(a, l.attempt) = {}
  <2>1. k.at \in Transaction /\ k.at = "TAKEN" /\ Joins(k) /\ ~Conflicts(k, a, w)
    BY <1>1, <1>2, <1>7 DEF OutdatedAs, Transaction, Joins
  <2>2. /\ ~attempt[k.attempt].attached
        /\ AttachedAs(k) \in ActiveStatuses => Rivals(attempt, k.attempt) = {}
    BY <1>1, <1>7, <2>1 DEF CallOK, Joins
  <2>3. FoundAs(k)
    BY <2>1, FoundIs
  <2>4. /\ a[k.attempt] = attempt[k.attempt]
        /\ Live(Joined(k, attempt)[k.attempt]) => \A x \in w \ {k.attempt} : ~Live(a[x])
    BY <2>1, <2>2, <2>3, ConflictFree
  <2>5. PICK b : b = Joined(k, attempt)
    OBVIOUS
  <2>6. OwnAs(k, attempt[k.attempt], b[k.attempt])
    BY <2>3, <2>5, Joining DEF JoinedAs, Sound, Typed
  <2>7. AttachedAs(k) \in ActiveStatuses => Live(b[k.attempt])
    BY <1>1, <1>7, <2>2, <2>6 DEF OwnAs, Live
  <2>8. ASSUME AttachedAs(k) \in ActiveStatuses
        PROVE  Rivals(a, k.attempt) = {}
    <3>1. \A x \in w \ {k.attempt} : ~Live(a[x])
      BY <2>4, <2>5, <2>7, <2>8
    <3>2. \A x \in Attempts \ {k.attempt} : ~Live(attempt[x])
      BY <2>2, <2>8 DEF Rivals
    <3> QED
      BY <3>1, <3>2 DEF Rivals, Wrote
  <2> QED
    BY <1>1, <2>2, <2>4, <2>8
<1> QED
  BY <1>1, <1>3, <1>4, <1>5, <1>6, <1>7 DEF CallOK

LEMMA MarksSame ==
  ASSUME NEW k, NEW l, l.attempt = k.attempt, l.decision = k.decision, l.fresh = k.fresh,
         NEW a, NEW b, a[k.attempt] = b[k.attempt]
  PROVE  /\ FenceHolds(k, a) = FenceHolds(l, b) /\ Recovers(k, a) = Recovers(l, b)
         /\ Marks(k, a) <=> Marks(l, b)
BY DEF FenceHolds, Recovers, Prefers, Marks

LEMMA KeptAgrees ==
  ASSUME Sound, NEW k \in Calls, CallOK(k, attempt, now), NEW l \in Calls, NEW o, NEW a, NEW w,
         OutdatedAs(k, l, o, a, w), Wrote(a, w), CallAgrees(k, order, attempt)
  PROVE  CallAgrees(l, o, a)
<1> SUFFICES ASSUME l.alone, l.at \in Transaction PROVE CallAgrees(l, o, a)
  BY DEF CallAgrees, Transaction
<1>1. /\ k.at \in Transaction /\ k.alone /\ o = order /\ \A x \in w : ~a[x].attached
      /\ l.attempt = k.attempt /\ l.row = k.row /\ l.decision = k.decision
      /\ l.terminal = k.terminal /\ l.actives = k.actives /\ (Joins(l) <=> Joins(k))
  BY DEF OutdatedAs, Transaction, Joins
<1>2. /\ attempt \in [Attempts -> RowTypes] /\ a \in [Attempts -> RowTypes]
      /\ SameBook(attempt, a)
  <2>1. ASSUME NEW x \in w
        PROVE  ~attempt[x].attached /\ ~a[x].attached
    BY <1>1, <2>1 DEF Wrote, Evolves, Sound, RowOK
  <2> QED
    BY <2>1 DEF SameBook, Wrote, Sound, Typed
<1>3. /\ {i \in Attempts : Live(attempt[i])} = {i \in Attempts : Live(a[i])}
      /\ Agrees(order, attempt) <=> Agrees(order, a)
  BY <1>2, SameBookAgrees
<1>4. ASSUME Joins(l), l.at \in {"ORDERED", "JOINING", "TAKEN"}
      PROVE  l.terminal = (o.status \in Closed)
  <2>1. k.at \in {"ORDERED", "JOINING", "TAKEN"}
    BY <1>1, <1>4 DEF OutdatedAs
  <2> QED
    BY <1>1, <1>4, <2>1 DEF CallAgrees
<1>5. ASSUME Joins(l), l.at \in {"JOINING", "TAKEN"}
      PROVE  l.actives = {i \in Attempts : Live(a[i])}
  <2>1. k.at \in {"JOINING", "TAKEN"}
    BY <1>1, <1>5 DEF OutdatedAs
  <2> QED
    BY <1>1, <1>3, <1>5, <2>1 DEF CallAgrees
<1>6. ASSUME l.at = "TAKEN"
      PROVE  k.at = "TAKEN" /\ l.to = k.to /\ ~Conflicts(k, a, w) /\ (k.attempt \notin w => l.fresh = k.fresh)
  <2>1. l.fresh = (k.fresh /\ k.attempt \notin w) /\ k.fresh \in BOOLEAN
    BY <1>1 DEF OutdatedAs, Calls
  <2> QED
    BY <1>1, <1>6, <2>1 DEF OutdatedAs
<1>7. ASSUME ~Joins(l), l.at = "TAKEN"
      PROVE  Marks(l, a) /\ Agrees(l.to, Marked(l, a))
  <2>1. /\ k.at = "TAKEN" /\ l.to = k.to /\ ~Joins(k) /\ k.attempt \in Attempts
        /\ attempt[k.attempt].attached
    BY <1>1, <1>6, <1>7 DEF CallOK, Transaction, Joins
  <2>2. k.attempt \notin w
    BY <1>1, <2>1 DEF Wrote, Evolves, Sound, RowOK
  <2>3. a[k.attempt] = attempt[k.attempt] /\ l.fresh = k.fresh
    BY <1>6, <1>7, <2>1, <2>2 DEF Wrote
  <2>4. Marks(k, attempt) /\ Agrees(k.to, Marked(k, attempt))
    BY <1>1, <2>1 DEF CallAgrees
  <2>5. /\ FenceHolds(k, attempt) = FenceHolds(l, a) /\ Recovers(k, attempt) = Recovers(l, a)
        /\ Marks(k, attempt) <=> Marks(l, a)
    BY <1>1, <2>3, MarksSame
  <2>6. PICK b : b = Marked(k, attempt)
    OBVIOUS
  <2>7. PICK e : e = Marked(l, a)
    OBVIOUS
  <2>8. MarkedAs(k, attempt, b) /\ MarkedAs(l, a, e)
    BY <1>1, <1>2, <2>1, <2>6, <2>7, Marking DEF CallOK
  <2>9. b[k.attempt] = e[k.attempt]
    BY <1>1, <1>2, <2>1, <2>3, <2>5, <2>6, <2>7 DEF Marked
  <2>10. SameBook(b, e) /\ b \in [Attempts -> RowTypes] /\ e \in [Attempts -> RowTypes]
    BY <1>1, <1>2, <2>8, <2>9 DEF SameBook, MarkedAs
  <2> QED
    BY <2>1, <2>4, <2>5, <2>6, <2>7, <2>10, SameBookAgrees
<1>8. ASSUME Joins(l), l.at = "TAKEN", ~a[l.attempt].attached, Agrees(o, a), ~Marks(l, Joined(l, a))
      PROVE  Agrees(l.to, Joined(l, a))
  <2>1. k.at = "TAKEN" /\ l.to = k.to /\ Joins(k) /\ ~Conflicts(k, a, w)
    BY <1>1, <1>6, <1>8
  <2>2. FoundAs(k) /\ k.attempt \in Attempts /\ attempt[k.attempt].status # "ABSENT"
    BY <1>1, <2>1, FoundIs DEF CallOK
  <2>3. ~attempt[k.attempt].attached
    BY <1>1, <1>8, <2>2 DEF Wrote, Evolves
  <2>4. k.attempt \notin w /\ a[k.attempt] = attempt[k.attempt] /\ l.fresh = k.fresh
    BY <1>6, <1>8, <2>1, <2>2, <2>3, ConflictFree
  <2>5. Joined(l, a) = Joined(k, a)
    BY <1>1 DEF Joined, Preferred, Prefers, AttachedAs, Attached
  <2>6. PICK b : b = Joined(k, attempt)
    OBVIOUS
  <2>7. PICK e : e = Joined(k, a)
    OBVIOUS
  <2>8. SameBook(b, e) /\ b[k.attempt] = e[k.attempt]
    BY <1>2, <2>1, <2>2, <2>4, <2>6, <2>7, JoinedSame
  <2>9. ~Marks(k, b)
    BY <1>1, <1>8, <2>4, <2>5, <2>7, <2>8, MarksSame
  <2>10. Agrees(k.to, b)
    BY <1>1, <1>3, <1>8, <2>1, <2>3, <2>6, <2>9 DEF CallAgrees
  <2>11. b \in [Attempts -> RowTypes] /\ e \in [Attempts -> RowTypes]
    BY <1>2, <2>2, <2>6, <2>7, Joining DEF JoinedAs
  <2> QED
    BY <2>1, <2>5, <2>7, <2>8, <2>10, <2>11, SameBookAgrees
<1> QED
  BY <1>4, <1>5, <1>7, <1>8 DEF CallAgrees

LEMMA KeptPays ==
  ASSUME NEW k \in Calls, CallOK(k, attempt, now), NEW l \in Calls, NEW o, NEW a, NEW w,
         OutdatedAs(k, l, o, a, w), Wrote(a, w), CallPays(k, attempt), HasPaid(attempt) => HasPaid(a)
  PROVE  CallPays(l, a)
<1> SUFFICES ASSUME l.at = "TAKEN", l.to.status = "PAID", ~HasPaid(a)
             PROVE  \/ ~Joins(l) /\ FenceHolds(l, a) /\ l.decision.kind = "PAID"
                    \/ Joins(l) /\ (a[l.attempt].attached \/ l.row.status = "PAID")
  BY DEF CallPays
<1>1. /\ k.at \in Transaction /\ k.at = "TAKEN" /\ l.to = k.to /\ ~Conflicts(k, a, w)
      /\ l.attempt = k.attempt /\ l.row = k.row /\ l.decision = k.decision /\ (Joins(l) <=> Joins(k))
      /\ l.fresh = (k.fresh /\ k.attempt \notin w)
  BY DEF OutdatedAs, Transaction, Joins
<1>2. \/ ~Joins(k) /\ FenceHolds(k, attempt) /\ k.decision.kind = "PAID"
      \/ Joins(k) /\ (attempt[k.attempt].attached \/ k.row.status = "PAID")
  BY <1>1 DEF CallPays
<1>3. k.attempt \in Attempts /\ attempt[k.attempt].status # "ABSENT"
  BY <1>1 DEF CallOK
<1>4. CASE ~Joins(k) /\ FenceHolds(k, attempt) /\ k.decision.kind = "PAID"
  <2>1. k.attempt \notin w
    BY <1>1, <1>4 DEF Conflicts, Joins
  <2>2. a[k.attempt] = attempt[k.attempt]
    BY <1>3, <2>1 DEF Wrote
  <2> QED
    BY <1>1, <1>4, <2>1, <2>2 DEF FenceHolds
<1>5. CASE Joins(k) /\ (attempt[k.attempt].attached \/ k.row.status = "PAID")
  BY <1>1, <1>3, <1>5 DEF Wrote, Evolves
<1> QED
  BY <1>2, <1>4, <1>5

LEMMA KeptKnows ==
  ASSUME NEW k, NEW l, NEW o, NEW a, NEW w, OutdatedAs(k, l, o, a, w),
         NEW ch, NEW i, NEW c, NEW n, CallKnows(ch, i, c, n, k)
  PROVE  CallKnows(ch, i, c, n, l)
BY DEF CallKnows, OutdatedAs, Transaction, Joins
-----------------------------------------------------------------------------
(* What each step that only reads does to the call that takes it.           *)

\* A call that holds nothing, one that has seen an active attempt, and one that has
\* found an attempt without an order.
IdleAs(k) == k.at \in {"IDLE", "FIND", "CHECKED"}
SeenAs(k) ==
  /\ k.at = "SEEN" /\ k.attempt \in Attempts /\ k.row = attempt[k.attempt] /\ k.now = now
  /\ k.row.status \in ActiveStatuses
LooseAs(k) ==
  /\ k.at = "BEGUN" /\ k.attempt \in Attempts /\ k.row = attempt[k.attempt]
  /\ k.row.status # "ABSENT" /\ Joins(k) /\ k.decision = Undecided

\* A call that has decided on the matches ts, which are all that there are if
\* nothing has been hidden.
DecidedOn(c, k, ts) ==
  /\ At(c, "SEEN") /\ k.at = "DECIDED" /\ k.attempt = call[c].attempt
  /\ ts \in SUBSET Transfers /\ \A t \in ts : chain[t] # NoTime
  /\ DecidesAs(k.decision, call[c].row, call[c].now, ts)
  /\ ~late' /\ Undisputed(call[c].attempt) => ts = VisibleTo(call[c].attempt, call[c].row, call[c].now)

\* A call that begins its transaction on what it has read, and one that goes on in it.
BegunOn(c, k) ==
  /\ k.at = "BEGUN" /\ k.attempt = call[c].attempt /\ k.decision = call[c].decision
  /\ At(c, "DECIDED") \/ At(c, "JOINING")
  /\ Joins(k) => k.row.status \in ActiveStatuses
GoesOn(c, k) ==
  /\ k.attempt = call[c].attempt /\ k.row = call[c].row /\ k.decision = call[c].decision
  /\ call[c].at \in Transaction /\ k.at \in Transaction \ {"BEGUN"}
  /\ \/ /\ k.at = "ORDERED" /\ Joins(k) /\ k.terminal = (order.status \in Closed)
     \/ /\ k.at = "JOINING" /\ call[c].at = "ORDERED" /\ Joins(k)
        /\ k.terminal = call[c].terminal /\ k.alone = call[c].alone
        /\ k.actives = {x \in Attempts : Live(attempt[x])}
     \/ /\ k.at = "TAKEN" /\ ~Joins(k)
        /\ Marks(k, attempt) /\ k.to = MarkedOrder(k, order, attempt)
     \/ /\ k.at = "TAKEN" /\ call[c].at = "JOINING" /\ Joins(k)
        /\ k.terminal = call[c].terminal /\ k.alone = call[c].alone /\ k.actives = call[c].actives
        /\ k.to = Ensured(k, order, Joined(k, attempt)) /\ k.fresh = TRUE
        /\ ~Preferred(k) => ~attempt[k.attempt].attached
ReadsOn(c, k) ==
  IdleAs(k) \/ SeenAs(k) \/ LooseAs(k) \/ (\E ts : DecidedOn(c, k, ts)) \/ BegunOn(c, k) \/ GoesOn(c, k)
Reads(c, k) == Moved(c, k, {}) /\ CallOK(k, attempt, now) /\ ReadsOn(c, k)

LEMMA Held ==
  ASSUME Sound, NEW c \in Callers, NEW k, k = call[c]
  PROVE  /\ k \in Calls /\ CallOK(k, attempt, now) /\ call \in [Callers -> Calls]
         /\ attempt \in [Attempts -> RowTypes] /\ order \in OrderTypes
         /\ k.row \in RowTypes /\ k.decision \in Decisions /\ DecisionOK(k.decision)
         /\ k.at \in {"SEEN", "DECIDED"} \cup Transaction =>
              /\ k.attempt \in Attempts /\ attempt[k.attempt].status # "ABSENT"
              /\ attempt[k.attempt] \in RowTypes /\ RowOK(attempt[k.attempt])
         /\ k.at \in Transaction /\ Joins(k) => FoundAs(k)
<1>1. k \in Calls /\ CallOK(k, attempt, now)
  BY DEF Sound, Typed
<1>2. k.row \in RowTypes /\ k.decision \in Decisions
  BY <1>1 DEF Calls
<1>3. /\ DecisionOK(k.decision)
      /\ k.at \in {"SEEN", "DECIDED"} \cup Transaction =>
           k.attempt \in Attempts /\ attempt[k.attempt].status # "ABSENT"
  BY <1>1 DEF CallOK
<1>4. k.at \in Transaction /\ Joins(k) => FoundAs(k)
  BY <1>1, FoundIs
<1> QED
  BY <1>1, <1>2, <1>3, <1>4 DEF Sound, Typed

LEMMA Seeing ==
  ASSUME Sound, UNCHANGED rows, NEW c \in Callers, NEW i \in Attempts, See(c, i), Active(i)
  PROVE  \E k : Reads(c, k)
<1>1. PICK r : r = attempt[i]
  OBVIOUS
<1>2. PICK n : n = now
  OBVIOUS
<1>3. r \in RowTypes /\ RowOK(r) /\ r.status \in ActiveStatuses /\ n \in Nat /\ call \in [Callers -> Calls]
  BY <1>1, <1>2 DEF Sound, Typed, World, Active
<1>4. PICK k : k = [Resting EXCEPT !.at = "SEEN", !.attempt = i, !.row = r, !.now = n]
  OBVIOUS
<1>5. /\ k \in Calls /\ k.at = "SEEN" /\ k.attempt = i /\ k.row = r /\ k.now = n
      /\ k.decision = Undecided
  BY <1>3, <1>4, RestingIs DEF Calls, Stations
<1>6. call' = [call EXCEPT ![c] = k]
  BY <1>1, <1>2, <1>4 DEF See
<1>7. Moved(c, k, {})
  BY <1>3, <1>5, <1>6, MovesAlone
<1>8. CallOK(k, attempt, now)
  BY <1>1, <1>2, <1>3, <1>5, RestingIs DEF CallOK, Transaction, ActiveStatuses
<1>9. SeenAs(k)
  BY <1>1, <1>2, <1>3, <1>5 DEF SeenAs
<1> QED
  BY <1>7, <1>8, <1>9 DEF Reads, ReadsOn

LEMMA Going ==
  ASSUME Sound, UNCHANGED rows, NEW c \in Callers,
         EndCall(c) \/ GoTo(c, "CHECKED") \/ GoTo(c, "FIND")
  PROVE  \E k : Reads(c, k)
<1>1. PICK at \in {"IDLE", "CHECKED", "FIND"} : call' = [call EXCEPT ![c] = [Resting EXCEPT !.at = at]]
  <2>1. Resting = [Resting EXCEPT !.at = "IDLE"]
    BY RestingIs DEF Calls
  <2> QED
    BY <2>1 DEF EndCall, GoTo
<1>2. PICK k : k = [Resting EXCEPT !.at = at]
  OBVIOUS
<1>3. k \in Calls /\ k.at = at /\ k.decision = Undecided
  BY <1>2, RestingIs DEF Calls, Stations
<1>4. Moved(c, k, {})
  BY <1>1, <1>2, <1>3, MovesAlone DEF Sound, Typed
<1>5. CallOK(k, attempt, now)
  BY <1>3, RestingIs DEF CallOK, Transaction
<1> QED
  BY <1>3, <1>4, <1>5 DEF IdleAs, Reads, ReadsOn

LEMMA Creating ==
  ASSUME Sound, NEW c \in Callers, Create(c)
  PROVE  \E k : Reads(c, k)
<1>1. CASE GoTo(c, "FIND")
  BY <1>1, Going DEF Create
<1>2. ASSUME NEW i \in Latest(Loose),
             call' = [call EXCEPT ![c] = [Resting EXCEPT !.at = "BEGUN", !.attempt = i, !.row = attempt[i]]]
      PROVE  \E k : Reads(c, k)
  <2>1. PICK r : r = attempt[i]
    OBVIOUS
  <2>2. i \in Attempts /\ r \in RowTypes /\ RowOK(r) /\ r.status # "ABSENT" /\ ~r.attached
    BY <2>1 DEF Latest, Loose, Sound, Typed
  <2>3. PICK k : k = [Resting EXCEPT !.at = "BEGUN", !.attempt = i, !.row = r]
    OBVIOUS
  <2>4. /\ k \in Calls /\ k.at = "BEGUN" /\ k.attempt = i /\ k.row = r
        /\ k.decision = Undecided
    BY <2>2, <2>3, RestingIs DEF Calls, Stations, Transaction
  <2>5. Moved(c, k, {})
    BY <1>2, <2>1, <2>3, <2>4, MovesAlone DEF Sound, Typed, Create
  <2>6. CallOK(k, attempt, now)
    BY <2>1, <2>2, <2>4, RestingIs DEF CallOK, Transaction
  <2>7. LooseAs(k)
    BY <2>1, <2>2, <2>4 DEF LooseAs, Joins
  <2> QED
    BY <2>5, <2>6, <2>7 DEF Reads, ReadsOn
<1> QED
  BY <1>1, <1>2 DEF Create

LEMMA Finding ==
  ASSUME Sound, NEW c \in Callers, Find(c)
  PROVE  \E k : Reads(c, k)
<1>1. UNCHANGED rows
  BY DEF Find
<1>2. ASSUME NEW i \in Latest(Reusable), Active(i), See(c, i)
      PROVE  \E k : Reads(c, k)
  BY <1>1, <1>2, Seeing DEF Latest, Reusable
<1>3. CASE EndCall(c) \/ GoTo(c, "CHECKED")
  BY <1>1, <1>3, Going
<1> QED
  BY <1>2, <1>3 DEF Find

LEMMA SyncedType ==
  ASSUME NEW o \in OrderTypes, NEW a \in [Attempts -> RowTypes],
         NEW next \in Statuses, NEW force \in BOOLEAN
  PROVE  Synced(o, a, next, force) \in OrderTypes
<1>1. PICK n : n = Credit(a)
  OBVIOUS
<1>2. n \in Nat
  BY <1>1, CreditOf
<1>3. PICK s \in Statuses \cup {"RECOVERY"} : Synced(o, a, next, force) = [credited |-> n, status |-> s]
  <2>1. CASE Synced(o, a, next, force) = [credited |-> n, status |-> "RECOVERY"]
    BY <2>1
  <2>2. CASE Synced(o, a, next, force) = [credited |-> n, status |-> next]
    BY <2>2
  <2> QED
    BY <1>1, <2>1, <2>2 DEF Synced
<1> QED
  BY <1>2, <1>3 DEF OrderTypes

LEMMA MarkedType ==
  ASSUME NEW k \in Calls, k.attempt \in Attempts, DecisionOK(k.decision),
         NEW o \in OrderTypes, NEW a \in [Attempts -> RowTypes]
  PROVE  MarkedOrder(k, o, a) \in OrderTypes
<1>1. PICK b : b = Marked(k, a)
  OBVIOUS
<1>2. b \in [Attempts -> RowTypes]
  BY <1>1, Marking DEF MarkedAs
<1>3. CASE FenceHolds(k, a)
  <2>1. k.decision.kind \in Statuses
    BY <1>3 DEF FenceHolds, Calls, Decisions, Kinds, Statuses, ActiveStatuses
  <2> QED
    BY <1>1, <1>2, <1>3, <2>1, SyncedType DEF MarkedOrder
<1>4. CASE ~FenceHolds(k, a)
  <2>1. "FAILED" \in Statuses
    BY DEF Statuses
  <2> QED
    BY <1>1, <1>2, <1>4, <2>1, SyncedType DEF MarkedOrder
<1> QED
  BY <1>3, <1>4

LEMMA EnsuredType ==
  ASSUME NEW k \in Calls, k.attempt \in Attempts, NEW o \in OrderTypes, NEW a \in [Attempts -> RowTypes]
  PROVE  Ensured(k, o, a) \in OrderTypes
<1>1. PICK n : n = Credit(a)
  OBVIOUS
<1>2. n \in Nat
  BY <1>1, CreditOf
<1>3. PICK s : s = Ensured(k, o, a).status
  OBVIOUS
<1>4. Ensured(k, o, a) = [credited |-> n, status |-> s]
  BY <1>1, <1>3 DEF Ensured
<1>5. s \in {"RECOVERY", k.row.status, a[k.attempt].status, Existing(o).status}
  BY <1>3 DEF Ensured
<1>6. k.row.status \in Statuses /\ a[k.attempt].status \in Statuses
  BY DEF Calls, RowTypes
<1>7. Existing(o).status \in Statuses \cup {"RECOVERY"}
  BY DEF Existing, NewOrder, OrderTypes, Statuses, ActiveStatuses
<1> QED
  BY <1>2, <1>4, <1>5, <1>6, <1>7 DEF OrderTypes

LEMMA Settling ==
  ASSUME Sound, NEW c \in Callers, Settle(c)
  PROVE  /\ \E k : Reads(c, k)
         /\ journal' \in SUBSET {t \in Transfers : chain[t] # NoTime}
         /\ (late => late') /\ events' \in Nat
<1> DEFINE j == call[c]
<1>0. /\ j.at = "SEEN" /\ j \in Calls /\ CallOK(j, attempt, now) /\ call \in [Callers -> Calls]
      /\ UNCHANGED rows
  BY Held DEF Settle, At, rows
<1>1. PICK i \in Attempts : i = j.attempt
  BY <1>0 DEF CallOK
<1>2. PICK r \in RowTypes : r = j.row
  BY <1>0 DEF Calls
<1>3. PICK at \in Nat : at = j.now
  BY <1>0 DEF Calls
<1>a. RowOK(r) /\ attempt[i].status # "ABSENT"
  BY <1>0, <1>1, <1>2 DEF CallOK
<1> DEFINE visible == VisibleTo(i, r, at)
<1>4. PICK mode \in Modes, answer \in SUBSET visible :
        LET d == Decision(r, at, Matches(c, mode, answer))
        IN  /\ IF answer = visible THEN UNCHANGED <<late, events>>
               ELSE late' = TRUE /\ Event
            /\ journal' = Journaled(mode, answer)
            /\ IF Verified(c, mode, answer) /\ d.kind # "NONE"
               THEN call' = [call EXCEPT ![c] =
                      [Resting EXCEPT !.at = "DECIDED", !.attempt = i, !.decision = d]]
               ELSE EndCall(c)
  BY <1>1, <1>2, <1>3 DEF Settle, VisibleTo
<1>5. /\ visible \in SUBSET Transfers /\ \A t \in visible : chain[t] # NoTime
      /\ journal \in SUBSET {t \in Transfers : chain[t] # NoTime}
  BY VisibleIs DEF Sound, Typed, World
<1>6. journal' \in SUBSET {t \in Transfers : chain[t] # NoTime}
  BY <1>4, <1>5 DEF Journaled
<1>7. (late => late') /\ events' \in Nat
  <2>1. events \in Nat
    BY DEF Sound, Typed, World
  <2>2. (late' = late /\ events' = events) \/ (late' = TRUE /\ events' = events + 1)
    BY <1>4 DEF Event
  <2>3. late => late'
    BY <2>2, Zenon
  <2>4. events' \in Nat
    BY <2>1, <2>2
  <2> QED
    BY <2>3, <2>4
<1>8. PICK ts : ts = Matches(c, mode, answer)
  OBVIOUS
<1>9. ts \in SUBSET Transfers /\ \A t \in ts : chain[t] # NoTime
  <2>1. Journaled(mode, answer) \in SUBSET {t \in Transfers : chain[t] # NoTime}
    BY <1>4, <1>5 DEF Journaled
  <2> QED
    BY <1>5, <1>8, <2>1 DEF Matches, InWindow
<1>10. ~late' /\ Undisputed(i) => ts = visible
  <2> SUFFICES ASSUME ~late', Undisputed(i) PROVE ts = visible
    OBVIOUS
  <2>1. answer = visible
    BY <1>4
  <2>2. CASE mode = "ledger"
    <3>1. \A t \in visible : TransferOf[t].strict
      <4>1. \A t \in visible : TransferOf[t].to = i
        BY VisibleIs DEF Received, Sound
      <4> QED
        BY <1>5, <4>1 DEF Undisputed
    <3>2. Journaled(mode, answer) = journal \cup visible
      BY <2>1, <2>2, <3>1 DEF Journaled
    <3>3. ts = InWindow(journal \cup visible, i, r, at)
      BY <1>1, <1>2, <1>3, <1>8, <2>2, <3>2 DEF Matches
    <3> QED
      BY <1>5, <3>3 DEF VisibleTo, InWindow
  <2>3. CASE mode # "ledger"
    BY <1>8, <2>1, <2>3 DEF Matches
  <2> QED
    BY <2>2, <2>3
<1>11. PICK d : d = Decision(r, at, ts)
  OBVIOUS
<1>12. DecidesAs(d, r, at, ts) /\ d \in Decisions /\ DecisionOK(d)
  <2>1. Typed
    BY DEF Sound
  <2>2. DecidesAs(d, r, at, ts)
    BY <1>9, <1>11, <1>a, <2>1, Deciding
  <2> QED
    BY <1>9, <2>1, <2>2, DecisionType
<1>13. CASE EndCall(c)
  BY <1>0, <1>6, <1>7, <1>13, Going
<1>14. CASE call' = [call EXCEPT ![c] =
               [Resting EXCEPT !.at = "DECIDED", !.attempt = i, !.decision = d]]
  <2>1. PICK k : k = [Resting EXCEPT !.at = "DECIDED", !.attempt = i, !.decision = d]
    OBVIOUS
  <2>2. /\ k \in Calls /\ k.at = "DECIDED" /\ k.attempt = i /\ k.decision = d
    BY <1>12, <2>1, RestingIs DEF Calls, Stations
  <2>3. Moved(c, k, {})
    BY <1>0, <1>14, <2>1, <2>2, MovesAlone
  <2>4. CallOK(k, attempt, now)
    BY <1>12, <1>a, <2>2 DEF CallOK, Transaction
  <2>5. DecidedOn(c, k, ts)
    BY <1>0, <1>1, <1>2, <1>3, <1>9, <1>10, <1>12, <2>2 DEF DecidedOn, At
  <2> QED
    BY <1>6, <1>7, <2>3, <2>4, <2>5 DEF Reads, ReadsOn
<1> QED
  BY <1>4, <1>8, <1>11, <1>13, <1>14

LEMMA Beginning ==
  ASSUME Sound, NEW c \in Callers, Begin(c)
  PROVE  \E k : Reads(c, k)
<1>1. PICK j : j = call[c]
  OBVIOUS
<1>2. /\ j \in Calls /\ CallOK(j, attempt, now) /\ j.attempt \in Attempts /\ j.at = "DECIDED"
      /\ attempt[j.attempt] \in RowTypes /\ RowOK(attempt[j.attempt]) /\ call \in [Callers -> Calls]
      /\ attempt[j.attempt].status # "ABSENT" /\ DecisionOK(j.decision) /\ UNCHANGED rows
  BY <1>1, Held DEF Begin, At, rows
<1>3. CASE EndCall(c)
  BY <1>2, <1>3, Going
<1>4. CASE Active(j.attempt) /\
             call' = [call EXCEPT ![c].at = "BEGUN", ![c].row =
                        IF attempt[j.attempt].attached THEN AttachedRow ELSE attempt[j.attempt]]
  <2>1. PICK r : r = IF attempt[j.attempt].attached THEN AttachedRow ELSE attempt[j.attempt]
    OBVIOUS
  <2>2. r \in RowTypes
    BY <1>2, <2>1, RestingIs
  <2>3. IF r.attached THEN attempt[j.attempt].attached
        ELSE RowOK(r) /\ r.status \in ActiveStatuses /\ r.status # "ABSENT"
    BY <1>2, <1>4, <2>1, RestingIs DEF Active
  <2>4. PICK k : k = [j EXCEPT !.at = "BEGUN", !.row = r]
    OBVIOUS
  <2>5. /\ k \in Calls /\ k.at = "BEGUN" /\ k.attempt = j.attempt /\ k.decision = j.decision
        /\ k.row = r
    BY <1>2, <2>2, <2>4 DEF Calls, Stations, Transaction
  <2>6. CallOK(k, attempt, now)
    BY <1>2, <2>3, <2>5 DEF CallOK
  <2>7. call' = [call EXCEPT ![c] = k]
    BY <1>1, <1>2, <1>4, <2>1, <2>4
  <2>8. Moved(c, k, {})
    BY <1>2, <2>5, <2>7, MovesAlone
  <2>9. BegunOn(c, k)
    BY <1>1, <1>2, <2>3, <2>5 DEF BegunOn, Joins, At
  <2> QED
    BY <2>6, <2>8, <2>9 DEF Reads, ReadsOn
<1> QED
  BY <1>1, <1>3, <1>4 DEF Begin

LEMMA JoiningOrder ==
  ASSUME Sound, NEW c \in Callers, Join(c)
  PROVE  \E k : Reads(c, k)
<1>1. PICK j : j = call[c]
  OBVIOUS
<1>2. j \in Calls /\ CallOK(j, attempt, now) /\ call \in [Callers -> Calls]
  BY <1>1, Held
<1>3. j.at = "BEGUN" /\ Joins(j) /\ UNCHANGED rows
  BY <1>1 DEF Join, At, Joins, rows
<1>4. PICK t \in BOOLEAN : t <=> order.status \in Closed
  OBVIOUS
<1>5. PICK k : k = [j EXCEPT !.at = "ORDERED", !.terminal = t, !.alone = TRUE]
  OBVIOUS
<1>6. /\ k \in Calls /\ k.at = "ORDERED" /\ k.attempt = j.attempt /\ k.decision = j.decision
      /\ k.row = j.row /\ k.now = j.now /\ k.terminal = t
  BY <1>2, <1>5 DEF Calls, Stations, Transaction
<1>7. call' = [call EXCEPT ![c] = k]
  BY <1>1, <1>2, <1>4, <1>5 DEF Join
<1>8. Moved(c, k, {})
  BY <1>2, <1>3, <1>6, <1>7, MovesAlone
<1>9. CallOK(k, attempt, now)
  BY <1>2, <1>3, <1>6 DEF CallOK, Transaction, Joins
<1>10. GoesOn(c, k)
  BY <1>1, <1>3, <1>4, <1>6 DEF GoesOn, Transaction, Joins
<1> QED
  BY <1>8, <1>9, <1>10 DEF Reads, ReadsOn

LEMMA Meeting ==
  ASSUME Sound, NEW c \in Callers, Meet(c)
  PROVE  \E k : Reads(c, k)
<1>1. PICK j : j = call[c]
  OBVIOUS
<1>2. j \in Calls /\ CallOK(j, attempt, now) /\ call \in [Callers -> Calls]
  BY <1>1, Held
<1>3. j.at = "ORDERED" /\ Joins(j) /\ UNCHANGED rows
  BY <1>1, <1>2 DEF Meet, At, Joins, rows, CallOK, Transaction
<1>4. PICK is \in SUBSET Attempts : is = {x \in Attempts : Live(attempt[x])}
  OBVIOUS
<1>5. PICK k : k = [j EXCEPT !.at = "JOINING", !.actives = is]
  OBVIOUS
<1>6. /\ k \in Calls /\ k.at = "JOINING" /\ k.attempt = j.attempt /\ k.decision = j.decision
      /\ k.row = j.row /\ k.now = j.now /\ k.terminal = j.terminal /\ k.alone = j.alone
      /\ k.actives = is
  BY <1>2, <1>5 DEF Calls, Stations, Transaction
<1>7. call' = [call EXCEPT ![c] = k]
  BY <1>1, <1>2, <1>4, <1>5 DEF Meet
<1>8. Moved(c, k, {})
  BY <1>2, <1>3, <1>6, <1>7, MovesAlone
<1>9. CallOK(k, attempt, now)
  BY <1>2, <1>3, <1>6 DEF CallOK, Transaction, Joins
<1>10. GoesOn(c, k)
  BY <1>1, <1>3, <1>4, <1>6 DEF GoesOn, Transaction, Joins
<1> QED
  BY <1>8, <1>9, <1>10 DEF Reads, ReadsOn

LEMMA TakingMarked ==
  ASSUME Sound, NEW c \in Callers, TakeMarked(c)
  PROVE  \E k : Reads(c, k)
<1>1. PICK j : j = call[c]
  OBVIOUS
<1>2. /\ j \in Calls /\ CallOK(j, attempt, now) /\ call \in [Callers -> Calls]
      /\ attempt \in [Attempts -> RowTypes] /\ order \in OrderTypes
  BY <1>1, Held
<1>3. j.at = "BEGUN" /\ j.row.attached /\ UNCHANGED rows
  BY <1>1 DEF TakeMarked, At, rows
<1>4. j.attempt \in Attempts /\ DecisionOK(j.decision)
  BY <1>2, <1>3 DEF CallOK, Transaction
<1>5. CASE EndCall(c)
  BY <1>3, <1>5, Going
<1>6. CASE Marks(j, attempt) /\
             call' = [call EXCEPT ![c].at = "TAKEN", ![c].alone = TRUE,
                                  ![c].to = MarkedOrder(j, order, attempt)]
  <2>1. PICK to : to = MarkedOrder(j, order, attempt)
    OBVIOUS
  <2>2. to \in OrderTypes
    BY <1>2, <1>4, <2>1, MarkedType
  <2>3. PICK k : k = [j EXCEPT !.at = "TAKEN", !.alone = TRUE, !.to = to]
    OBVIOUS
  <2>4. /\ k \in Calls /\ k.at = "TAKEN" /\ k.attempt = j.attempt /\ k.decision = j.decision
        /\ k.row = j.row /\ k.now = j.now /\ k.to = to /\ k.fresh = j.fresh
    BY <1>2, <2>2, <2>3 DEF Calls, Stations, Transaction
  <2>5. call' = [call EXCEPT ![c] = k]
    BY <1>1, <1>2, <1>6, <2>1, <2>3
  <2>6. Moved(c, k, {})
    BY <1>2, <1>3, <2>4, <2>5, MovesAlone
  <2>7. CallOK(k, attempt, now)
    BY <1>2, <1>3, <2>4 DEF CallOK, Transaction
  <2>8. FenceHolds(k, attempt) = FenceHolds(j, attempt) /\ Recovers(k, attempt) = Recovers(j, attempt)
    BY <2>4, MarksSame
  <2>9. Marks(k, attempt) /\ Marked(k, attempt) = Marked(j, attempt)
    BY <1>6, <2>4, <2>8 DEF Marks, Marked
  <2>10. k.to = MarkedOrder(k, order, attempt)
    BY <2>1, <2>4, <2>8, <2>9 DEF MarkedOrder
  <2>11. GoesOn(c, k)
    BY <1>1, <1>3, <2>4, <2>9, <2>10 DEF GoesOn, Transaction, Joins
  <2> QED
    BY <2>6, <2>7, <2>11 DEF Reads, ReadsOn
<1> QED
  BY <1>1, <1>5, <1>6 DEF TakeMarked

LEMMA TakingJoined ==
  ASSUME Sound, NEW c \in Callers, TakeJoined(c)
  PROVE  \E k : Reads(c, k)
<1>1. PICK j : j = call[c]
  OBVIOUS
<1>2. /\ j \in Calls /\ CallOK(j, attempt, now) /\ call \in [Callers -> Calls]
      /\ attempt \in [Attempts -> RowTypes] /\ order \in OrderTypes
  BY <1>1, Held
<1>3. j.at = "JOINING" /\ UNCHANGED rows /\ (~attempt[j.attempt].attached \/ Preferred(j))
  BY <1>1 DEF TakeJoined, At, rows
<1>4. Joins(j) /\ j.attempt \in Attempts /\ FoundAs(j)
  BY <1>2, <1>3, FoundIs DEF CallOK, Transaction, Joins
<1>5. CASE EndCall(c)
  BY <1>3, <1>5, Going
<1>6. CASE /\ ~(/\ ~attempt[j.attempt].attached /\ AttachedAs(j) \in ActiveStatuses
                /\ Rivals(attempt, j.attempt) # {})
           /\ call' = [call EXCEPT ![c].at = "TAKEN", ![c].fresh = TRUE,
                                   ![c].to = Ensured(j, order, Joined(j, attempt))]
  <2>1. PICK to : to = Ensured(j, order, Joined(j, attempt))
    OBVIOUS
  <2>2. to \in OrderTypes
    <3>1. PICK b : b = Joined(j, attempt)
      OBVIOUS
    <3>2. b \in [Attempts -> RowTypes]
      BY <1>2, <1>4, <3>1, Joining DEF JoinedAs
    <3> QED
      BY <1>2, <1>4, <2>1, <3>1, <3>2, EnsuredType
  <2>3. PICK k : k = [j EXCEPT !.at = "TAKEN", !.fresh = TRUE, !.to = to]
    OBVIOUS
  <2>4. /\ k \in Calls /\ k.at = "TAKEN" /\ k.attempt = j.attempt /\ k.decision = j.decision
        /\ k.row = j.row /\ k.now = j.now /\ k.to = to /\ k.fresh = TRUE /\ k.terminal = j.terminal
        /\ k.actives = j.actives /\ k.alone = j.alone
    BY <1>2, <2>2, <2>3 DEF Calls, Stations, Transaction
  <2>5. call' = [call EXCEPT ![c] = k]
    BY <1>1, <1>2, <1>6, <2>1, <2>3
  <2>6. Moved(c, k, {})
    BY <1>2, <1>3, <2>4, <2>5, MovesAlone
  <2>7. /\ Preferred(k) = Preferred(j) /\ AttachedAs(k) = AttachedAs(j)
        /\ Joined(k, attempt) = Joined(j, attempt)
    BY <2>4 DEF Preferred, Prefers, AttachedAs, Joined, Attached
  <2>8. CallOK(k, attempt, now)
    <3>1. ~Preferred(k) => /\ ~attempt[k.attempt].attached
                           /\ AttachedAs(k) \in ActiveStatuses => Rivals(attempt, k.attempt) = {}
      BY <1>3, <1>6, <2>4, <2>7
    <3> QED
      BY <1>2, <1>3, <1>4, <2>4, <3>1 DEF CallOK, Transaction, Joins
  <2>9. k.to = Ensured(k, order, Joined(k, attempt))
    BY <2>1, <2>4, <2>7 DEF Ensured, Preferred, Prefers
  <2>10. GoesOn(c, k)
    BY <1>1, <1>3, <1>4, <2>4, <2>7, <2>9 DEF GoesOn, Transaction, Joins
  <2> QED
    BY <2>6, <2>8, <2>10 DEF Reads, ReadsOn
<1> QED
  BY <1>1, <1>5, <1>6 DEF TakeJoined

LEMMA TakingNothing ==
  ASSUME Sound, NEW c \in Callers, TakeNothing(c)
  PROVE  \E k : Reads(c, k)
<1>1. PICK j : j = call[c]
  OBVIOUS
<1>2. j \in Calls /\ CallOK(j, attempt, now) /\ call \in [Callers -> Calls]
  BY <1>1, Held
<1>3. j.at = "JOINING" /\ UNCHANGED rows /\ attempt[j.attempt].attached
  BY <1>1 DEF TakeNothing, At, rows
<1>4. j.attempt \in Attempts /\ attempt[j.attempt].status # "ABSENT" /\ DecisionOK(j.decision)
  BY <1>2, <1>3 DEF CallOK, Transaction
<1>5. CASE GoTo(c, "FIND")
  BY <1>3, <1>5, Going
<1>6. CASE call' = [call EXCEPT ![c] =
               [Resting EXCEPT !.at = "BEGUN", !.attempt = j.attempt, !.row = AttachedRow,
                               !.decision = j.decision]]
  <2>1. PICK d : d = j.decision
    OBVIOUS
  <2>2. PICK r : r = AttachedRow
    OBVIOUS
  <2>3. d \in Decisions /\ r \in RowTypes /\ r.attached
    BY <1>2, <2>1, <2>2, RestingIs DEF Calls
  <2>4. PICK k : k = [Resting EXCEPT !.at = "BEGUN", !.attempt = j.attempt, !.row = r, !.decision = d]
    OBVIOUS
  <2>5. k \in Calls /\ k.at = "BEGUN" /\ k.attempt = j.attempt /\ k.decision = d /\ k.row = r
    BY <1>4, <2>3, <2>4, RestingIs DEF Calls, Stations, Transaction
  <2>6. Moved(c, k, {})
    BY <1>2, <1>3, <1>6, <2>1, <2>2, <2>4, <2>5, MovesAlone
  <2>7. CallOK(k, attempt, now)
    BY <1>3, <1>4, <2>1, <2>3, <2>5 DEF CallOK, Transaction
  <2>8. BegunOn(c, k)
    BY <1>1, <1>3, <2>1, <2>3, <2>5 DEF BegunOn, Joins, At
  <2> QED
    BY <2>6, <2>7, <2>8 DEF Reads, ReadsOn
<1> QED
  BY <1>1, <1>5, <1>6 DEF TakeNothing

\* All the steps that write no row.
ReadStep(c) ==
  \/ Create(c) \/ Find(c) \/ InsertFails(c) \/ Settle(c) \/ Begin(c) \/ Join(c) \/ Meet(c)
  \/ TakeMarked(c) \/ TakeJoined(c) \/ TakeNothing(c) \/ Abandon(c) \/ \E i \in Attempts : Check(c, i)

LEMMA ReadingRows ==
  ASSUME Sound, NEW c \in Callers, ReadStep(c)
  PROVE  /\ \E k : Reads(c, k)
         /\ UNCHANGED <<now, chain, rows, lost, overtaken>> /\ (late => late')
         /\ journal' \in SUBSET {t \in Transfers : chain[t] # NoTime} /\ events' \in Nat
<1>1. /\ journal \in SUBSET {t \in Transfers : chain[t] # NoTime} /\ events \in Nat
  BY DEF Sound, Typed, World
<1>2. CASE Settle(c)
  BY <1>2, Settling DEF Settle
<1>3. CASE Abandon(c)
  <2>1. \E k : Reads(c, k)
    BY <1>3, Going DEF Abandon
  <2> QED
    BY <1>1, <1>3, <2>1 DEF Abandon, Event, ghosts
<1>4. ASSUME NEW i \in Attempts, Check(c, i)
      PROVE  \E k : Reads(c, k)
  BY <1>4, Seeing DEF Check
<1>5. ASSUME InsertFails(c)
      PROVE  \E k : Reads(c, k)
  BY <1>5, Going DEF InsertFails
<1>6. CASE \E i \in Attempts : Check(c, i)
  <2>1. \E k : Reads(c, k)
    BY <1>4, <1>6
  <2> QED
    BY <1>1, <1>6, <2>1 DEF Check, ghosts
<1>7. CASE \/ Create(c) \/ Find(c) \/ InsertFails(c) \/ Begin(c) \/ Join(c) \/ Meet(c)
           \/ TakeMarked(c) \/ TakeJoined(c) \/ TakeNothing(c)
  <2>1. \E k : Reads(c, k)
    BY <1>5, <1>7, Creating, Finding, Beginning, JoiningOrder, Meeting, TakingMarked, TakingJoined,
       TakingNothing
  <2>2. UNCHANGED <<now, chain, journal, rows, ghosts, events>>
    BY ONLY <1>7 DEF Create, Find, InsertFails, Begin, Join, Meet, TakeMarked, TakeJoined, TakeNothing
  <2> QED
    BY <1>1, <2>1, <2>2 DEF ghosts
<1> QED
  BY <1>2, <1>3, <1>6, <1>7 DEF ReadStep
-----------------------------------------------------------------------------
(* Sound: what a commit makes of the attempts.                              *)

JoinsAs(k, b) ==
  /\ b \in [Attempts -> RowTypes] /\ b[k.attempt].attached
  /\ \/ ~Joins(k) /\ b = attempt
     \/ Joins(k) /\ FoundAs(k) /\ JoinedAs(k, attempt, b)

\* An attempt that joins finds or leaves no other active one.
LEMMA JoinedSound ==
  ASSUME Sound, NEW k \in Calls, CallOK(k, attempt, now), k.at = "TAKEN",
         NEW b, b = Joined(k, attempt)
  PROVE  /\ JoinsAs(k, b) /\ \A x \in Attempts : RowOK(b[x])
         /\ OneIsActive(b) /\ Evolves(attempt, b)
<1>1. k.attempt \in Attempts /\ attempt \in [Attempts -> RowTypes] /\ k.at \in Transaction
  BY DEF CallOK, Sound, Typed, Transaction
<1>2. CASE ~Joins(k)
  <2>1. b = attempt /\ attempt[k.attempt].attached
    BY <1>1, <1>2 DEF Joined, Joins, CallOK
  <2>2. Evolves(attempt, b)
    BY <2>1 DEF Evolves
  <2> QED
    BY <1>1, <1>2, <2>1, <2>2 DEF JoinsAs, Sound
<1>3. CASE Joins(k)
  <2>1. FoundAs(k) /\ JoinedAs(k, attempt, b)
    BY <1>1, <1>3, FoundIs, Joining
  <2>2. PICK i \in Attempts : i = k.attempt
    BY <1>1
  <2>3. b \in [Attempts -> RowTypes] /\ OwnAs(k, attempt[i], b[i])
    BY <2>1, <2>2 DEF JoinedAs
  <2>4. ASSUME NEW x \in Attempts, x # i
        PROVE  /\ b[x] = attempt[x] \/ (Preferred(k) /\ Live(attempt[x]) /\ GivesUp(attempt[x], b[x]))
               /\ Preferred(k) => ~Live(b[x])
    BY <2>1, <2>2, <2>4 DEF JoinedAs
  <2>5. k.row.status # "ABSENT" /\ AttachedAs(k) \in {"CANCELLED", k.row.status}
    BY <2>1 DEF FoundAs, AttachedAs
  <2>6. RowOK(b[i]) /\ b[i].status # "ABSENT" /\ b[i].attached
    <3>1. RowOK(attempt[i])
      BY DEF Sound
    <3>2. b[i].attached /\ SameFacts(attempt[i], b[i])
      BY <2>3 DEF OwnAs
    <3>3. b[i].status # "ABSENT"
      BY <2>3, <2>5, <3>1 DEF OwnAs, RowOK
    <3> QED
      BY <3>1, <3>2, <3>3 DEF RowOK, SameFacts
  <2>7. ASSUME NEW x \in Attempts, x # i
        PROVE  RowOK(b[x]) /\ (attempt[x].status # "ABSENT" => b[x].status # "ABSENT")
    <3>1. RowOK(attempt[x])
      BY DEF Sound
    <3> QED
      BY <2>4, <2>7, <3>1 DEF RowOK, GivesUp, SameFacts
  <2>8. ASSUME NEW x \in Attempts
        PROVE  b[x].createdAt = attempt[x].createdAt /\ (attempt[x].attached => b[x].attached)
    BY <2>3, <2>4, <2>8 DEF OwnAs, GivesUp, SameFacts
  <2>9. ASSUME ~Preferred(k), Live(b[i])
        PROVE  \A x \in Attempts \ {i} : ~Live(attempt[x])
    <3>1. ~attempt[i].attached /\ (AttachedAs(k) \in ActiveStatuses => Rivals(attempt, i) = {})
      BY <1>3, <2>2, <2>9 DEF CallOK, Joins
    <3>2. AttachedAs(k) \in ActiveStatuses
      BY <2>3, <2>9, <3>1 DEF OwnAs, Live
    <3> QED
      BY <3>1, <3>2 DEF Rivals
  <2>10. OneIsActive(b)
    <3> SUFFICES ASSUME NEW x \in Attempts, NEW y \in Attempts, Live(b[x]), Live(b[y]) PROVE x = y
      BY DEF OneIsActive
    <3>1. CASE Preferred(k)
      BY <2>4, <3>1
    <3>2. CASE ~Preferred(k)
      BY <2>4, <2>9, <3>2 DEF Sound, OneIsActive
    <3> QED
      BY <3>1, <3>2
  <2>11. Evolves(attempt, b)
    BY <2>6, <2>7, <2>8 DEF Evolves
  <2> QED
    BY <1>3, <2>1, <2>2, <2>3, <2>6, <2>7, <2>10, <2>11 DEF JoinsAs
<1> QED
  BY <1>2, <1>3

LEMMA MarkedSound ==
  ASSUME NEW k \in Calls, k.attempt \in Attempts, DecisionOK(k.decision),
         NEW b, b \in [Attempts -> RowTypes], b[k.attempt].attached, \A x \in Attempts : RowOK(b[x]),
         OneIsActive(b), NEW e, MarkedAs(k, b, e)
  PROVE  OneIsActive(e) /\ Evolves(b, e) /\ \A x \in Attempts : RowOK(e[x])
<1>1. PICK i \in Attempts : i = k.attempt
  OBVIOUS
<1>2. PICK d \in Decisions : d = k.decision
  BY DEF Calls
<1>3. e \in [Attempts -> RowTypes] /\ \A x \in Attempts \ {i} : e[x] = b[x]
  BY <1>1 DEF MarkedAs
<1>4. CASE FenceHolds(k, b) /\ WrittenAs(e[i], b[i], d)
  <2>1. e[i].attached /\ e[i].status # "ABSENT" /\ e[i].createdAt = b[i].createdAt
    BY <1>1, <1>4 DEF WrittenAs
  <2>2. RowOK(e[i])
    BY <1>1, <1>2, <1>4, <2>1, WrittenOK
  <2>3. Live(b[i])
    BY <1>1, <1>4 DEF FenceHolds, Live
  <2>4. OneIsActive(e)
    BY <1>3, <2>3 DEF OneIsActive
  <2> QED
    BY <1>3, <2>1, <2>2, <2>4 DEF Evolves
<1>5. CASE Recovers(k, b) /\ RecoveredAs(e[i], b[i], d)
  <2>1. e[i].attached /\ e[i].status = "FAILED" /\ e[i].createdAt = b[i].createdAt
    BY <1>1, <1>5 DEF RecoveredAs
  <2>2. d.kind \in {"PAID", "PARTIAL"}
    BY <1>2, <1>5 DEF Recovers, Prefers
  <2>3. RowOK(e[i])
    BY <1>1, <1>2, <1>5, <2>2, RecoveredOK
  <2>4. OneIsActive(e)
    BY <1>3, <2>1 DEF OneIsActive, Live, ActiveStatuses
  <2> QED
    BY <1>3, <2>1, <2>3, <2>4 DEF Evolves
<1>6. CASE e = b
  BY <1>6 DEF Evolves
<1> QED
  BY <1>1, <1>2, <1>4, <1>5, <1>6 DEF MarkedAs

\* A commit of call c, in k, that makes b of the attempts and then their rows, and
\* leaves the call in l.
CommitAs(c, k, b, w, l) ==
  /\ k = call[c] /\ k \in Calls /\ k.at = "TAKEN" /\ k.attempt \in Attempts /\ CallOK(k, attempt, now)
  /\ b = Joined(k, attempt) /\ JoinsAs(k, b)
  /\ attempt' = Marked(k, b) /\ MarkedAs(k, b, attempt')
  /\ \A x \in Attempts : RowOK(attempt'[x])
  /\ OneIsActive(attempt') /\ Wrote(attempt', w)
  /\ IdleAs(l) /\ l.decision = Undecided /\ Moved(c, l, w)

LEMMA Committing ==
  ASSUME Sound, NEW c \in Callers, Commit(c)
  PROVE  \E k, b, w, l : CommitAs(c, k, b, w, l)
<1>1. PICK k : k = call[c]
  OBVIOUS
<1>2. k \in Calls /\ CallOK(k, attempt, now) /\ call \in [Callers -> Calls] /\ DecisionOK(k.decision)
  BY <1>1, Held
<1>3. k.at = "TAKEN" /\ k.attempt \in Attempts
  BY <1>1, <1>2 DEF Commit, At, CallOK, Transaction
<1>4. PICK b : b = Joined(k, attempt)
  OBVIOUS
<1>5. JoinsAs(k, b) /\ (\A x \in Attempts : RowOK(b[x])) /\ OneIsActive(b) /\ Evolves(attempt, b)
  BY <1>2, <1>3, <1>4, JoinedSound
<1>6. b \in [Attempts -> RowTypes] /\ b[k.attempt].attached
  BY <1>5 DEF JoinsAs
<1>7. PICK e : e = attempt'
  OBVIOUS
<1>8. e = Marked(k, b)
  BY <1>1, <1>4, <1>7 DEF Commit
<1>9. MarkedAs(k, b, e)
  BY <1>2, <1>3, <1>6, <1>8, Marking
<1>10. (\A x \in Attempts : RowOK(e[x])) /\ OneIsActive(e) /\ Evolves(b, e)
  BY <1>2, <1>3, <1>5, <1>6, <1>9, MarkedSound
<1>11. PICK w : w = Changed(b) \cup (IF Marks(k, b) THEN {k.attempt} ELSE {})
  OBVIOUS
<1>12. Wrote(e, w)
  <2>1. e \in [Attempts -> RowTypes]
    BY <1>9 DEF MarkedAs
  <2>2. w \subseteq Attempts
    BY <1>3, <1>11 DEF Changed
  <2>3. ASSUME NEW x \in Attempts \ w
        PROVE  e[x] = attempt[x]
    <3>1. b[x] = attempt[x]
      BY <1>11, <2>3 DEF Changed
    <3>2. x # k.attempt \/ ~Marks(k, b)
      BY <1>11, <2>3
    <3>3. e[x] = b[x]
      BY <1>9, <3>2 DEF MarkedAs, Marks
    <3> QED
      BY <3>1, <3>3
  <2>4. Evolves(attempt, e)
    BY <1>5, <1>10 DEF Evolves
  <2> QED
    BY <2>1, <2>2, <2>3, <2>4 DEF Wrote
<1>13. PICK l : l = [Resting EXCEPT !.at = IF k.decision.kind = "NONE" THEN "FIND" ELSE "IDLE"]
  OBVIOUS
<1>14. l \in Calls /\ IdleAs(l) /\ l.decision = Undecided /\ l.at \notin Transaction
  BY <1>13, RestingIs DEF Calls, Stations, IdleAs, Transaction
<1>15. call' = Outdated([call EXCEPT ![c] = l], order', attempt', w)
  BY <1>1, <1>4, <1>11, <1>13 DEF Commit
<1>16. Moved(c, l, w)
  BY <1>2, <1>14, <1>15, MovesAndWrites
<1> QED
  BY <1>1, <1>2, <1>3, <1>4, <1>5, <1>7, <1>8, <1>9, <1>10, <1>12, <1>14, <1>16 DEF CommitAs

\* Someone else's write of one row, the calls being outdated by it.
LEMMA Writes ==
  ASSUME Sound, NEW i \in Attempts, NEW r \in RowTypes, attempt' = [attempt EXCEPT ![i] = r],
         attempt[i].status # "ABSENT" =>
           /\ r.status # "ABSENT" /\ r.createdAt = attempt[i].createdAt
           /\ attempt[i].attached => r.attached
  PROVE  /\ Wrote(attempt', {i}) /\ attempt'[i] = r
         /\ \A x \in Attempts \ {i} : attempt'[x] = attempt[x]
<1>1. attempt \in [Attempts -> RowTypes]
  BY DEF Sound, Typed
<1>2. PICK a : a = attempt'
  OBVIOUS
<1>3. a \in [Attempts -> RowTypes] /\ a[i] = r /\ \A x \in Attempts \ {i} : a[x] = attempt[x]
  BY <1>1, <1>2
<1>4. Evolves(attempt, a)
  BY <1>3 DEF Evolves
<1>5. Wrote(a, {i})
  BY <1>3, <1>4 DEF Wrote
<1> QED
  BY <1>2, <1>3, <1>5

LEMMA Inserting ==
  ASSUME Sound, NEW c \in Callers, NEW i \in Attempts, Insert(c, i)
  PROVE  /\ attempt[i].status = "ABSENT" /\ Wrote(attempt', {i})
         /\ \A x \in Attempts \ {i} : attempt'[x] = attempt[x]
         /\ attempt'[i].status = "PENDING" /\ attempt'[i].attached /\ attempt'[i].credited = 0
         /\ attempt'[i].start = NoTime /\ attempt'[i].createdAt = now /\ RowOK(attempt'[i])
         /\ OneIsActive(attempt') /\ order' \in OrderTypes
         /\ \E l : IdleAs(l) /\ l.decision = Undecided /\ Moved(c, l, {i})
<1>1. PICK r : r = NewRow(TRUE)
  OBVIOUS
<1>2. /\ r \in RowTypes /\ RowOK(r) /\ r.status = "PENDING" /\ r.attached /\ r.createdAt = now
      /\ r.credited = 0 /\ r.start = NoTime
  BY <1>1, NewRowIs DEF Sound
<1>3. attempt[i].status = "ABSENT" /\ attempt' = [attempt EXCEPT ![i] = r] /\ NoRival
  BY <1>1 DEF Insert
<1>4. /\ Wrote(attempt', {i}) /\ attempt'[i] = r
      /\ \A x \in Attempts \ {i} : attempt'[x] = attempt[x]
  BY <1>2, <1>3, Writes
<1>5. OneIsActive(attempt')
  BY <1>3, <1>4 DEF OneIsActive, NoRival
<1>6. order' \in OrderTypes
  BY RestingIs DEF Insert, Sound, Typed, NewOrder, OrderTypes, Statuses, ActiveStatuses
<1>7. call' = Outdated([call EXCEPT ![c] = Resting], order', attempt', {i})
  BY DEF Insert
<1>8. Moved(c, Resting, {i})
  BY <1>7, RestingIs, MovesAndWrites DEF Sound, Typed, Transaction
<1> QED
  BY <1>2, <1>3, <1>4, <1>5, <1>6, <1>8, RestingIs DEF IdleAs

\* The calls after a step of nobody's.
Stays(w) ==
  /\ call' \in [Callers -> Calls]
  /\ \A x \in Callers : OutdatedAs(call[x], call'[x], order', attempt', w)

LEMMA OldInserting ==
  ASSUME Sound, NEW i \in Attempts, OldInsert(i)
  PROVE  /\ attempt[i].status = "ABSENT" /\ Wrote(attempt', {i})
         /\ \A x \in Attempts \ {i} : attempt'[x] = attempt[x]
         /\ attempt'[i].status = "PENDING" /\ ~attempt'[i].attached /\ attempt'[i].credited = 0
         /\ attempt'[i].start = NoTime /\ attempt'[i].createdAt = now /\ RowOK(attempt'[i])
         /\ OneIsActive(attempt') /\ Stays({i})
<1>1. PICK r : r = NewRow(FALSE)
  OBVIOUS
<1>2. /\ r \in RowTypes /\ RowOK(r) /\ r.status = "PENDING" /\ ~r.attached /\ r.createdAt = now
      /\ r.credited = 0 /\ r.start = NoTime
  BY <1>1, NewRowIs DEF Sound
<1>3. attempt[i].status = "ABSENT" /\ attempt' = [attempt EXCEPT ![i] = r]
  BY <1>1 DEF OldInsert
<1>4. /\ Wrote(attempt', {i}) /\ attempt'[i] = r
      /\ \A x \in Attempts \ {i} : attempt'[x] = attempt[x]
  BY <1>2, <1>3, Writes
<1>5. OneIsActive(attempt')
  BY <1>2, <1>4 DEF OneIsActive, Live, Sound
<1>6. ~attempt[i].attached /\ ~Live(attempt[i])
  BY <1>3 DEF Sound, RowOK, Live
<1>7. PICK a : a = attempt'
  OBVIOUS
<1>8. ASSUME NEW k \in Calls, CallOK(k, attempt, now)
      PROVE  OutdatedAs(k, k, order, a, {i})
  <2>1. ASSUME k.at \in Transaction
        PROVE  k.attempt # i /\ k.attempt \in Attempts
    BY <1>3, <1>8, <2>1 DEF CallOK
  <2>2. k.fresh \in BOOLEAN
    BY DEF Calls
  <2>3. ASSUME k.at = "TAKEN"
        PROVE  ~Conflicts(k, a, {i})
    <3>1. k.attempt # i /\ k.attempt \in Attempts /\ k.at \in Transaction
      BY <2>1, <2>3 DEF Transaction
    <3>2. ~Live(a[i])
      BY <1>2, <1>4, <1>7 DEF Live
    <3>3. i \notin Changed(Joined(k, attempt))
      <4>1. CASE ~Joins(k)
        BY <4>1 DEF Joined, Joins, Changed
      <4>2. CASE Joins(k)
        <5>1. FoundAs(k)
          BY <1>8, <3>1, <4>2, FoundIs
        <5>2. PICK b : b = Joined(k, attempt)
          OBVIOUS
        <5>3. b[i] = attempt[i]
          BY <1>6, <3>1, <5>1, <5>2, Joining DEF JoinedAs, Sound, Typed
        <5> QED
          BY <5>2, <5>3 DEF Changed
      <4> QED
        BY <4>1, <4>2
    <3> QED
      BY <3>1, <3>2, <3>3 DEF Conflicts
  <2>4. k.at \in Transaction => k.fresh = (k.fresh /\ k.attempt \notin {i})
    BY <2>1, <2>2
  <2>5. ~a[i].attached
    BY <1>2, <1>4, <1>7
  <2> QED
    BY <2>3, <2>4, <2>5 DEF OutdatedAs
<1>9. call' = call /\ order' = order /\ call \in [Callers -> Calls]
  BY DEF OldInsert, Sound, Typed
<1>10. ASSUME NEW x \in Callers
       PROVE  OutdatedAs(call[x], call'[x], order', attempt', {i})
  <2>1. call[x] \in Calls /\ CallOK(call[x], attempt, now)
    BY DEF Sound, Typed
  <2>2. OutdatedAs(call[x], call[x], order, a, {i})
    BY <1>8, <2>1
  <2> QED
    BY <1>7, <1>9, <2>2
<1> QED
  BY <1>2, <1>3, <1>4, <1>5, <1>9, <1>10 DEF Stays

OldWrittenAs(i, row, d) ==
  /\ DecidesAs(d, attempt[i], now, VisibleTo(i, attempt[i], now))
  /\ row \in RowTypes /\ RowOK(row) /\ row.status = d.kind /\ row.createdAt = attempt[i].createdAt
  /\ row.credited = 0 /\ ~row.attached
  /\ IF d.kind = "PARTIAL" THEN row.start = d.start /\ row.until = d.until
     ELSE row.start = attempt[i].start /\ row.until = attempt[i].until

LEMMA OldSettling ==
  ASSUME Sound, NEW i \in Attempts, OldSettle(i)
  PROVE  /\ attempt[i].status # "ABSENT" /\ ~attempt[i].attached /\ Wrote(attempt', {i})
         /\ \A x \in Attempts \ {i} : attempt'[x] = attempt[x]
         /\ \E d : OldWrittenAs(i, attempt'[i], d)
         /\ OneIsActive(attempt') /\ Stays({i})
<1>1. PICK r : r = attempt[i]
  OBVIOUS
<1>2. /\ r \in RowTypes /\ RowOK(r) /\ r.status \in ActiveStatuses /\ ~r.attached /\ now \in Nat
      /\ call \in [Callers -> Calls]
  BY <1>1 DEF Sound, Typed, World, OldSettle, Active
<1>3. PICK ts : ts = VisibleTo(i, r, now)
  OBVIOUS
<1>4. ts \in SUBSET Transfers /\ \A t \in ts : chain[t] # NoTime
  BY <1>2, <1>3, VisibleIs DEF Sound
<1>5. PICK d : d = Decision(r, now, ts)
  OBVIOUS
<1>6. d \in Decisions /\ DecisionOK(d) /\ DecidesAs(d, r, now, ts)
  <2>1. Typed
    BY DEF Sound
  <2>2. DecidesAs(d, r, now, ts)
    BY <1>2, <1>4, <1>5, <2>1, Deciding
  <2> QED
    BY <1>2, <1>4, <2>1, <2>2, DecisionType
<1>7. d.kind # "NONE" /\ attempt' = [attempt EXCEPT ![i] = [Written(r, d) EXCEPT !.credited = 0, !.atomic = {}]]
  BY <1>1, <1>3, <1>5 DEF OldSettle, VisibleTo
<1>8. PICK w : w = Written(r, d)
  OBVIOUS
<1>9. WrittenAs(w, r, d)
  BY <1>2, <1>6, <1>7, <1>8, Writing
<1>10. PICK row : row = [w EXCEPT !.credited = 0, !.atomic = {}]
  OBVIOUS
<1>11. /\ row \in RowTypes /\ row.status = w.status /\ row.attached = w.attached
       /\ row.createdAt = w.createdAt /\ row.paid = w.paid /\ row.start = w.start
       /\ row.until = w.until /\ row.credited = 0
  BY <1>9, <1>10 DEF WrittenAs, RowTypes
<1>12. RowOK(row) /\ ~row.attached /\ row.status = d.kind /\ row.createdAt = r.createdAt
  <2>1. row.status = d.kind /\ row.attached = r.attached /\ row.createdAt = r.createdAt
    BY <1>9, <1>11 DEF WrittenAs
  <2>2. RowOK(row)
    BY <1>2, <1>6, <1>9, <1>11 DEF RowOK, WrittenAs, DecisionOK
  <2> QED
    BY <1>2, <2>1, <2>2
<1>13. OldWrittenAs(i, row, d)
  BY <1>1, <1>3, <1>6, <1>9, <1>11, <1>12 DEF OldWrittenAs, WrittenAs
<1>14. attempt' = [attempt EXCEPT ![i] = row] /\ row.status # "ABSENT" /\ r.status # "ABSENT"
  BY <1>2, <1>7, <1>8, <1>9, <1>10, <1>12 DEF WrittenAs, ActiveStatuses
<1>15. /\ Wrote(attempt', {i}) /\ attempt'[i] = row
       /\ \A x \in Attempts \ {i} : attempt'[x] = attempt[x]
  BY <1>1, <1>2, <1>11, <1>12, <1>14, Writes
<1>16. OneIsActive(attempt')
  BY <1>12, <1>15 DEF OneIsActive, Live, Sound
<1>17. Stays({i})
  <2>1. call' = Outdated(call, order, attempt', {i}) /\ order' = order
    BY DEF OldSettle
  <2>2. PICK cs : cs = call'
    OBVIOUS
  <2>3. PICK a : a = attempt'
    OBVIOUS
  <2>4. cs = Outdated(call, order, a, {i})
    BY <2>1, <2>2, <2>3
  <2>5. cs \in [Callers -> Calls] /\ \A x \in Callers : OutdatedAs(call[x], cs[x], order, a, {i})
    BY <1>2, <2>4, MovesOthers
  <2> QED
    BY <2>1, <2>2, <2>3, <2>5 DEF Stays
<1> QED
  BY <1>1, <1>2, <1>13, <1>14, <1>15, <1>16, <1>17

LEMMA NobodyMoves ==
  ASSUME Sound, UNCHANGED <<rows, call>>
  PROVE  Stays({}) /\ Wrote(attempt', {})
<1>1. call \in [Callers -> Calls] /\ attempt \in [Attempts -> RowTypes]
  BY DEF Sound, Typed
<1>2. \A x \in Callers : OutdatedAs(call[x], call[x], order, attempt, {})
  BY <1>1, Undisturbed
<1>3. Wrote(attempt, {})
  BY <1>1 DEF Wrote, Evolves
<1>4. order' = order /\ attempt' = attempt /\ call' = call
  BY DEF rows
<1> QED
  BY <1>1, <1>2, <1>3, <1>4 DEF Stays

LEMMA Splitting ==
  ASSUME [Next]_vars
  PROVE  \/ \E c \in Callers : ReadStep(c) \/ Commit(c) \/ \E i \in Attempts : Insert(c, i)
         \/ \E i \in Attempts : OldInsert(i) \/ OldSettle(i)
         \/ (\E t \in Transfers : Pay(t)) \/ Tick \/ UNCHANGED vars
BY DEF Next, Proceed, ReadStep

LEMMA WorldStays ==
  ASSUME Sound, [Next]_vars
  PROVE  World' /\ now <= now' /\ (late => late')
<1>1. World /\ now \in Nat
  BY DEF Sound, Typed, World
<1>2. ASSUME UNCHANGED <<now, chain, journal, late>>, events' \in Nat
      PROVE  World' /\ now <= now' /\ (late => late')
  BY <1>1, <1>2 DEF World
<1>3. ASSUME NEW c \in Callers, ReadStep(c)
      PROVE  World' /\ now <= now' /\ (late => late')
  <2>1. /\ UNCHANGED <<now, chain>> /\ (late => late')
        /\ journal' \in SUBSET {t \in Transfers : chain[t] # NoTime} /\ events' \in Nat
    BY <1>3, ReadingRows
  <2> QED
    BY <1>1, <2>1 DEF World
<1>4. ASSUME NEW c \in Callers, Commit(c) \/ \E i \in Attempts : Insert(c, i)
      PROVE  World' /\ now <= now' /\ (late => late')
  <2>1. UNCHANGED <<now, chain, journal, late, events>>
    BY <1>4 DEF Commit, Insert, ghosts
  <2> QED
    BY <1>1, <1>2, <2>1 DEF World
<1>5. ASSUME NEW i \in Attempts, OldInsert(i) \/ OldSettle(i)
      PROVE  World' /\ now <= now' /\ (late => late')
  <2>1. UNCHANGED <<now, chain, journal, late>> /\ (events' = events \/ events' = events + 1)
    BY <1>5 DEF OldInsert, OldSettle, ghosts, Event
  <2>2. events' \in Nat
    BY <1>1, <2>1 DEF World
  <2> QED
    BY <1>2, <2>1, <2>2
<1>6. ASSUME NEW t \in Transfers, Pay(t)
      PROVE  World' /\ now <= now' /\ (late => late')
  <2>1. /\ UNCHANGED <<now, journal, late, events>> /\ chain[t] = NoTime
        /\ chain' = [chain EXCEPT ![t] = now]
    BY <1>6 DEF Pay, ghosts
  <2> QED
    BY <1>1, <2>1 DEF World
<1>7. CASE Tick
  <2>1. UNCHANGED <<chain, journal, late, events>> /\ now' = now + 1
    BY <1>7 DEF Tick, ghosts
  <2>2. now' \in Nat /\ now <= now'
    BY <1>1, <2>1
  <2>3. \A t \in Transfers : chain[t] \in Int /\ chain[t] <= now'
    BY <1>1, <2>1 DEF World, NoTime
  <2> QED
    BY <1>1, <2>1, <2>2, <2>3 DEF World
<1>8. CASE UNCHANGED vars
  <2>1. UNCHANGED <<now, chain, journal, late, events>>
    BY <1>8 DEF vars, ghosts
  <2> QED
    BY <1>1, <1>2, <2>1 DEF World
<1> QED
  BY <1>3, <1>4, <1>5, <1>6, <1>7, <1>8, Splitting

LEMMA StillSound ==
  ASSUME Sound, World', now <= now', order' \in OrderTypes, NEW w, Wrote(attempt', w),
         \A i \in Attempts : RowOK(attempt'[i]), OneIsActive(attempt'), call' \in [Callers -> Calls],
         \A x \in Callers : \/ OutdatedAs(call[x], call'[x], order', attempt', w)
                            \/ CallOK(call'[x], attempt', now')
  PROVE  Sound'
<1>1. PICK o : o = order'
  OBVIOUS
<1>2. PICK a : a = attempt'
  OBVIOUS
<1>3. PICK n : n = now'
  OBVIOUS
<1>4. n \in Nat /\ now <= n
  BY <1>3 DEF World
<1>5. ASSUME NEW x \in Callers
      PROVE  CallOK(call'[x], attempt', now')
  <2>1. CASE CallOK(call'[x], attempt', now')
    BY <2>1
  <2>2. CASE OutdatedAs(call[x], call'[x], order', attempt', w)
    <3>1. PICK l : l = call'[x]
      OBVIOUS
    <3>2. l \in Calls /\ call[x] \in Calls /\ CallOK(call[x], attempt, now)
      BY <3>1 DEF Sound, Typed
    <3>3. OutdatedAs(call[x], l, o, a, w) /\ Wrote(a, w)
      BY <1>1, <1>2, <2>2, <3>1
    <3>4. CallOK(l, a, n)
      BY <1>4, <3>2, <3>3, KeptOK
    <3> QED
      BY <1>2, <1>3, <3>1, <3>4
  <2> QED
    BY <2>1, <2>2
<1>6. attempt' \in [Attempts -> RowTypes]
  BY DEF Wrote
<1>7. Typed'
  BY <1>6 DEF Typed
<1> QED
  BY <1>5, <1>7 DEF Sound

\* What has gone to rest relies on nothing.
LEMMA IdleIsSound ==
  ASSUME NEW l, IdleAs(l), l.decision = Undecided, NEW a, NEW n
  PROVE  CallOK(l, a, n)
BY RestingIs DEF IdleAs, CallOK, Transaction

LEMMA MovedSound ==
  ASSUME Sound, World', now <= now', order' \in OrderTypes, NEW w, Wrote(attempt', w),
         \A i \in Attempts : RowOK(attempt'[i]), OneIsActive(attempt'),
         NEW c \in Callers, NEW l, Moved(c, l, w), CallOK(l, attempt', now')
  PROVE  Sound'
<1>1. call' \in [Callers -> Calls] /\ call'[c] = l
  BY DEF Moved
<1>2. ASSUME NEW x \in Callers
      PROVE  \/ OutdatedAs(call[x], call'[x], order', attempt', w)
             \/ CallOK(call'[x], attempt', now')
  BY <1>1 DEF Moved
<1> QED
  BY <1>1, <1>2, StillSound

LEMMA CommittedOrder ==
  ASSUME Sound, NEW c \in Callers, Commit(c)
  PROVE  order' \in OrderTypes
<1>1. PICK k, b, w, l : CommitAs(c, k, b, w, l)
  BY Committing
<1>2. /\ k = call[c] /\ k \in Calls /\ k.attempt \in Attempts /\ DecisionOK(k.decision)
      /\ b = Joined(k, attempt) /\ b \in [Attempts -> RowTypes] /\ k.to \in OrderTypes
  BY <1>1 DEF CommitAs, JoinsAs, CallOK, Calls
<1>3. order' = k.to \/ order' = MarkedOrder(k, k.to, b)
  BY <1>2 DEF Commit
<1> QED
  BY <1>2, <1>3, MarkedType
-----------------------------------------------------------------------------
LEMMA SoundInit == Init => Sound
<1> SUFFICES ASSUME Init PROVE Sound
  OBVIOUS
<1>1. World
  BY DEF Init, World, NoTime
<1>2. order \in OrderTypes
  BY DEF Init, OrderTypes, Statuses
<1>3. \A i \in Attempts : attempt[i] \in RowTypes /\ RowOK(attempt[i]) /\ ~Live(attempt[i])
  BY AbsentIs DEF Init, Live
<1>4. \A c \in Callers : call[c] \in Calls /\ CallOK(call[c], attempt, now)
  BY RestingIs, IdleIsSound DEF Init, IdleAs
<1>5. attempt \in [Attempts -> RowTypes] /\ call \in [Callers -> Calls]
  BY <1>3, <1>4 DEF Init
<1> QED
  BY <1>1, <1>2, <1>3, <1>4, <1>5 DEF Sound, Typed, OneIsActive

LEMMA SoundStep == Sound /\ [Next]_vars => Sound'
<1> SUFFICES ASSUME Sound, [Next]_vars PROVE Sound'
  OBVIOUS
<1>1. World' /\ now <= now'
  BY WorldStays
<1>2. ASSUME NEW c \in Callers, ReadStep(c)
      PROVE  Sound'
  <2>1. PICK k : Reads(c, k)
    BY <1>2, ReadingRows
  <2>2. now' = now /\ order' = order /\ attempt' = attempt
    BY <1>2, ReadingRows DEF rows
  <2>3. Moved(c, k, {}) /\ CallOK(k, attempt', now')
    BY <2>1, <2>2 DEF Reads
  <2>4. order' \in OrderTypes /\ (\A i \in Attempts : RowOK(attempt'[i])) /\ OneIsActive(attempt')
    BY <2>2 DEF Sound, Typed
  <2>5. Wrote(attempt', {})
    BY <2>2 DEF Wrote, Evolves, Sound, Typed
  <2> QED
    BY <1>1, <2>3, <2>4, <2>5, MovedSound
<1>3. ASSUME NEW c \in Callers, Commit(c)
      PROVE  Sound'
  <2>1. PICK k, b, w, l : CommitAs(c, k, b, w, l)
    BY <1>3, Committing
  <2>2. PICK a : a = attempt'
    OBVIOUS
  <2>3. PICK n : n = now'
    OBVIOUS
  <2>4. CallOK(l, a, n)
    BY <2>1, IdleIsSound DEF CommitAs
  <2>5. order' \in OrderTypes
    BY <1>3, CommittedOrder
  <2> QED
    BY <1>1, <2>1, <2>2, <2>3, <2>4, <2>5, MovedSound DEF CommitAs
<1>4. ASSUME NEW c \in Callers, NEW i \in Attempts, Insert(c, i)
      PROVE  Sound'
  <2>1. /\ Wrote(attempt', {i}) /\ \A x \in Attempts \ {i} : attempt'[x] = attempt[x]
        /\ RowOK(attempt'[i]) /\ OneIsActive(attempt') /\ order' \in OrderTypes
    BY <1>4, Inserting
  <2>2. PICK l : IdleAs(l) /\ l.decision = Undecided /\ Moved(c, l, {i})
    BY <1>4, Inserting
  <2>3. PICK a : a = attempt'
    OBVIOUS
  <2>4. PICK n : n = now'
    OBVIOUS
  <2>5. CallOK(l, a, n)
    BY <2>2, IdleIsSound
  <2>6. \A x \in Attempts : RowOK(attempt'[x])
    BY <2>1 DEF Sound
  <2>7. OneIsActive(attempt')
    BY <1>4, Inserting
  <2>8. order' \in OrderTypes
    BY <1>4, Inserting
  <2> QED
    BY <1>1, <2>1, <2>2, <2>3, <2>4, <2>5, <2>6, <2>7, <2>8, MovedSound
<1>5. ASSUME NEW w, Stays(w), Wrote(attempt', w), order' = order, OneIsActive(attempt'),
             \A x \in Attempts : RowOK(attempt'[x])
      PROVE  Sound'
  BY <1>1, <1>5, StillSound DEF Stays, Sound, Typed
<1>6. ASSUME NEW i \in Attempts, OldInsert(i)
      PROVE  Sound'
  <2>1. /\ Wrote(attempt', {i}) /\ RowOK(attempt'[i]) /\ OneIsActive(attempt') /\ Stays({i})
        /\ \A x \in Attempts \ {i} : attempt'[x] = attempt[x]
    BY <1>6, OldInserting
  <2>2. order' = order
    BY <1>6 DEF OldInsert
  <2>3. \A x \in Attempts : RowOK(attempt'[x])
    BY <2>1 DEF Sound
  <2> QED
    BY <1>5, <2>1, <2>2, <2>3
<1>7. ASSUME NEW i \in Attempts, OldSettle(i)
      PROVE  Sound'
  <2>1. /\ Wrote(attempt', {i}) /\ OneIsActive(attempt') /\ Stays({i})
        /\ \A x \in Attempts \ {i} : attempt'[x] = attempt[x]
    BY <1>7, OldSettling
  <2>2. RowOK(attempt'[i])
    BY <1>7, OldSettling DEF OldWrittenAs
  <2>3. order' = order
    BY <1>7 DEF OldSettle
  <2>4. \A x \in Attempts : RowOK(attempt'[x])
    BY <2>1, <2>2 DEF Sound
  <2> QED
    BY <1>5, <2>1, <2>3, <2>4
<1>8. CASE Tick \/ UNCHANGED vars \/ \E t \in Transfers : Pay(t)
  <2>1. UNCHANGED <<rows, call>>
    BY <1>8 DEF Tick, vars, Pay, rows
  <2>2. Stays({}) /\ Wrote(attempt', {})
    BY <2>1, NobodyMoves
  <2>3. order' = order /\ attempt' = attempt
    BY <2>1 DEF rows
  <2>4. OneIsActive(attempt') /\ \A x \in Attempts : RowOK(attempt'[x])
    BY <2>3 DEF Sound
  <2> QED
    BY <1>5, <2>2, <2>3, <2>4
<1> QED
  BY <1>2, <1>3, <1>4, <1>6, <1>7, <1>8, Splitting

LEMMA AlwaysSound == Spec => []Sound
BY SoundInit, SoundStep, PTL DEF Spec

\* However attempts join the order late, supersede each other and are restored, no two
\* of an order's attempts are active at once (ensureInvoiceOrder's writes behind the
\* unique index, by calls that read the order and its attempts one after the other).
THEOREM OneAttemptWaits == Spec => []OneAttemptIsActive
<1>1. Sound => OneAttemptIsActive
  BY DEF Sound, OneIsActive, OneAttemptIsActive, Active, Live
<1> QED
  BY <1>1, AlwaysSound, PTL
-----------------------------------------------------------------------------
(* Paying: whoever writes PAID has a payment to show.                       *)

\* What is paid stays paid.
LEMMA PaidStays ==
  ASSUME Sound, [Next]_vars, HasPaid(attempt)
  PROVE  HasPaid(attempt')
<1>1. PICK x \in Attempts :
        attempt[x].attached /\ attempt[x].status = "PAID" /\ attempt[x].credited = Amount
  BY DEF HasPaid
<1> SUFFICES attempt'[x] = attempt[x]
  BY <1>1 DEF HasPaid
<1>2. ASSUME NEW c \in Callers, ReadStep(c)
      PROVE  attempt'[x] = attempt[x]
  BY <1>2, ReadingRows DEF rows
<1>3. ASSUME NEW c \in Callers, NEW i \in Attempts, Insert(c, i)
      PROVE  attempt'[x] = attempt[x]
  BY <1>1, <1>3, Inserting
<1>4. ASSUME NEW i \in Attempts, OldInsert(i) \/ OldSettle(i)
      PROVE  attempt'[x] = attempt[x]
  BY <1>1, <1>4, OldInserting, OldSettling
<1>5. ASSUME NEW c \in Callers, Commit(c)
      PROVE  attempt'[x] = attempt[x]
  <2>1. PICK k, b, w, l : CommitAs(c, k, b, w, l)
    BY <1>5, Committing
  <2>2. JoinsAs(k, b) /\ MarkedAs(k, b, attempt')
    BY <2>1 DEF CommitAs
  <2>3. b[x] = attempt[x]
    <3>1. ~Live(attempt[x])
      BY <1>1 DEF Live, ActiveStatuses
    <3>2. CASE x = k.attempt /\ JoinedAs(k, attempt, b)
      BY <1>1, <3>2 DEF JoinedAs, OwnAs
    <3>3. CASE x # k.attempt /\ JoinedAs(k, attempt, b)
      BY <3>1, <3>3 DEF JoinedAs
    <3> QED
      BY <2>2, <3>2, <3>3 DEF JoinsAs
  <2>4. CASE x = k.attempt
    <3>1. ~Marks(k, b)
      BY <1>1, <2>3, <2>4 DEF Marks, FenceHolds, Recovers, ActiveStatuses
    <3> QED
      BY <2>2, <2>3, <3>1 DEF MarkedAs, Marks
  <2>5. CASE x # k.attempt
    BY <2>2, <2>3, <2>5 DEF MarkedAs
  <2> QED
    BY <2>4, <2>5
<1>6. ASSUME Tick \/ UNCHANGED vars \/ \E t \in Transfers : Pay(t)
      PROVE  attempt'[x] = attempt[x]
  BY <1>6 DEF Tick, vars, Pay, rows
<1> QED
  BY <1>2, <1>3, <1>4, <1>5, <1>6, Splitting

\* Only what has been paid in full makes an order PAID.
LEMMA SyncedPaid ==
  ASSUME NEW k, NEW o, NEW a, MarkedOrder(k, o, a).status = "PAID"
  PROVE  FenceHolds(k, a) /\ k.decision.kind = "PAID"
BY DEF MarkedOrder, Synced

LEMMA CommitPays ==
  ASSUME Sound, Paying, NEW c \in Callers, Commit(c), order'.status = "PAID", ~lost'
  PROVE  HasPaid(attempt')
<1>1. PICK k, b, w, l : CommitAs(c, k, b, w, l)
  BY Committing
<1>2. /\ k = call[c] /\ k.at = "TAKEN" /\ k.attempt \in Attempts /\ b = Joined(k, attempt)
      /\ JoinsAs(k, b) /\ MarkedAs(k, b, attempt') /\ CallPays(k, attempt) /\ ~lost
  BY <1>1 DEF CommitAs, Paying, Commit
<1>3. ~(Joins(k) /\ attempt[k.attempt].attached)
  BY <1>2 DEF Commit, Joins
<1>4. IF Joins(k) /\ Marks(k, b) THEN order' = MarkedOrder(k, k.to, b) ELSE order' = k.to
  BY <1>2 DEF Commit, Joins
<1>5. b[k.attempt].attached
  BY <1>2 DEF JoinsAs
<1>6. ASSUME FenceHolds(k, b), k.decision.kind = "PAID"
      PROVE  HasPaid(attempt')
  <2>1. WrittenAs(attempt'[k.attempt], b[k.attempt], k.decision)
    BY <1>2, <1>6 DEF MarkedAs, Marks
  <2> QED
    BY <1>2, <1>5, <1>6, <2>1 DEF WrittenAs, HasPaid
<1>7. CASE Joins(k) /\ Marks(k, b)
  BY <1>4, <1>6, <1>7, SyncedPaid
<1>8. CASE ~(Joins(k) /\ Marks(k, b))
  <2>1. k.to.status = "PAID"
    BY <1>4, <1>8
  <2>2. CASE HasPaid(attempt)
    <3>1. [Next]_vars
      BY DEF Next, Proceed
    <3> QED
      BY <2>2, <3>1, PaidStays
  <2>3. CASE ~Joins(k) /\ FenceHolds(k, attempt) /\ k.decision.kind = "PAID"
    BY <1>2, <1>6, <2>3 DEF JoinsAs
  <2>4. CASE Joins(k) /\ k.row.status = "PAID"
    <3>1. attempt' = b
      BY <1>2, <1>8, <2>4 DEF MarkedAs, Marks
    <3>2. OwnAs(k, attempt[k.attempt], b[k.attempt]) /\ ~attempt[k.attempt].attached /\ Preferred(k)
      BY <1>2, <1>3, <2>4 DEF JoinsAs, JoinedAs, Preferred
    <3>3. b[k.attempt].status = "PAID" /\ b[k.attempt].credited = Amount
      BY <2>4, <3>2 DEF OwnAs, CreditDue
    <3> QED
      BY <1>2, <1>5, <3>1, <3>3 DEF HasPaid
  <2> QED
    BY <1>2, <1>3, <2>1, <2>2, <2>3, <2>4 DEF CallPays
<1> QED
  BY <1>7, <1>8

LEMMA TakenPays ==
  ASSUME Paying, ~lost, NEW c \in Callers, NEW k, ReadsOn(c, k)
  PROVE  CallPays(k, attempt)
<1> SUFFICES ASSUME k.at = "TAKEN", k.to.status = "PAID"
             PROVE  \/ HasPaid(attempt)
                    \/ ~Joins(k) /\ FenceHolds(k, attempt) /\ k.decision.kind = "PAID"
                    \/ Joins(k) /\ (attempt[k.attempt].attached \/ k.row.status = "PAID")
  BY DEF CallPays
<1>1. GoesOn(c, k)
  BY DEF ReadsOn, IdleAs, SeenAs, LooseAs, DecidedOn, BegunOn
<1>2. CASE ~Joins(k)
  BY <1>1, <1>2, SyncedPaid DEF GoesOn
<1>3. CASE Joins(k)
  <2>1. Ensured(k, order, Joined(k, attempt)).status = "PAID"
    BY <1>1, <1>3 DEF GoesOn
  <2>2. k.row.status = "PAID" \/ Existing(order).status = "PAID"
    BY <2>1 DEF Ensured
  <2>3. Existing(order).status = "PAID" => order.status = "PAID"
    BY DEF Existing, NewOrder
  <2> QED
    BY <1>3, <2>2, <2>3 DEF Paying
<1> QED
  BY <1>2, <1>3

LEMMA StillPaying ==
  ASSUME Sound, Paying, [Next]_vars, lost => lost', order'.status = "PAID" /\ ~lost' => HasPaid(attempt'),
         NEW w, Wrote(attempt', w), call' \in [Callers -> Calls],
         \A x \in Callers : \/ OutdatedAs(call[x], call'[x], order', attempt', w)
                            \/ ~lost' => CallPays(call'[x], attempt')
  PROVE  Paying'
<1> SUFFICES ASSUME ~lost' PROVE \A x \in Callers : CallPays(call'[x], attempt')
  BY DEF Paying
<1>1. PICK o : o = order'
  OBVIOUS
<1>2. PICK a : a = attempt'
  OBVIOUS
<1>3. ~lost /\ (HasPaid(attempt) => HasPaid(a))
  BY <1>2, PaidStays
<1>4. ASSUME NEW x \in Callers, OutdatedAs(call[x], call'[x], order', attempt', w)
      PROVE  CallPays(call'[x], attempt')
  <2>1. PICK l : l = call'[x]
    OBVIOUS
  <2>2. l \in Calls /\ call[x] \in Calls /\ CallOK(call[x], attempt, now) /\ CallPays(call[x], attempt)
    BY <1>3, <2>1 DEF Sound, Typed, Paying
  <2>3. OutdatedAs(call[x], l, o, a, w) /\ Wrote(a, w)
    BY <1>1, <1>2, <1>4, <2>1
  <2>4. CallPays(l, a)
    BY <1>3, <2>2, <2>3, KeptPays
  <2> QED
    BY <1>2, <2>1, <2>4
<1> QED
  BY <1>4

LEMMA PayingInit == Init => Paying
<1> SUFFICES ASSUME Init PROVE Paying
  OBVIOUS
<1>1. \A c \in Callers : call[c].at = "IDLE"
  BY RestingIs DEF Init
<1> QED
  BY <1>1 DEF Init, Paying, CallPays

LEMMA PayingStep == Sound /\ Paying /\ [Next]_vars => Paying'
<1> SUFFICES ASSUME Sound, Paying, [Next]_vars PROVE Paying'
  OBVIOUS
<1>1. ASSUME NEW c \in Callers, ReadStep(c)
      PROVE  Paying'
  <2>1. PICK k : Reads(c, k)
    BY <1>1, ReadingRows
  <2>2. order' = order /\ attempt' = attempt /\ lost' = lost
    BY <1>1, ReadingRows DEF rows
  <2>3. Moved(c, k, {}) /\ (~lost' => CallPays(k, attempt'))
    BY <2>1, <2>2, TakenPays DEF Reads
  <2>4. Wrote(attempt', {})
    BY <2>2 DEF Wrote, Evolves, Sound, Typed
  <2>5. order'.status = "PAID" /\ ~lost' => HasPaid(attempt')
    BY <2>2 DEF Paying
  <2> QED
    BY <2>2, <2>3, <2>4, <2>5, StillPaying DEF Moved
<1>2. ASSUME NEW c \in Callers, Commit(c)
      PROVE  Paying'
  <2>1. PICK k, b, w, l : CommitAs(c, k, b, w, l)
    BY <1>2, Committing
  <2>2. lost => lost'
    BY <1>2 DEF Commit
  <2>3. order'.status = "PAID" /\ ~lost' => HasPaid(attempt')
    BY <1>2, CommitPays
  <2>4. l.at # "TAKEN"
    BY <2>1 DEF CommitAs, IdleAs
  <2>5. \A x \in Callers : \/ OutdatedAs(call[x], call'[x], order', attempt', w)
                           \/ ~lost' => CallPays(call'[x], attempt')
    BY <2>1, <2>4 DEF CommitAs, Moved, CallPays
  <2> QED
    BY <2>1, <2>2, <2>3, <2>5, StillPaying DEF CommitAs, Moved
<1>3. ASSUME NEW c \in Callers, NEW i \in Attempts, Insert(c, i)
      PROVE  Paying'
  <2>1. Wrote(attempt', {i})
    BY <1>3, Inserting
  <2>2. PICK l : IdleAs(l) /\ Moved(c, l, {i})
    BY <1>3, Inserting
  <2>3. lost' = lost /\ (order'.status = "PAID" => order.status = "PAID")
    BY <1>3 DEF Insert, ghosts, NewOrder
  <2>4. order'.status = "PAID" /\ ~lost' => HasPaid(attempt')
    BY <2>3, PaidStays DEF Paying
  <2>5. \A x \in Callers : \/ OutdatedAs(call[x], call'[x], order', attempt', {i})
                           \/ ~lost' => CallPays(call'[x], attempt')
    BY <2>2 DEF Moved, CallPays, IdleAs
  <2> QED
    BY <2>1, <2>2, <2>3, <2>4, <2>5, StillPaying DEF Moved
<1>4. ASSUME NEW w, Stays(w), Wrote(attempt', w), order' = order, lost' = lost
      PROVE  Paying'
  <2>1. order'.status = "PAID" /\ ~lost' => HasPaid(attempt')
    BY <1>4, PaidStays DEF Paying
  <2> QED
    BY <1>4, <2>1, StillPaying DEF Stays
<1>5. ASSUME NEW i \in Attempts, OldInsert(i) \/ OldSettle(i)
      PROVE  Paying'
  <2>1. Stays({i}) /\ Wrote(attempt', {i})
    BY <1>5, OldInserting, OldSettling
  <2>2. order' = order /\ lost' = lost
    BY <1>5 DEF OldInsert, OldSettle, ghosts
  <2> QED
    BY <1>4, <2>1, <2>2
<1>6. CASE Tick \/ UNCHANGED vars \/ \E t \in Transfers : Pay(t)
  <2>1. UNCHANGED <<rows, call>> /\ lost' = lost
    BY <1>6 DEF Tick, vars, Pay, rows, ghosts
  <2> QED
    BY <1>4, <2>1, NobodyMoves DEF rows
<1> QED
  BY <1>1, <1>2, <1>3, <1>5, <1>6, Splitting

LEMMA AlwaysPaying == Spec => [](Sound /\ Paying)
<1>1. Init => Sound /\ Paying
  BY SoundInit, PayingInit
<1>2. Sound /\ Paying /\ [Next]_vars => (Sound /\ Paying)'
  BY SoundStep, PayingStep
<1> QED
  BY <1>1, <1>2, PTL DEF Spec

\* Whatever the interleaving of the transactions that write an order, one that is PAID
\* has an attempt that was paid in full (the writes of ensureInvoiceOrder and
\* syncOrderFromAttempts), unless an attachment has been lost to another one.
THEOREM PaidOrderHasPayment == Spec => []PaidOrderIsPaid
<1>1. Paying => PaidOrderIsPaid
  BY DEF Paying, HasPaid, PaidOrderIsPaid
<1> QED
  BY <1>1, AlwaysPaying, PTL
-----------------------------------------------------------------------------
(* Accounted: what a transaction leaves, if no other comes in between.      *)

SyncedAs(s, a, next, force) ==
  /\ s.credited = Credit(a) /\ s.status \in {"RECOVERY", next}
  /\ s.status # "RECOVERY" =>
       /\ ~force /\ ~(Cardinality(Funded(a)) > 1)
       /\ ~(next = "EXPIRED" /\ Credit(a) > 0)

LEMMA Syncing ==
  ASSUME NEW a, NEW o, NEW next, NEW force \in BOOLEAN, NEW s, s = Synced(o, a, next, force)
  PROVE  SyncedAs(s, a, next, force)
<1>1. PICK n : n = Credit(a)
  OBVIOUS
<1>2. PICK st : st = IF \/ force
                        \/ Cardinality(Funded(a)) > 1
                        \/ next = "EXPIRED" /\ Credit(a) > 0
                        \/ o.status \in {"RECOVERY", "CANCELLED", "FAILED"} /\ next # o.status
                     THEN "RECOVERY" ELSE next
  OBVIOUS
<1>3. s = [credited |-> n, status |-> st]
  BY <1>1, <1>2 DEF Synced
<1>4. s.credited = n /\ s.status = st
  BY <1>3
<1> QED
  BY <1>1, <1>2, <1>4 DEF SyncedAs

LEMMA SyncedAgrees ==
  ASSUME NEW a \in [Attempts -> RowTypes], NEW i \in Attempts, NEW s, NEW next,
         SyncedAs(s, a, next, FALSE), next \in {"PAID", "PARTIAL", "EXPIRED"},
         a[i].attached, a[i].status = next, next # "EXPIRED" => a[i].credited > 0
  PROVE  Agrees(s, a)
<1>1. CASE s.status = "RECOVERY"
  BY <1>1 DEF SyncedAs, Agrees
<1>2. CASE s.status # "RECOVERY" /\ next = "EXPIRED"
  <2>1. Credit(a) = 0
    BY <1>2, CreditOf DEF SyncedAs
  <2>2. Funded(a) = {}
    BY <2>1, CreditOf
  <2> QED
    BY <1>2, <2>2 DEF SyncedAs, Agrees
<1>3. CASE s.status # "RECOVERY" /\ next # "EXPIRED"
  <2>1. i \in Funded(a)
    BY <1>3 DEF Funded
  <2>2. Cardinality(Funded(a)) <= 1
    BY <1>3, FundedCount DEF SyncedAs
  <2>3. Funded(a) = {i}
    BY <2>1, <2>2, FundedAlone
  <2> QED
    BY <1>3, <2>3 DEF SyncedAs, Agrees
<1> QED
  BY <1>1, <1>2, <1>3

LEMMA ForcedAgrees ==
  ASSUME NEW a, NEW s, NEW next, SyncedAs(s, a, next, TRUE)
  PROVE  Agrees(s, a)
BY DEF SyncedAs, Agrees

\* Whoever marks an attempt recomputes the order.
LEMMA MarkedAgrees ==
  ASSUME NEW k \in Calls, k.attempt \in Attempts, DecisionOK(k.decision), NEW o,
         NEW a \in [Attempts -> RowTypes], a[k.attempt].attached, Marks(k, a),
         NEW s, s = MarkedOrder(k, o, a), NEW e, e = Marked(k, a)
  PROVE  Agrees(s, e)
<1>1. MarkedAs(k, a, e)
  BY Marking
<1>2. CASE FenceHolds(k, a)
  <2>1. WrittenAs(e[k.attempt], a[k.attempt], k.decision) /\ e \in [Attempts -> RowTypes]
    BY <1>1, <1>2 DEF MarkedAs, Marks
  <2>2. s = Synced(o, e, k.decision.kind, FALSE)
    BY <1>2 DEF MarkedOrder
  <2>3. SyncedAs(s, e, k.decision.kind, FALSE)
    BY <2>2, Syncing
  <2>4. PICK next : next = k.decision.kind
    OBVIOUS
  <2>5. /\ e[k.attempt].attached /\ e[k.attempt].status = next /\ next \in {"PAID", "PARTIAL", "EXPIRED"}
        /\ next # "EXPIRED" => e[k.attempt].credited > 0
    BY <2>1, <2>4, CheckoutAssumption DEF WrittenAs
  <2> QED
    BY <2>1, <2>3, <2>4, <2>5, SyncedAgrees
<1>3. CASE ~FenceHolds(k, a)
  <2>1. s = Synced(o, e, "FAILED", TRUE)
    BY <1>3 DEF MarkedOrder
  <2>2. SyncedAs(s, e, "FAILED", TRUE)
    BY <2>1, Syncing
  <2> QED
    BY <2>2, ForcedAgrees
<1> QED
  BY <1>2, <1>3

LEMMA EnsuredStatus ==
  ASSUME NEW k, NEW o, NEW a, NEW s, s = Ensured(k, o, a)
  PROVE  /\ s.credited = Credit(a)
         /\ \/ s.status = "RECOVERY"
            \/ /\ ~(Cardinality(Funded(a)) > 1)
               /\ ~(k.row.status = "EXPIRED" /\ FiatCredit(k.row.paid) > 0)
               /\ \/ /\ Preferred(k) /\ k.row.status \in {"PAID", "PARTIAL"}
                     /\ s.status = k.row.status
                  \/ /\ ~(Preferred(k) /\ k.row.status \in {"PAID", "PARTIAL"})
                     /\ \/ /\ k.actives = {} /\ ~k.terminal
                           /\ a[k.attempt].status \notin ActiveStatuses \cup {"PAID"}
                           /\ s.status = a[k.attempt].status
                        \/ s.status = Existing(o).status
<1>1. PICK n : n = Credit(a)
  OBVIOUS
<1>2. PICK st : st = Ensured(k, o, a).status
  OBVIOUS
<1>3. s = [credited |-> n, status |-> st]
  BY <1>1, <1>2 DEF Ensured
<1>4. s.credited = n /\ s.status = st
  BY <1>3
<1>5. \/ st = "RECOVERY"
      \/ /\ ~(Cardinality(Funded(a)) > 1)
         /\ ~(k.row.status = "EXPIRED" /\ FiatCredit(k.row.paid) > 0)
         /\ \/ /\ Preferred(k) /\ k.row.status \in {"PAID", "PARTIAL"}
               /\ st = k.row.status
            \/ /\ ~(Preferred(k) /\ k.row.status \in {"PAID", "PARTIAL"})
               /\ \/ /\ k.actives = {} /\ ~k.terminal
                     /\ a[k.attempt].status \notin ActiveStatuses \cup {"PAID"}
                     /\ st = a[k.attempt].status
                  \/ st = Existing(o).status
  BY <1>2 DEF Ensured
<1> QED
  BY <1>1, <1>4, <1>5

\* An attempt that joins an order that agrees with its attempts leaves it so.
LEMMA EnsuredAgrees ==
  ASSUME Sound, NEW k \in Calls, FoundAs(k), k.decision.kind = "NONE" \/ k.row.status \in ActiveStatuses,
         ~attempt[k.attempt].attached, k.fresh,
         k.terminal = (order.status \in Closed), k.actives = {x \in Attempts : Live(attempt[x])},
         Agrees(order, attempt), NEW b, b = Joined(k, attempt), ~Marks(k, b),
         NEW s, s = Ensured(k, order, b)
  PROVE  Agrees(s, b)
<1>1. PICK i \in Attempts : i = k.attempt
  BY DEF FoundAs
<1>2. PICK r \in RowTypes : r = k.row
  BY DEF Calls
<1>3. b \in [Attempts -> RowTypes] /\ JoinedAs(k, attempt, b)
  BY Joining DEF JoinedAs, Sound, Typed
<1>4. /\ b[i].attached /\ b[i].credited = CreditDue(r)
      /\ b[i].status = IF Preferred(k) THEN r.status ELSE AttachedAs(k)
  BY <1>1, <1>2, <1>3 DEF JoinedAs, OwnAs
<1>5. RowOK(r) /\ ~r.attached /\ r.status # "ABSENT"
  BY <1>2 DEF FoundAs, Joins
<1>6. FiatCredit(r.paid) \in Nat /\ (r.paid = {} <=> FiatCredit(r.paid) = 0) /\ Amount \in Nat \ {0}
  BY FiatCreditType, CheckoutAssumption DEF RowTypes
<1>7. s.credited = Credit(b)
  BY EnsuredStatus
<1>8. CASE ~Preferred(k)
  <2>1. CreditDue(r) = 0
    BY <1>2, <1>6, <1>8 DEF Preferred, CreditDue
  <2>2. \A x \in Attempts \ {i} : b[x] = attempt[x]
    BY <1>1, <1>3, <1>8 DEF JoinedAs
  <2>3. Funded(b) = Funded(attempt) /\ i \notin Funded(b)
    BY <1>1, <1>4, <2>1, <2>2 DEF Funded
  <2>4. \/ s.status = "RECOVERY"
        \/ /\ k.actives = {} /\ ~k.terminal
           /\ s.status = b[i].status /\ b[i].status \notin ActiveStatuses \cup {"PAID"}
        \/ s.status = Existing(order).status
    BY <1>1, <1>8, EnsuredStatus
  <2>5. CASE s.status = "RECOVERY"
    BY <1>7, <2>5 DEF Agrees
  <2>6. CASE /\ k.actives = {} /\ ~k.terminal
             /\ s.status = b[i].status /\ b[i].status \notin ActiveStatuses \cup {"PAID"}
    <3>1. order.status \notin Closed /\ \A x \in Attempts : ~Live(attempt[x])
      BY <2>6
    <3>2. order.status # "PARTIAL"
      <4> SUFFICES ASSUME order.status = "PARTIAL" PROVE FALSE
        OBVIOUS
      <4>1. PICK x \in Attempts : Funded(attempt) = {x} /\ attempt[x].status = "PARTIAL"
        BY DEF Agrees
      <4>2. Live(attempt[x])
        BY <4>1 DEF Funded, Live, ActiveStatuses
      <4> QED
        BY <3>1, <4>2
    <3>3. Funded(attempt) = {}
      BY <3>1, <3>2 DEF Agrees, Closed
    <3>4. s.status \notin {"PAID", "PARTIAL"}
      BY <2>6 DEF ActiveStatuses
    <3> QED
      BY <1>7, <2>3, <3>3, <3>4 DEF Agrees
  <2>7. CASE s.status = Existing(order).status
    <3>1. CASE order.status = "ABSENT"
      <4>1. s.status = "PENDING" /\ Funded(b) = {}
        BY <2>3, <2>7, <3>1 DEF Existing, NewOrder, Agrees
      <4> QED
        BY <1>7, <4>1 DEF Agrees
    <3>2. CASE order.status # "ABSENT"
      <4>1. s.status = order.status
        BY <2>7, <3>2 DEF Existing
      <4>2. ASSUME s.status \in {"PAID", "PARTIAL"}
            PROVE  \E x \in Attempts : Funded(b) = {x} /\ b[x].status = s.status
        <5>1. PICK x \in Attempts : Funded(attempt) = {x} /\ attempt[x].status = s.status
          BY <4>1, <4>2 DEF Agrees
        <5>2. x # i
          BY <2>3, <5>1
        <5> QED
          BY <2>2, <2>3, <5>1, <5>2
      <4>3. s.status \notin {"PAID", "PARTIAL", "RECOVERY"} => Funded(b) = {}
        BY <2>3, <4>1 DEF Agrees
      <4> QED
        BY <1>7, <4>2, <4>3 DEF Agrees
    <3> QED
      BY <3>1, <3>2
  <2> QED
    BY <2>4, <2>5, <2>6, <2>7
<1>9. CASE Preferred(k)
  <2>1. b[i].status = r.status
    BY <1>4, <1>9
  <2>2. k.decision.kind = "NONE"
    BY <1>1, <1>2, <2>1 DEF Marks, FenceHolds
  <2>3. r.status = "PAID" \/ FiatCredit(r.paid) > 0
    BY <1>2, <1>9, <2>2 DEF Preferred, Prefers
  <2>4. CreditDue(r) > 0
    BY <1>6, <2>3 DEF CreditDue
  <2>5. i \in Funded(b)
    BY <1>4, <2>4 DEF Funded
  <2>6. r.status \in {"PARTIAL", "PAID", "EXPIRED"}
    BY <1>5, <1>6, <2>3 DEF RowOK, RowTypes, Statuses, ActiveStatuses
  <2>7. \/ s.status = "RECOVERY"
        \/ s.status = r.status /\ r.status \in {"PAID", "PARTIAL"} /\ ~(Cardinality(Funded(b)) > 1)
    BY <1>2, <1>9, <2>3, <2>6, EnsuredStatus
  <2>8. CASE s.status = "RECOVERY"
    BY <1>7, <2>8 DEF Agrees
  <2>9. CASE s.status = r.status /\ r.status \in {"PAID", "PARTIAL"} /\ ~(Cardinality(Funded(b)) > 1)
    <3>1. Funded(b) = {i}
      BY <2>5, <2>9, FundedAlone, FundedCount
    <3> QED
      BY <1>7, <2>1, <2>9, <3>1 DEF Agrees
  <2> QED
    BY <2>7, <2>8, <2>9
<1> QED
  BY <1>8, <1>9

\* Each step of a transaction reads what is so, and what it computes agrees.
LEMMA TakenAgrees ==
  ASSUME Sound, Accounted, NEW c \in Callers, NEW k \in Calls, CallOK(k, attempt, now), ReadsOn(c, k)
  PROVE  CallAgrees(k, order, attempt)
<1> SUFFICES ASSUME k.alone, k.at \in {"ORDERED", "JOINING", "TAKEN"}
             PROVE  CallAgrees(k, order, attempt)
  BY DEF CallAgrees
<1>1. GoesOn(c, k) /\ k.at \in Transaction
  BY DEF ReadsOn, IdleAs, SeenAs, LooseAs, DecidedOn, BegunOn, Transaction
<1>2. CallAgrees(call[c], order, attempt)
  BY DEF Accounted
<1>3. CASE k.at = "ORDERED"
  BY <1>1, <1>3 DEF GoesOn, CallAgrees
<1>4. CASE k.at = "JOINING"
  BY <1>1, <1>2, <1>4 DEF GoesOn, CallAgrees, Joins
<1>5. CASE k.at = "TAKEN" /\ ~Joins(k)
  <2>1. k.attempt \in Attempts /\ DecisionOK(k.decision) /\ attempt[k.attempt].attached
    BY <1>1, <1>5 DEF CallOK, Joins
  <2>2. Marks(k, attempt) /\ k.to = MarkedOrder(k, order, attempt)
    BY <1>1, <1>5 DEF GoesOn
  <2>3. Agrees(k.to, Marked(k, attempt))
    BY <2>1, <2>2, MarkedAgrees DEF Sound, Typed
  <2> QED
    BY <1>5, <2>2, <2>3 DEF CallAgrees
<1>6. CASE k.at = "TAKEN" /\ Joins(k)
  <2>1. k.terminal = (order.status \in Closed) /\ k.actives = {x \in Attempts : Live(attempt[x])}
    BY <1>1, <1>2, <1>6 DEF GoesOn, CallAgrees, Joins
  <2>2. k.to = Ensured(k, order, Joined(k, attempt)) /\ k.fresh
    BY <1>1, <1>6 DEF GoesOn
  <2>3. FoundAs(k) /\ (k.decision.kind = "NONE" \/ k.row.status \in ActiveStatuses)
    BY <1>1, <1>6, FoundIs DEF CallOK, Joins
  <2>4. ASSUME ~attempt[k.attempt].attached, Agrees(order, attempt), ~Marks(k, Joined(k, attempt))
        PROVE  Agrees(k.to, Joined(k, attempt))
    BY <2>1, <2>2, <2>3, <2>4, EnsuredAgrees
  <2> QED
    BY <1>6, <2>1, <2>4 DEF CallAgrees
<1> QED
  BY <1>3, <1>4, <1>5, <1>6

LEMMA CommitAgrees ==
  ASSUME Sound, Accounted, NEW c \in Callers, Commit(c), ~overtaken'
  PROVE  Agrees(order', attempt')
<1>1. PICK k, b, w, l : CommitAs(c, k, b, w, l)
  BY Committing
<1>2. /\ k = call[c] /\ k \in Calls /\ k.at = "TAKEN" /\ k.attempt \in Attempts
      /\ b = Joined(k, attempt) /\ JoinsAs(k, b) /\ attempt' = Marked(k, b)
      /\ MarkedAs(k, b, attempt') /\ CallAgrees(k, order, attempt) /\ DecisionOK(k.decision)
  BY <1>1 DEF CommitAs, Accounted, CallOK
<1>3. PICK o : o = order'
  OBVIOUS
<1>4. PICK e : e = attempt'
  OBVIOUS
<1>5. b \in [Attempts -> RowTypes] /\ b[k.attempt].attached
  BY <1>2 DEF JoinsAs
<1>6. CASE Joins(k) /\ Marks(k, b)
  <2>1. o = MarkedOrder(k, k.to, b)
    BY <1>2, <1>3, <1>6 DEF Commit, Joins
  <2>2. Agrees(o, e)
    BY <1>2, <1>4, <1>5, <1>6, <2>1, MarkedAgrees
  <2> QED
    BY <1>3, <1>4, <2>2
<1>7. CASE ~(Joins(k) /\ Marks(k, b))
  <2>1. /\ order' = k.to /\ k.alone
        /\ Joins(k) => ~attempt[k.attempt].attached /\ ~overtaken
    BY <1>2, <1>7 DEF Commit, Joins
  <2>2. CASE ~Joins(k)
    BY <1>2, <2>1, <2>2 DEF CallAgrees, JoinsAs
  <2>3. CASE Joins(k)
    <3>1. ~Marks(k, b) /\ attempt' = b
      BY <1>2, <1>7, <2>3 DEF MarkedAs, Marks
    <3> QED
      BY <1>2, <2>1, <2>3, <3>1 DEF CallAgrees, Accounted
  <2> QED
    BY <2>2, <2>3
<1> QED
  BY <1>6, <1>7

LEMMA InsertAgrees ==
  ASSUME Sound, Accounted, NEW c \in Callers, NEW i \in Attempts, Insert(c, i), ~overtaken'
  PROVE  Agrees(order', attempt')
<1>1. /\ attempt[i].status = "ABSENT" /\ Wrote(attempt', {i}) /\ attempt'[i].credited = 0
      /\ \A x \in Attempts \ {i} : attempt'[x] = attempt[x]
  BY Inserting
<1>2. PICK a : a = attempt'
  OBVIOUS
<1>3. PICK o : o = order'
  OBVIOUS
<1>4. ~attempt[i].attached
  BY <1>1 DEF Sound, RowOK
<1>5. a \in [Attempts -> RowTypes]
  BY <1>1, <1>2 DEF Wrote
<1>6. Funded(a) = Funded(attempt) /\ \A x \in Funded(a) : a[x] = attempt[x]
  BY <1>1, <1>2, <1>4 DEF Funded
<1>7. Credit(a) = Credit(attempt)
  BY <1>6, CreditAgrees
<1>8. Agrees(order, attempt)
  BY DEF Accounted, Insert, ghosts
<1>9. Agrees(order, a)
  BY <1>6, <1>7, <1>8 DEF Agrees
<1>10. o = order \/ (order.status \in {"ABSENT", "PENDING", "EXPIRED"} /\ o = NewOrder)
  BY <1>3 DEF Insert
<1>11. CASE order.status \in {"ABSENT", "PENDING", "EXPIRED"} /\ o = NewOrder
  <2>1. Funded(a) = {}
    BY <1>9, <1>11 DEF Agrees
  <2>2. Credit(a) = 0
    BY <1>5, <2>1, CreditOf
  <2> QED
    BY <1>2, <1>3, <1>11, <2>1, <2>2 DEF Agrees, NewOrder
<1> QED
  BY <1>2, <1>3, <1>9, <1>10, <1>11

LEMMA StillAccounted ==
  ASSUME Sound, Accounted, ~overtaken' => Agrees(order', attempt'),
         NEW w, Wrote(attempt', w), call' \in [Callers -> Calls],
         \A x \in Callers : \/ OutdatedAs(call[x], call'[x], order', attempt', w)
                            \/ CallAgrees(call'[x], order', attempt')
  PROVE  Accounted'
<1>1. PICK o : o = order'
  OBVIOUS
<1>2. PICK a : a = attempt'
  OBVIOUS
<1>3. ASSUME NEW x \in Callers, OutdatedAs(call[x], call'[x], order', attempt', w)
      PROVE  CallAgrees(call'[x], order', attempt')
  <2>1. PICK l : l = call'[x]
    OBVIOUS
  <2>2. /\ l \in Calls /\ call[x] \in Calls /\ CallOK(call[x], attempt, now)
        /\ CallAgrees(call[x], order, attempt)
    BY <2>1 DEF Sound, Typed, Accounted
  <2>3. OutdatedAs(call[x], l, o, a, w) /\ Wrote(a, w)
    BY <1>1, <1>2, <1>3, <2>1
  <2>4. CallAgrees(l, o, a)
    BY <2>2, <2>3, KeptAgrees
  <2> QED
    BY <1>1, <1>2, <2>1, <2>4
<1> QED
  BY <1>3 DEF Accounted

\* What goes to rest holds nothing to agree with.
LEMMA IdleAgrees ==
  ASSUME NEW l, IdleAs(l), NEW o, NEW a
  PROVE  CallAgrees(l, o, a)
BY DEF IdleAs, CallAgrees

LEMMA AccountedInit == Init => Accounted
<1> SUFFICES ASSUME Init PROVE Accounted
  OBVIOUS
<1>1. Sound
  BY SoundInit
<1>2. order.status = "ABSENT" /\ order.credited = 0
  BY DEF Init
<1>3. PICK r : r = Absent
  OBVIOUS
<1>4. r.credited = 0 /\ attempt = [i \in Attempts |-> r]
  BY <1>3, AbsentIs DEF Init
<1>5. Funded(attempt) = {}
  BY <1>4 DEF Funded
<1>6. Credit(attempt) = 0
  BY <1>1, <1>5, CreditOf DEF Sound, Typed
<1>7. Agrees(order, attempt)
  BY <1>2, <1>5, <1>6 DEF Agrees
<1>8. \A c \in Callers : IdleAs(call[c])
  BY RestingIs DEF Init, IdleAs
<1> QED
  BY <1>7, <1>8, IdleAgrees DEF Accounted

LEMMA AccountedStep == Sound /\ Accounted /\ [Next]_vars => Accounted'
<1> SUFFICES ASSUME Sound, Accounted, [Next]_vars PROVE Accounted'
  OBVIOUS
<1>1. ASSUME NEW c \in Callers, ReadStep(c)
      PROVE  Accounted'
  <2>1. PICK k : Reads(c, k)
    BY <1>1, ReadingRows
  <2>2. order' = order /\ attempt' = attempt /\ overtaken' = overtaken
    BY <1>1, ReadingRows DEF rows
  <2>3. Moved(c, k, {}) /\ CallAgrees(k, order', attempt')
    BY <2>1, <2>2, TakenAgrees DEF Reads, Moved
  <2>4. Wrote(attempt', {})
    BY <2>2 DEF Wrote, Evolves, Sound, Typed
  <2>5. ~overtaken' => Agrees(order', attempt')
    BY <2>2 DEF Accounted
  <2> QED
    BY <2>3, <2>4, <2>5, StillAccounted DEF Moved
<1>2. ASSUME NEW c \in Callers, NEW l, NEW w, IdleAs(l), Moved(c, l, w), Wrote(attempt', w),
             ~overtaken' => Agrees(order', attempt')
      PROVE  Accounted'
  <2>1. PICK o : o = order'
    OBVIOUS
  <2>2. PICK a : a = attempt'
    OBVIOUS
  <2>3. CallAgrees(l, o, a)
    BY <1>2, IdleAgrees
  <2>4. \A x \in Callers : \/ OutdatedAs(call[x], call'[x], order', attempt', w)
                           \/ CallAgrees(call'[x], order', attempt')
    BY <1>2, <2>1, <2>2, <2>3 DEF Moved
  <2> QED
    BY <1>2, <2>4, StillAccounted DEF Moved
<1>3. ASSUME NEW c \in Callers, Commit(c)
      PROVE  Accounted'
  <2>1. PICK k, b, w, l : CommitAs(c, k, b, w, l)
    BY <1>3, Committing
  <2>2. ~overtaken' => Agrees(order', attempt')
    BY <1>3, CommitAgrees
  <2> QED
    BY <1>2, <2>1, <2>2 DEF CommitAs
<1>4. ASSUME NEW c \in Callers, NEW i \in Attempts, Insert(c, i)
      PROVE  Accounted'
  <2>1. Wrote(attempt', {i})
    BY <1>4, Inserting
  <2>2. PICK l : IdleAs(l) /\ Moved(c, l, {i})
    BY <1>4, Inserting
  <2>3. ~overtaken' => Agrees(order', attempt')
    BY <1>4, InsertAgrees
  <2> QED
    BY <1>2, <2>1, <2>2, <2>3
<1>5. ASSUME NEW w, Stays(w), Wrote(attempt', w), order' = order, overtaken' = overtaken,
             SameBook(attempt, attempt')
      PROVE  Accounted'
  <2>1. PICK a : a = attempt'
    OBVIOUS
  <2>2. attempt \in [Attempts -> RowTypes] /\ a \in [Attempts -> RowTypes] /\ SameBook(attempt, a)
    BY <1>5, <2>1 DEF Sound, Typed, Wrote
  <2>3. Agrees(order, attempt) => Agrees(order, a)
    BY <2>2, SameBookAgrees
  <2>4. ~overtaken' => Agrees(order', attempt')
    BY <1>5, <2>1, <2>3 DEF Accounted
  <2> QED
    BY <1>5, <2>4, StillAccounted DEF Stays
<1>6. ASSUME NEW i \in Attempts, OldInsert(i) \/ OldSettle(i)
      PROVE  Accounted'
  <2>1. Stays({i}) /\ Wrote(attempt', {i}) /\ \A x \in Attempts \ {i} : attempt'[x] = attempt[x]
    BY <1>6, OldInserting, OldSettling
  <2>2. order' = order /\ overtaken' = overtaken
    BY <1>6 DEF OldInsert, OldSettle, ghosts
  <2>3. ~attempt[i].attached /\ ~attempt'[i].attached
    <3>1. CASE OldInsert(i)
      BY <3>1, OldInserting DEF Sound, RowOK
    <3>2. CASE OldSettle(i)
      BY <3>2, OldSettling DEF OldWrittenAs
    <3> QED
      BY <1>6, <3>1, <3>2
  <2>4. SameBook(attempt, attempt')
    BY <2>1, <2>3 DEF SameBook
  <2> QED
    BY <1>5, <2>1, <2>2, <2>4
<1>7. CASE Tick \/ UNCHANGED vars \/ \E t \in Transfers : Pay(t)
  <2>1. UNCHANGED <<rows, call>> /\ overtaken' = overtaken
    BY <1>7 DEF Tick, vars, Pay, rows, ghosts
  <2>2. order' = order /\ SameBook(attempt, attempt')
    BY <2>1 DEF rows, SameBook
  <2> QED
    BY <1>5, <2>1, <2>2, NobodyMoves
<1> QED
  BY <1>1, <1>3, <1>4, <1>6, <1>7, Splitting

LEMMA AlwaysAccounted == Spec => [](Sound /\ Accounted)
<1>1. Init => Sound /\ Accounted
  BY SoundInit, AccountedInit
<1>2. Sound /\ Accounted /\ [Next]_vars => (Sound /\ Accounted)'
  BY SoundStep, AccountedStep
<1> QED
  BY <1>1, <1>2, PTL DEF Spec

\* An order agrees with its attempts, although the transactions of several requests
\* interleave at every read and attempts join it late: its credit is what
\* summarizeOrderAttemptCredits makes of them, PAID means one paid attempt alone, and
\* syncOrderFromAttempts and ensureInvoiceOrder leave every other payment to an
\* operator.  The exception is an order written from reads that another transaction
\* had overtaken, and it lasts until the next one that recomputes the order.
THEOREM OrderIsAccounted == Spec => []OrderMatchesAttempts
<1>1. Accounted => OrderMatchesAttempts
  BY DEF Accounted, Agrees, OrderMatchesAttempts
<1> QED
  BY <1>1, AlwaysAccounted, PTL
-----------------------------------------------------------------------------
(* History: rows and calls remember.                                        *)

RowRemembers(i, r) ==
  /\ RowKnows(chain, i, r)
  /\ r.status = "EXPIRED" => Missed(chain, i, r.createdAt, now)

\* No call is about an attempt that has not been made.
LEMMA CallsRemember ==
  ASSUME Sound, NEW i \in Attempts, CallsKnow(chain, i, attempt[i].createdAt, now, call),
         NEW t, t = attempt[i].createdAt \/ attempt[i].status = "ABSENT"
  PROVE  CallsKnow(chain, i, t, now, call)
<1>1. CASE t = attempt[i].createdAt
  BY <1>1
<1>2. CASE attempt[i].status = "ABSENT"
  <2>1. ASSUME NEW x \in Callers, call[x].attempt = i
        PROVE  CallKnows(chain, i, t, now, call[x])
    <3>1. CallOK(call[x], attempt, now)
      BY DEF Sound
    <3>2. call[x].at \notin {"SEEN", "DECIDED"} \cup Transaction
      BY <1>2, <2>1, <3>1 DEF CallOK
    <3> QED
      BY <3>2 DEF CallKnows
  <2> QED
    BY <2>1 DEF CallsKnow
<1> QED
  BY <1>1, <1>2

LEMMA Remembered ==
  ASSUME History, NEW i \in Attempts, Known(i)
  PROVE  RowRemembers(i, attempt[i]) /\ CallsKnow(chain, i, attempt[i].createdAt, now, call)
BY DEF History, Remembers, RowRemembers

LEMMA StillRemembers ==
  ASSUME Sound, History, UNCHANGED <<now, chain>>, late => late', NEW w, Wrote(attempt', w),
         \A i \in Attempts : ~late' /\ Known(i) => RowRemembers(i, attempt'[i]),
         \A x \in Callers :
           \/ OutdatedAs(call[x], call'[x], order', attempt', w)
           \/ \A i \in Attempts : ~late' /\ Known(i) /\ call'[x].attempt = i =>
                CallKnows(chain, i, attempt'[i].createdAt, now, call'[x])
  PROVE  History'
<1>1. ASSUME NEW i \in Attempts, Known(i)'
      PROVE  Remembers(i)'
  <2>1. Known(i) /\ ~late'
    BY <1>1 DEF Known, Undisputed
  <2>2. PICK t : t = attempt'[i].createdAt
    OBVIOUS
  <2>3. t = attempt[i].createdAt \/ attempt[i].status = "ABSENT"
    BY <2>2 DEF Wrote, Evolves
  <2>4. CallsKnow(chain, i, attempt[i].createdAt, now, call)
    BY <2>1, Remembered
  <2>5. CallsKnow(chain, i, t, now, call)
    BY <2>3, <2>4, CallsRemember
  <2>6. ASSUME NEW x \in Callers, call'[x].attempt = i
        PROVE  CallKnows(chain, i, t, now, call'[x])
    <3>1. CASE OutdatedAs(call[x], call'[x], order', attempt', w)
      <4>1. PICK l : l = call'[x]
        OBVIOUS
      <4>2. PICK o : o = order'
        OBVIOUS
      <4>3. PICK a : a = attempt'
        OBVIOUS
      <4>4. OutdatedAs(call[x], l, o, a, w) /\ call[x].attempt = i
        BY <2>6, <3>1, <4>1, <4>2, <4>3 DEF OutdatedAs
      <4>5. CallKnows(chain, i, t, now, call[x])
        BY <2>5, <4>4 DEF CallsKnow
      <4>6. CallKnows(chain, i, t, now, l)
        BY <4>4, <4>5, KeptKnows
      <4> QED
        BY <4>1, <4>6
    <3>2. CASE ~OutdatedAs(call[x], call'[x], order', attempt', w)
      BY <2>1, <2>2, <2>6, <3>2
    <3> QED
      BY <3>1, <3>2
  <2>7. RowRemembers(i, attempt'[i])
    BY <2>1
  <2> QED
    BY <2>2, <2>6, <2>7 DEF Remembers, RowRemembers, CallsKnow
<1> QED
  BY <1>1 DEF History

\* What a call has just read or decided it knows.
LEMMA DecidedKnows ==
  ASSUME Sound, History, NEW c \in Callers, NEW k, NEW ts, DecidedOn(c, k, ts),
         NEW i \in Attempts, ~late', Known(i), k.attempt = i
  PROVE  CallKnows(chain, i, attempt[i].createdAt, now, k)
<1>1. PICK j : j = call[c]
  OBVIOUS
<1>2. PICK r : r = j.row
  OBVIOUS
<1>3. PICK at : at = j.now
  OBVIOUS
<1>4. PICK d : d = k.decision
  OBVIOUS
<1>5. i = j.attempt /\ j.at = "SEEN" /\ j \in Calls /\ CallOK(j, attempt, now)
  BY <1>1, Held DEF DecidedOn, At
<1>6. /\ r \in RowTypes /\ RowOK(r)
      /\ r.createdAt = attempt[i].createdAt /\ at \in Nat /\ at <= now
  BY <1>2, <1>3, <1>5 DEF CallOK, Calls
<1>7. RowKnows(chain, i, r)
  <2>1. CallKnows(chain, i, attempt[i].createdAt, now, j)
    BY <1>1, <1>5, Remembered DEF CallsKnow
  <2> QED
    BY <1>2, <1>5, <2>1 DEF CallKnows
<1>8. DecidesAs(d, r, at, VisibleTo(i, r, at))
  BY <1>1, <1>2, <1>3, <1>4, <1>5 DEF DecidedOn, Known
<1>9. DecisionKnows(chain, i, r.createdAt, now, d)
  BY <1>6, <1>7, <1>8, DecisionIsRight DEF Sound
<1>10. k.at = "DECIDED"
  BY DEF DecidedOn
<1> QED
  BY <1>4, <1>6, <1>9, <1>10 DEF CallKnows, Transaction

LEMMA ReadKnows ==
  ASSUME Sound, History, NEW c \in Callers, ReadStep(c), NEW k, ReadsOn(c, k),
         NEW i \in Attempts, ~late', Known(i), k.attempt = i
  PROVE  CallKnows(chain, i, attempt[i].createdAt, now, k)
<1>1. RowRemembers(i, attempt[i]) /\ CallsKnow(chain, i, attempt[i].createdAt, now, call)
  BY Remembered
<1>2. CASE IdleAs(k)
  BY <1>2 DEF IdleAs, CallKnows, Transaction
<1>3. CASE SeenAs(k)
  BY <1>1, <1>3 DEF SeenAs, CallKnows, Transaction, RowRemembers
<1>4. CASE LooseAs(k)
  BY <1>1, <1>4, RestingIs DEF LooseAs, CallKnows, DecisionKnows, RowRemembers
<1>5. CASE \E ts : DecidedOn(c, k, ts)
  BY <1>5, DecidedKnows
<1>6. CASE BegunOn(c, k)
  <2>1. call[c].at \in {"DECIDED", "JOINING"} /\ call[c].attempt = i /\ k.decision = call[c].decision
    BY <1>6 DEF BegunOn, At
  <2>2. CallKnows(chain, i, attempt[i].createdAt, now, call[c])
    BY <1>1, <2>1 DEF CallsKnow
  <2>3. DecisionKnows(chain, i, attempt[i].createdAt, now, k.decision)
    BY <2>1, <2>2 DEF CallKnows, Transaction
  <2> QED
    BY <1>6, <2>3 DEF BegunOn, CallKnows, ActiveStatuses
<1>7. CASE GoesOn(c, k)
  <2>1. /\ call[c].at \in Transaction /\ call[c].attempt = i /\ k.decision = call[c].decision
        /\ k.row = call[c].row /\ k.at \in Transaction
    BY <1>7 DEF GoesOn
  <2>2. CallKnows(chain, i, attempt[i].createdAt, now, call[c])
    BY <1>1, <2>1 DEF CallsKnow
  <2> QED
    BY <2>1, <2>2 DEF CallKnows, Joins, Transaction
<1> QED
  BY <1>2, <1>3, <1>4, <1>5, <1>6, <1>7 DEF ReadsOn

LEMMA SameRemembers ==
  ASSUME NEW i, NEW r, NEW s, RowRemembers(i, r), SameFacts(r, s),
         s.status = "EXPIRED" => r.status = "EXPIRED" \/ Missed(chain, i, r.createdAt, now)
  PROVE  RowRemembers(i, s)
BY DEF RowRemembers, RowKnows, SameFacts

\* An attempt that joins brings what is known of it.
LEMMA JoinedRemembers ==
  ASSUME Sound, History, NEW c \in Callers, NEW k, k = call[c], k.at = "TAKEN",
         NEW b, JoinsAs(k, b), NEW i \in Attempts, Known(i)
  PROVE  RowRemembers(i, b[i]) /\ b[i].createdAt = attempt[i].createdAt
<1>1. RowRemembers(i, attempt[i]) /\ CallsKnow(chain, i, attempt[i].createdAt, now, call)
  BY Remembered
<1>2. CASE b = attempt
  BY <1>1, <1>2
<1>3. CASE Joins(k) /\ JoinedAs(k, attempt, b) /\ i # k.attempt
  <2>1. SameFacts(attempt[i], b[i]) /\ (b[i].status = "EXPIRED" => attempt[i].status = "EXPIRED")
    BY <1>3 DEF JoinedAs, GivesUp, SameFacts
  <2>2. RowRemembers(i, b[i])
    BY <1>1, <2>1, SameRemembers
  <2> QED
    BY <2>1, <2>2 DEF SameFacts
<1>4. CASE Joins(k) /\ JoinedAs(k, attempt, b) /\ i = k.attempt
  <2>1. OwnAs(k, attempt[i], b[i])
    BY <1>4 DEF JoinedAs
  <2>2. k.row.status = "EXPIRED" => Missed(chain, i, attempt[i].createdAt, now)
    <3>1. CallKnows(chain, i, attempt[i].createdAt, now, k)
      BY <1>1, <1>4 DEF CallsKnow
    <3> QED
      BY <1>4, <3>1 DEF CallKnows, Transaction
  <2>3. SameFacts(attempt[i], b[i])
    BY <2>1 DEF OwnAs
  <2>4. b[i].status = "EXPIRED" => attempt[i].status = "EXPIRED" \/ k.row.status = "EXPIRED"
    BY <2>1 DEF OwnAs, AttachedAs
  <2>5. RowRemembers(i, b[i])
    BY <1>1, <2>2, <2>3, <2>4, SameRemembers
  <2> QED
    BY <2>3, <2>5 DEF SameFacts
<1> QED
  BY <1>2, <1>3, <1>4 DEF JoinsAs

\* A transaction writes what its decision knows.
LEMMA MarkedRemembers ==
  ASSUME Sound, NEW k \in Calls, k.attempt \in Attempts,
         NEW b, b \in [Attempts -> RowTypes], RowOK(b[k.attempt]),
         NEW e, MarkedAs(k, b, e), NEW i \in Attempts, RowRemembers(i, b[i]),
         k.attempt = i => DecisionKnows(chain, i, b[i].createdAt, now, k.decision)
  PROVE  RowRemembers(i, e[i])
<1>1. CASE e[i] = b[i]
  BY <1>1
<1>2. PICK r \in RowTypes : r = b[i]
  OBVIOUS
<1>3. PICK s : s = e[i]
  OBVIOUS
<1>4. PICK d : d = k.decision
  OBVIOUS
<1>5. k.attempt = i => DecisionKnows(chain, i, r.createdAt, now, d) /\ RowOK(r)
  BY <1>2, <1>4
<1>6. RowRemembers(i, r)
  BY <1>2
<1>7. CASE k.attempt = i /\ WrittenAs(s, r, d)
  <2>1. /\ s.status = d.kind /\ s.createdAt = r.createdAt
        /\ d.kind = "PARTIAL" => s.start = d.start /\ s.until = d.until
        /\ d.kind # "PARTIAL" => s.start = r.start /\ s.until = r.until
    BY <1>7 DEF WrittenAs
  <2>2. RowRemembers(i, s)
    BY <1>5, <1>6, <1>7, <2>1 DEF RowRemembers, RowKnows, DecisionKnows
  <2> QED
    BY <1>3, <2>2
<1>8. CASE k.attempt = i /\ RecoveredAs(s, r, d)
  <2>1. /\ s.status = "FAILED" /\ s.createdAt = r.createdAt
        /\ s.start = IF r.start = NoTime /\ d.kind = "PARTIAL" THEN d.start ELSE r.start
        /\ s.until = IF r.until = NoTime /\ d.kind = "PARTIAL" THEN d.until ELSE r.until
    BY <1>8 DEF RecoveredAs
  <2>2. r.start = NoTime => r.until = NoTime
    BY <1>5, <1>8 DEF RowOK
  <2>3. r.start # NoTime => r.until # NoTime
    <3>1. r.createdAt \in Nat /\ chain \in Chains
      BY DEF RowTypes, Sound, Typed, World, Chains
    <3>2. First(chain, i, r.createdAt) # {} => End(chain, i, r.createdAt) \in Nat
      BY <3>1, Windows
    <3> QED
      BY <1>6, <3>2 DEF RowRemembers, RowKnows, Opened, NoTime
  <2>4. RowKnows(chain, i, s)
    <3>1. CASE r.start # NoTime
      BY <1>6, <2>1, <2>3, <3>1 DEF RowRemembers, RowKnows
    <3>2. CASE r.start = NoTime /\ d.kind = "PARTIAL"
      BY <1>5, <1>8, <2>1, <2>2, <3>2 DEF DecisionKnows, RowKnows
    <3>3. CASE r.start = NoTime /\ d.kind # "PARTIAL"
      BY <2>1, <3>3 DEF RowKnows
    <3> QED
      BY <3>1, <3>2, <3>3
  <2>5. RowRemembers(i, s)
    BY <2>1, <2>4 DEF RowRemembers
  <2> QED
    BY <1>3, <2>5
<1> QED
  BY <1>1, <1>2, <1>3, <1>4, <1>7, <1>8 DEF MarkedAs

LEMMA CommitRemembers ==
  ASSUME Sound, History, NEW c \in Callers, Commit(c)
  PROVE  History'
<1>1. PICK k, b, w, l : CommitAs(c, k, b, w, l)
  BY Committing
<1>2. UNCHANGED <<now, chain, late>>
  BY DEF Commit
<1>3. /\ k = call[c] /\ k \in Calls /\ k.at = "TAKEN" /\ k.attempt \in Attempts
      /\ JoinsAs(k, b) /\ Wrote(attempt', w) /\ IdleAs(l) /\ Moved(c, l, w)
      /\ b \in [Attempts -> RowTypes] /\ b = Joined(k, attempt) /\ CallOK(k, attempt, now)
  BY <1>1 DEF CommitAs, JoinsAs
<1>4. RowOK(b[k.attempt])
  BY <1>3, JoinedSound
<1>5. PICK e : e = attempt'
  OBVIOUS
<1>6. MarkedAs(k, b, e)
  BY <1>1, <1>5 DEF CommitAs
<1>7. ASSUME NEW i \in Attempts, Known(i)
      PROVE  RowRemembers(i, e[i])
  <2>1. RowRemembers(i, b[i]) /\ b[i].createdAt = attempt[i].createdAt
    BY <1>3, <1>7, JoinedRemembers
  <2>2. ASSUME k.attempt = i
        PROVE  DecisionKnows(chain, i, b[i].createdAt, now, k.decision)
    <3>1. CallKnows(chain, i, attempt[i].createdAt, now, k)
      BY <1>3, <1>7, <2>2, Remembered DEF CallsKnow
    <3> QED
      BY <1>3, <2>1, <3>1 DEF CallKnows, Transaction
  <2> QED
    BY <1>3, <1>4, <1>6, <2>1, <2>2, MarkedRemembers
<1>8. ASSUME NEW x \in Callers
      PROVE  \/ OutdatedAs(call[x], call'[x], order', attempt', w)
             \/ \A i \in Attempts : ~late' /\ Known(i) /\ call'[x].attempt = i =>
                  CallKnows(chain, i, attempt'[i].createdAt, now, call'[x])
  <2>1. CASE x = c
    BY <1>3, <2>1 DEF Moved, IdleAs, CallKnows, Transaction
  <2>2. CASE x # c
    BY <1>3, <2>2 DEF Moved
  <2> QED
    BY <2>1, <2>2
<1>9. \A i \in Attempts : Known(i) => RowRemembers(i, attempt'[i])
  BY <1>5, <1>7
<1> QED
  BY <1>2, <1>3, <1>8, <1>9, StillRemembers

LEMMA ReadRemembers ==
  ASSUME Sound, History, NEW c \in Callers, ReadStep(c)
  PROVE  History'
<1>1. PICK k : Reads(c, k)
  BY ReadingRows
<1>2. UNCHANGED <<now, chain, rows>> /\ (late => late')
  BY ReadingRows
<1>3. attempt' = attempt /\ order' = order
  BY <1>2 DEF rows
<1>4. Wrote(attempt', {})
  BY <1>3 DEF Wrote, Evolves, Sound, Typed
<1>5. ReadsOn(c, k) /\ Moved(c, k, {})
  BY <1>1 DEF Reads
<1>6. ASSUME NEW x \in Callers
      PROVE  \/ OutdatedAs(call[x], call'[x], order', attempt', {})
             \/ \A i \in Attempts : ~late' /\ Known(i) /\ call'[x].attempt = i =>
                  CallKnows(chain, i, attempt'[i].createdAt, now, call'[x])
  <2>1. CASE x = c
    <3>1. call'[x] = k
      BY <1>5, <2>1 DEF Moved
    <3>2. \A i \in Attempts : ~late' /\ Known(i) /\ k.attempt = i =>
            CallKnows(chain, i, attempt[i].createdAt, now, k)
      BY <1>5, ReadKnows
    <3> QED
      BY <1>3, <3>1, <3>2
  <2>2. CASE x # c
    BY <1>5, <2>2 DEF Moved
  <2> QED
    BY <2>1, <2>2
<1>7. \A i \in Attempts : ~late' /\ Known(i) => RowRemembers(i, attempt'[i])
  BY <1>3, Remembered
<1> QED
  BY <1>2, <1>4, <1>6, <1>7, StillRemembers

LEMMA InsertRemembers ==
  ASSUME Sound, History, NEW i \in Attempts, (\E c \in Callers : Insert(c, i)) \/ OldInsert(i)
  PROVE  History'
<1>1. UNCHANGED <<now, chain, late>>
  BY DEF Insert, OldInsert, ghosts
<1>2. /\ Wrote(attempt', {i}) /\ \A x \in Attempts \ {i} : attempt'[x] = attempt[x]
      /\ attempt'[i].status = "PENDING" /\ attempt'[i].start = NoTime
  BY Inserting, OldInserting
<1>3. ASSUME NEW x \in Attempts, Known(x)
      PROVE  RowRemembers(x, attempt'[x])
  <2>1. CASE x = i
    BY <1>2, <2>1 DEF RowRemembers, RowKnows
  <2>2. CASE x # i
    BY <1>2, <1>3, <2>2, Remembered
  <2> QED
    BY <2>1, <2>2
<1>4. ASSUME NEW x \in Callers
      PROVE  \/ OutdatedAs(call[x], call'[x], order', attempt', {i})
             \/ IdleAs(call'[x])
  <2>1. CASE OldInsert(i)
    BY <2>1, OldInserting DEF Stays
  <2>2. ASSUME NEW c \in Callers, Insert(c, i)
        PROVE  \/ OutdatedAs(call[x], call'[x], order', attempt', {i})
               \/ IdleAs(call'[x])
    <3>1. PICK l : IdleAs(l) /\ Moved(c, l, {i})
      BY <2>2, Inserting
    <3>2. CASE x = c
      BY <3>1, <3>2 DEF Moved
    <3>3. CASE x # c
      BY <3>1, <3>3 DEF Moved
    <3> QED
      BY <3>2, <3>3
  <2> QED
    BY <2>1, <2>2
<1>5. ASSUME NEW x \in Callers, IdleAs(call'[x])
      PROVE  \A y \in Attempts : CallKnows(chain, y, attempt'[y].createdAt, now, call'[x])
  BY <1>5 DEF IdleAs, CallKnows, Transaction
<1> QED
  BY <1>1, <1>2, <1>3, <1>4, <1>5, StillRemembers

LEMMA OldSettleRemembers ==
  ASSUME Sound, History, NEW i \in Attempts, OldSettle(i)
  PROVE  History'
<1>1. UNCHANGED <<now, chain, late>>
  BY DEF OldSettle, ghosts
<1>2. PICK row : row = attempt'[i]
  OBVIOUS
<1>3. /\ Wrote(attempt', {i}) /\ Stays({i})
      /\ \A x \in Attempts \ {i} : attempt'[x] = attempt[x]
      /\ \E d : OldWrittenAs(i, row, d)
  BY <1>2, OldSettling
<1>4. PICK d : OldWrittenAs(i, row, d)
  BY <1>3
<1>5. PICK r : r = attempt[i]
  OBVIOUS
<1>6. r \in RowTypes /\ RowOK(r) /\ now \in Nat /\ now <= now /\ DecidesAs(d, r, now, VisibleTo(i, r, now))
  BY <1>4, <1>5 DEF OldWrittenAs, Sound, Typed, World
<1>7. ASSUME Known(i)
      PROVE  RowRemembers(i, row)
  <2>1. RowKnows(chain, i, r)
    BY <1>5, <1>7, Remembered DEF RowRemembers
  <2>2. PICK n : n = now
    OBVIOUS
  <2>3. DecisionKnows(chain, i, r.createdAt, n, d)
    BY <1>6, <2>1, <2>2, DecisionIsRight DEF Sound
  <2>4. /\ row.status = d.kind /\ row.createdAt = r.createdAt
        /\ IF d.kind = "PARTIAL" THEN row.start = d.start /\ row.until = d.until
           ELSE row.start = r.start /\ row.until = r.until
    BY <1>4, <1>5 DEF OldWrittenAs
  <2> QED
    BY <2>1, <2>2, <2>3, <2>4 DEF RowRemembers, RowKnows, DecisionKnows
<1>8. \A x \in Attempts : ~late' /\ Known(x) => RowRemembers(x, attempt'[x])
  BY <1>2, <1>3, <1>7, Remembered
<1>9. \A x \in Callers : OutdatedAs(call[x], call'[x], order', attempt', {i})
  BY <1>3 DEF Stays
<1> QED
  BY <1>1, <1>3, <1>8, <1>9, StillRemembers

LEMMA NothingRemembers ==
  ASSUME Sound, History, UNCHANGED vars
  PROVE  History'
<1>1. UNCHANGED <<now, chain, late, rows, call, attempt>>
  BY DEF vars, ghosts, rows
<1>2. Stays({}) /\ Wrote(attempt', {})
  BY <1>1, NobodyMoves
<1>3. \A i \in Attempts : Known(i) => RowRemembers(i, attempt'[i])
  BY <1>1, Remembered
<1> QED
  BY <1>1, <1>2, <1>3, StillRemembers DEF Stays

\* Time and payers change nothing that is remembered.
LEMMA WorldRemembers ==
  ASSUME Sound, History, (\E t \in Transfers : Pay(t)) \/ Tick
  PROVE  History'
<1>1. UNCHANGED <<attempt, call, late>>
  BY DEF Pay, Tick, rows, ghosts
<1>2. chain \in Chains /\ now \in Nat /\ (\A u \in Transfers : chain[u] <= now)
  BY DEF Sound, Typed, World, Chains
<1>3. ASSUME NEW i \in Attempts
      PROVE  /\ Undisputed(i)' => Undisputed(i)
             /\ \A c \in Nat :
                  /\ \A start, until : Opened(chain, i, c, start, until) => Opened(chain', i, c, start, until)
                  /\ Missed(chain, i, c, now) => Missed(chain', i, c, now')
  <2>1. CASE Tick
    <3>1. chain' = chain /\ now' \in Nat /\ now <= now'
      BY <1>2, <2>1 DEF Tick
    <3>2. \A c \in Nat : Missed(chain, i, c, now) => Missed(chain, i, c, now')
      BY <1>2, <3>1, TickKeeps
    <3> QED
      BY <3>1, <3>2 DEF Undisputed
  <2>2. ASSUME NEW t \in Transfers, Pay(t)
        PROVE  /\ Undisputed(i)' => Undisputed(i)
               /\ \A c \in Nat :
                    /\ \A start, until : Opened(chain, i, c, start, until) => Opened(chain', i, c, start, until)
                    /\ Missed(chain, i, c, now) => Missed(chain', i, c, now')
    <3>1. chain[t] = NoTime /\ chain' = [chain EXCEPT ![t] = now] /\ now' = now
      BY <2>2 DEF Pay
    <3>2. PICK dh : dh = chain'
      OBVIOUS
    <3>3. \A c \in Nat :
            /\ \A start, until : Opened(chain, i, c, start, until) => Opened(dh, i, c, start, until)
            /\ Missed(chain, i, c, now) => Missed(dh, i, c, now)
      BY <1>2, <3>1, <3>2, PayKeeps
    <3>4. \A u \in Transfers : chain[u] # NoTime => chain'[u] # NoTime
      BY <1>2, <3>1 DEF Chains, NoTime
    <3> QED
      BY <3>1, <3>2, <3>3, <3>4 DEF Undisputed
  <2> QED
    BY <2>1, <2>2
<1>4. ASSUME NEW i \in Attempts, Known(i)'
      PROVE  Remembers(i)'
  <2>1. Known(i)
    BY <1>1, <1>3, <1>4 DEF Known
  <2>2. RowRemembers(i, attempt[i]) /\ CallsKnow(chain, i, attempt[i].createdAt, now, call)
    BY <2>1, Remembered
  <2>3. attempt[i] \in RowTypes /\ attempt[i].createdAt \in Nat
    BY DEF Sound, Typed, RowTypes
  <2>4. RowKnows(chain', i, attempt[i])
    BY <1>3, <2>2, <2>3 DEF RowRemembers, RowKnows
  <2>5. attempt[i].status = "EXPIRED" => Missed(chain', i, attempt[i].createdAt, now')
    BY <1>3, <2>2, <2>3 DEF RowRemembers
  <2>6. ASSUME NEW x \in Callers, call[x].attempt = i
        PROVE  CallKnows(chain', i, attempt[i].createdAt, now', call[x])
    <3>1. PICK k \in Calls : k = call[x]
      BY DEF Sound, Typed
    <3>2. CallKnows(chain, i, attempt[i].createdAt, now, k) /\ k.row.createdAt \in Nat
      BY <2>2, <2>6, <3>1 DEF CallsKnow, Calls, RowTypes
    <3>3. CallKnows(chain', i, attempt[i].createdAt, now', k)
      BY <1>3, <2>3, <3>2 DEF CallKnows, RowKnows, DecisionKnows
    <3> QED
      BY <3>1, <3>3
  <2> QED
    BY <1>1, <2>4, <2>5, <2>6 DEF Remembers, CallsKnow
<1> QED
  BY <1>4 DEF History

LEMMA HistoryStep == Sound /\ History /\ [Next]_vars => History'
<1> SUFFICES ASSUME Sound, History, [Next]_vars PROVE History'
  OBVIOUS
<1>1. ASSUME NEW c \in Callers, ReadStep(c) \/ Commit(c) \/ \E i \in Attempts : Insert(c, i)
      PROVE  History'
  BY <1>1, ReadRemembers, CommitRemembers, InsertRemembers
<1>2. ASSUME NEW i \in Attempts, OldInsert(i) \/ OldSettle(i)
      PROVE  History'
  BY <1>2, InsertRemembers, OldSettleRemembers
<1> QED
  BY <1>1, <1>2, WorldRemembers, NothingRemembers, Splitting

\* No attempt expires that was paid in time, in whatever order requests read the
\* attempt, ask for its transfers, decide and write: settleTonhubInvoice and
\* markInvoiceExpired may act on what they read long ago, but the window that a
\* first transfer opens does not move, and one that is over gets nothing more.
THEOREM NoPaidAttemptExpires == Spec => []ExpiryIsDeserved
<1>1. Init => History
  <2> SUFFICES ASSUME Init PROVE History
    OBVIOUS
  <2>1. PICK r : r = Absent
    OBVIOUS
  <2>2. r.status = "ABSENT" /\ r.start = NoTime /\ attempt = [i \in Attempts |-> r]
    BY <2>1, AbsentIs DEF Init
  <2>3. PICK k : k = Resting
    OBVIOUS
  <2>4. k.at = "IDLE" /\ call = [c \in Callers |-> k]
    BY <2>3, RestingIs DEF Init
  <2> QED
    BY <2>2, <2>4 DEF History, Remembers, RowKnows, CallsKnow, CallKnows, Transaction
<1>2. Spec => []History
  BY <1>1, AlwaysSound, HistoryStep, PTL DEF Spec
<1>3. History => ExpiryIsDeserved
  <2> SUFFICES ASSUME History, ~late, NEW i \in Attempts, attempt[i].status = "EXPIRED", Undisputed(i)
               PROVE  Sum(InTime(i)) < Amount
    BY DEF ExpiryIsDeserved
  <2>1. Missed(chain, i, attempt[i].createdAt, now)
    BY DEF History, Known, Remembers
  <2>2. InTime(i) = Counting(chain, i, attempt[i].createdAt)
    BY DEF InTime, Counting, First, Received, End, Start, Earliest, LockUntil
  <2> QED
    BY <2>1, <2>2 DEF Missed
<1> QED
  BY <1>2, <1>3, PTL
-----------------------------------------------------------------------------
(* The page of one of the buyers (Widget), for every number of invoices,    *)
(* requests, loads and faults: what it knows where it stands, and that only *)
(* the invoice it would come back to was last shown as payable.  None is    *)
(* not an invoice: WidgetAssumption, which an instance does not bring along *)
(* and the two theorems name.                                               *)

CONSTANTS Invoices, None, MaxCalls, MaxLoads, MaxFaults
VARIABLES server, stored, host, uses, page, invoice, notified, calls, paid, open, stray,
          loads, faults

Page == INSTANCE Widget

Shown    == [id: Invoices, status: Page!Statuses]
Requests == [op: {"resume", "create", "check", "press"}, id: Invoices \cup {None},
             answer: Page!Statuses \cup {"ASKED", "ABSENT", "ERROR"}]

PageTyped ==
  /\ None \notin Invoices
  /\ server \in [Invoices -> Page!Statuses \cup {"ABSENT", "GONE"}]
  /\ uses \in [link: BOOLEAN, storage: BOOLEAN] /\ (uses.link \/ uses.storage)
  /\ stored \in Invoices \cup {None}
  /\ page \in {"CONFIG", "RESTORING", "BLOCKED", "READY"}
  /\ {invoice, host} \subseteq Shown \cup {Page!NoInvoice}
  /\ calls \subseteq Requests
  /\ open \subseteq Invoices /\ stray \in BOOLEAN

\* Where the page must stand for a request to be under way, and what its answer says of
\* the service.
RequestOK(c) ==
  /\ c.op = "resume" <=> page = "RESTORING"
  /\ c.op = "resume" => c.id = Page!Target
  /\ c.op # "create" => c.id \in Invoices
  /\ c.op \in {"check", "press"} => c.answer # "ABSENT" /\ server[c.id] \in Page!Statuses
  /\ c.op = "create" =>
       IF c.id = None THEN c.answer \in {"ASKED", "ERROR"} ELSE c.answer \in Page!Statuses
  /\ c.answer \in Page!Statuses => server[c.id] \in Page!Statuses

PageKnows ==
  /\ page \in {"CONFIG", "BLOCKED"} => calls = {}
  /\ page \in {"RESTORING", "BLOCKED"} => Page!Target \in Invoices
  /\ \A c, d \in calls : c.op = d.op /\ c.op \in {"resume", "create"} => c = d
  /\ \A c \in calls : RequestOK(c)
  /\ notified = invoice
  /\ page # "READY" => invoice = Page!NoInvoice
  /\ page = "READY" /\ uses.storage => stored = invoice.id
  /\ invoice # Page!NoInvoice => host = invoice /\ server[invoice.id] \in Page!Statuses
  /\ \A i \in open : server[i] \in Page!Statuses

\* The invoice the page would come back to: the one presented or the one remembered.
ComesBackTo ==
  IF page = "READY" THEN invoice.id ELSE IF uses.link THEN host.id ELSE stored

\* Only that one was last shown as payable, and not if it is known to be over.
PageDone ==
  ~stray =>
    /\ open \subseteq {ComesBackTo}
    /\ invoice.status \notin Page!Payable => invoice.id \notin open
    /\ \A c \in calls : c.op = "create" => invoice = Page!NoInvoice
    /\ \A c \in calls : c.op = "resume" /\ c.answer = "ABSENT" => c.id \notin open

PageInv == PageTyped /\ PageKnows /\ PageDone

LEMMA PageStarts ==
  ASSUME None \notin Invoices
  PROVE  Page!Init => PageInv
BY DEF Page!Init, PageInv, PageTyped, PageKnows, PageDone, Page!NoInvoice, Page!Statuses,
       Page!Payable, RequestOK, ComesBackTo

LEMMA PageStutters ==
  PageInv /\ UNCHANGED Page!vars => PageInv'
BY DEF Page!vars, Page!browser, PageInv, PageTyped, PageKnows, PageDone, Page!Target,
       Page!Linked, RequestOK, ComesBackTo

LEMMA NothingPresented ==
  ASSUME PageTyped
  PROVE  /\ None \notin Invoices
         /\ Page!NoInvoice = [id |-> None, status |-> "ABSENT"] /\ Page!NoInvoice \notin Shown
         /\ \A new \in Shown : new.id \in Invoices /\ new.status \in Page!Statuses
         /\ \A i \in Invoices, s \in Page!Statuses : [id |-> i, status |-> s] \in Shown
         /\ Page!Payable \subseteq Page!Statuses
         /\ {"ABSENT", "ERROR", "ASKED", "GONE"} \cap Page!Statuses = {}
BY DEF PageTyped, Page!NoInvoice, Shown, Page!Statuses, Page!Payable

\* An answer with an invoice that the service knows is presented.
LEMMA PresentKeeps ==
  ASSUME PageInv, NEW new \in Shown, server[new.id] \in Page!Statuses, Page!Present(new),
         UNCHANGED <<server, uses>>, page' = "READY",
         calls' \subseteq calls, \A c \in calls' : c.op # "resume",
         stray' \in BOOLEAN, stray => stray',
         ~stray' => open \subseteq {new.id} /\ \A c \in calls' : c.op # "create"
  PROVE  PageInv'
<1> USE NothingPresented DEF PageInv
<1>1. /\ invoice' = new /\ notified' = new /\ host' = new
      /\ open' = IF new.status \in Page!Payable THEN open \cup {new.id} ELSE open \ {new.id}
      /\ stored' = IF uses.storage /\ new.id # invoice.id THEN new.id ELSE stored
  BY DEF Page!Present, Page!Save, PageKnows
<1>2. PageTyped'
  BY <1>1 DEF PageTyped
<1>3. PageKnows'
  BY <1>1 DEF PageTyped, PageKnows, RequestOK
<1>4. PageDone'
  BY <1>1 DEF PageTyped, PageDone, ComesBackTo
<1> QED
  BY <1>2, <1>3, <1>4

\* A request ends, and nothing else happens on the page.
LEMMA FewerKeep ==
  ASSUME PageInv, page = "READY", calls' \subseteq calls,
         UNCHANGED <<server, uses, page, stored, host, invoice, notified, open, stray>>
  PROVE  PageInv'
<1>1. PageTyped'
  BY DEF PageInv, PageTyped
<1>2. PageKnows'
  BY DEF PageInv, PageKnows, RequestOK
<1>3. PageDone'
  BY DEF PageInv, PageDone, ComesBackTo
<1> QED
  BY <1>1, <1>2, <1>3 DEF PageInv

\* Requests are sent from where the page stands.
LEMMA AskKeeps ==
  ASSUME PageInv, Page!ConfigLoaded \/ Page!Retry \/ Page!Create \/ Page!Poll \/ Page!CheckPayment
  PROVE  PageInv'
<1> USE NothingPresented DEF PageInv, Page!browser, Page!Ask
<1>1. CASE Page!ConfigLoaded
  <2>1. CASE Page!Target = None
    <3>1. /\ page = "CONFIG" /\ page' = "READY" /\ calls' = {} /\ calls = {}
          /\ UNCHANGED <<server, uses, stored, host, invoice, notified, open, stray>>
      BY <1>1, <2>1 DEF Page!ConfigLoaded, PageKnows
    <3>2. PageTyped'
      BY <3>1 DEF PageTyped
    <3>3. PageKnows'
      BY <2>1, <3>1 DEF PageTyped, PageKnows, Page!Target, Page!Linked
    <3>4. PageDone'
      BY <2>1, <3>1 DEF PageTyped, PageKnows, PageDone, ComesBackTo, Page!Target, Page!Linked
    <3> QED
      BY <3>2, <3>3, <3>4
  <2>2. CASE Page!Target # None
    <3> DEFINE c == [op |-> "resume", id |-> Page!Target, answer |-> "ASKED"]
    <3>1. /\ page = "CONFIG" /\ page' = "RESTORING" /\ calls' = {c}
          /\ UNCHANGED <<server, uses, stored, host, invoice, notified, open, stray>>
      BY <1>1, <2>2 DEF Page!ConfigLoaded, PageKnows
    <3>2. Page!Target \in Invoices /\ UNCHANGED Page!Target
      BY <2>2, <3>1 DEF PageTyped, Page!Target, Page!Linked, Shown
    <3>3. PageTyped'
      BY <3>1, <3>2 DEF PageTyped, Requests
    <3>4. PageKnows'
      BY <3>1, <3>2 DEF PageTyped, PageKnows, RequestOK
    <3>5. PageDone'
      BY <3>1 DEF PageTyped, PageKnows, PageDone, ComesBackTo
    <3> QED
      BY <3>3, <3>4, <3>5
  <2> QED
    BY <2>1, <2>2
<1>2. CASE Page!Retry
  <2> DEFINE c == [op |-> "resume", id |-> Page!Target, answer |-> "ASKED"]
  <2>1. /\ page = "BLOCKED" /\ page' = "RESTORING" /\ calls' = {c}
        /\ UNCHANGED <<server, uses, stored, host, invoice, notified, open, stray>>
    BY <1>2 DEF Page!Retry, PageKnows
  <2>2. Page!Target \in Invoices /\ UNCHANGED Page!Target
    BY <2>1 DEF PageKnows, Page!Target, Page!Linked
  <2>3. PageTyped'
    BY <2>1, <2>2 DEF PageTyped, Requests
  <2>4. PageKnows'
    BY <2>1, <2>2 DEF PageTyped, PageKnows, RequestOK
  <2>5. PageDone'
    BY <2>1 DEF PageTyped, PageKnows, PageDone, ComesBackTo
  <2> QED
    BY <2>3, <2>4, <2>5
<1>3. ASSUME NEW op \in {"create", "check", "press"}, NEW id \in Invoices \cup {None},
             op # "create" => id = invoice.id /\ invoice # Page!NoInvoice,
             op = "create" => id = None /\ invoice = Page!NoInvoice /\ ~Page!Busy,
             page = "READY", Page!Ask(op, id),
             UNCHANGED <<server, uses, page, stored, host, invoice, notified, open, stray>>
      PROVE  PageInv'
  <2> DEFINE c == [op |-> op, id |-> id, answer |-> "ASKED"]
  <2>1. calls' = calls \cup {c} /\ c \in Requests
    BY <1>3 DEF Requests
  <2>2. PageTyped'
    BY <1>3, <2>1 DEF PageTyped
  <2>3. RequestOK(c)'
    BY <1>3 DEF PageTyped, PageKnows, RequestOK, Shown
  <2>4. \A d \in calls : RequestOK(d)'
    BY <1>3 DEF PageKnows, RequestOK, Page!Target, Page!Linked
  <2>5. PageKnows'
    BY <1>3, <2>1, <2>3, <2>4 DEF PageKnows, Page!Busy, RequestOK
  <2>6. PageDone'
    BY <1>3, <2>1 DEF PageDone, ComesBackTo
  <2> QED
    BY <2>2, <2>5, <2>6
<1>4. CASE Page!Create
  BY <1>3, <1>4 DEF Page!Create, Page!CheckoutLocked, Page!Busy
<1>5. ASSUME Page!Poll \/ Page!CheckPayment
      PROVE  PageInv'
  <2>1. invoice # Page!NoInvoice /\ page = "READY" /\ invoice.id \in Invoices
    BY <1>5 DEF Page!Poll, Page!Polls, Page!CheckPayment, PageKnows, PageTyped, Page!Payable, Shown
  <2> QED
    BY <1>3, <1>5, <2>1 DEF Page!Poll, Page!CheckPayment
<1> QED
  BY <1>1, <1>2, <1>4, <1>5

LEMMA RestoredKeeps ==
  ASSUME PageInv, NEW c \in calls, Page!Restored(c)
  PROVE  PageInv'
<1> USE NothingPresented DEF PageInv
<1>1. /\ c \in Requests /\ RequestOK(c) /\ c.id = Page!Target /\ Page!Target \in Invoices
      /\ page = "RESTORING" /\ calls' = {} /\ invoice = Page!NoInvoice
      /\ UNCHANGED <<server, uses, stray>>
  BY DEF Page!Restored, PageTyped, PageKnows, RequestOK
<1>2. ~stray => open \subseteq {c.id}
  BY <1>1 DEF PageTyped, PageDone, ComesBackTo, Page!Target, Page!Linked, Shown
<1>3. CASE c.answer \in Page!Statuses
  <2> DEFINE new == [id |-> c.id, status |-> c.answer]
  <2>1. Page!Present(new) /\ page' = "READY"
    BY <1>3 DEF Page!Restored
  <2>2. new \in Shown /\ server[new.id] \in Page!Statuses /\ new.id = c.id
    BY <1>1, <1>3 DEF Requests, RequestOK
  <2> HIDE DEF new
  <2> QED
    BY <1>1, <1>2, <2>1, <2>2, PresentKeeps DEF PageTyped
<1>4. ASSUME c.answer = "ABSENT", ~Page!Linked
      PROVE  PageInv'
  <2>1. /\ stored' = None /\ page' = "READY"
        /\ UNCHANGED <<host, invoice, notified, open>>
    BY <1>4 DEF Page!Restored
  <2>2. ~stray => open = {}
    BY <1>1, <1>2, <1>4 DEF PageDone, Page!Restored
  <2>3. PageTyped'
    BY <1>1, <2>1 DEF PageTyped
  <2>4. PageKnows'
    BY <1>1, <2>1 DEF PageKnows
  <2>5. PageDone'
    BY <1>1, <2>1, <2>2 DEF PageDone
  <2> QED
    BY <2>3, <2>4, <2>5
<1>5. ASSUME c.answer = "ERROR" \/ (c.answer = "ABSENT" /\ Page!Linked)
      PROVE  PageInv'
  <2>1. page' = "BLOCKED" /\ UNCHANGED <<stored, host, invoice, notified, open>>
    BY <1>5 DEF Page!Restored
  <2>2. UNCHANGED Page!Target
    BY <1>1, <2>1 DEF Page!Target, Page!Linked
  <2>3. PageTyped'
    BY <1>1, <2>1 DEF PageTyped
  <2>4. PageKnows'
    BY <1>1, <2>1, <2>2 DEF PageKnows
  <2>5. PageDone'
    BY <1>1, <2>1 DEF PageDone, ComesBackTo
  <2> QED
    BY <2>3, <2>4, <2>5
<1> QED
  BY <1>3, <1>4, <1>5 DEF Page!Restored

LEMMA CreatedKeeps ==
  ASSUME PageInv, NEW c \in calls, Page!Created(c)
  PROVE  PageInv'
<1> USE NothingPresented DEF PageInv
<1>1. /\ c \in Requests /\ RequestOK(c) /\ c.op = "create" /\ page = "READY"
      /\ calls' = calls \ {c} /\ UNCHANGED <<server, uses, page>>
  BY DEF Page!Created, PageTyped, PageKnows, RequestOK, Requests
<1>2. ~stray => open = {} /\ invoice = Page!NoInvoice
  BY <1>1 DEF PageTyped, PageDone, ComesBackTo
<1>3. \A d \in calls' : d.op \notin {"resume", "create"}
  BY <1>1 DEF PageKnows, RequestOK
<1>4. ASSUME c.id # None, Page!Present([id |-> c.id, status |-> c.answer]), UNCHANGED stray
      PROVE  PageInv'
  <2> DEFINE new == [id |-> c.id, status |-> c.answer]
  <2>1. new \in Shown /\ server[new.id] \in Page!Statuses /\ Page!Present(new)
    BY <1>1, <1>4 DEF Requests, RequestOK
  <2> HIDE DEF new
  <2> QED
    BY <1>1, <1>2, <1>3, <1>4, <2>1, PresentKeeps DEF PageTyped
<1>5. ASSUME UNCHANGED Page!browser
      PROVE  PageInv'
  <2>1. UNCHANGED <<stored, host, invoice, notified, open, stray>>
    BY <1>5 DEF Page!browser
  <2> QED
    BY <1>1, <2>1, FewerKeep
<1> QED
  BY <1>4, <1>5 DEF Page!Created

LEMMA CheckedKeeps ==
  ASSUME PageInv, NEW c \in calls, Page!Checked(c)
  PROVE  PageInv'
<1> USE NothingPresented DEF PageInv
<1>1. /\ c \in Requests /\ RequestOK(c) /\ c.op \in {"check", "press"} /\ page = "READY"
      /\ c.id \in Invoices /\ calls' = calls \ {c} /\ UNCHANGED <<server, uses, page>>
  BY DEF Page!Checked, PageTyped, PageKnows, RequestOK
<1>2. ASSUME c.answer \in Page!Statuses, Page!Present([id |-> c.id, status |-> c.answer]),
             stray' = (stray \/ c.id # invoice.id)
      PROVE  PageInv'
  <2> DEFINE new == [id |-> c.id, status |-> c.answer]
  <2>1. new \in Shown /\ server[new.id] \in Page!Statuses /\ Page!Present(new) /\ new.id = c.id
    BY <1>1, <1>2 DEF RequestOK
  <2>2. \A d \in calls' : d.op # "resume"
    BY <1>1 DEF PageKnows, RequestOK
  <2>3. ASSUME ~stray'
        PROVE  open \subseteq {c.id} /\ \A d \in calls' : d.op # "create"
    <3>1. ~stray /\ c.id = invoice.id /\ invoice # Page!NoInvoice
      BY <1>1, <1>2, <2>3 DEF PageTyped
    <3> QED
      BY <1>1, <3>1 DEF PageDone, ComesBackTo
  <2> HIDE DEF new
  <2> QED
    BY <1>1, <1>2, <2>1, <2>2, <2>3, PresentKeeps DEF PageTyped
<1>3. ASSUME UNCHANGED Page!browser
      PROVE  PageInv'
  <2>1. UNCHANGED <<stored, host, invoice, notified, open, stray>>
    BY <1>3 DEF Page!browser
  <2> QED
    BY <1>1, <2>1, FewerKeep
<1> QED
  BY <1>2, <1>3 DEF Page!Checked

LEMMA LoadKeeps ==
  ASSUME PageInv, Page!Load
  PROVE  PageInv'
<1> USE NothingPresented DEF PageInv
<1>1. /\ page' = "CONFIG" /\ calls' = {} /\ invoice' = Page!NoInvoice /\ notified' = invoice'
      /\ stored' \in IF uses.link THEN {stored, None} ELSE {stored}
      /\ UNCHANGED <<server, uses, host, open, stray>>
  BY DEF Page!Load
<1>2. PageTyped'
  BY <1>1 DEF PageTyped
<1>3. PageKnows'
  BY <1>1 DEF PageKnows
<1>4. PageDone'
  <2> SUFFICES ASSUME ~stray PROVE open \subseteq {ComesBackTo'}
    BY <1>1 DEF PageDone, PageTyped
  <2>1. CASE page = "READY" /\ invoice = Page!NoInvoice
    BY <1>1, <2>1 DEF PageTyped, PageDone, ComesBackTo
  <2>2. CASE page = "READY" /\ invoice # Page!NoInvoice
    BY <1>1, <2>2 DEF PageTyped, PageKnows, PageDone, ComesBackTo
  <2>3. CASE page # "READY"
    BY <1>1, <2>3 DEF PageTyped, PageDone, ComesBackTo
  <2> QED
    BY <2>1, <2>2, <2>3
<1> QED
  BY <1>2, <1>3, <1>4

LEMMA ResetKeeps ==
  ASSUME PageInv, Page!ResetInvoice
  PROVE  PageInv'
<1> USE NothingPresented DEF PageInv
<1>1. /\ invoice.status \in {"PAID", "EXPIRED"} /\ invoice' = Page!NoInvoice
      /\ notified' = Page!NoInvoice /\ stored' = None /\ host' = Page!NoInvoice
      /\ UNCHANGED <<server, uses, page, calls, open, stray>>
  BY DEF Page!ResetInvoice
<1>2. invoice # Page!NoInvoice /\ page = "READY" /\ invoice.status \notin Page!Payable
  BY <1>1 DEF PageKnows, Page!Payable
<1>3. PageTyped'
  BY <1>1 DEF PageTyped
<1>4. PageKnows'
  BY <1>1, <1>2 DEF PageKnows, RequestOK
<1>5. PageDone'
  BY <1>1, <1>2 DEF PageTyped, PageDone, ComesBackTo
<1> QED
  BY <1>3, <1>4, <1>5

\* What the payment service and the network do while the page waits: a request gets its
\* answer, and an invoice that is known stays known.
LEMMA ServiceKeeps ==
  ASSUME PageInv, UNCHANGED <<uses, page, stored, host, invoice, notified, open, stray>>,
         server' \in [Invoices -> Page!Statuses \cup {"ABSENT", "GONE"}],
         \A i \in Invoices : server[i] \in Page!Statuses => server'[i] \in Page!Statuses,
         NEW c \in calls, NEW d \in Requests, calls' \subseteq (calls \ {c}) \cup {d},
         d.op = c.op, RequestOK(d)',
         ~stray /\ d.op = "resume" /\ d.answer = "ABSENT" => d.id \notin open
  PROVE  PageInv'
<1> USE DEF PageInv
<1>1. PageTyped'
  BY DEF PageTyped
<1>2. ASSUME NEW e \in calls
      PROVE  RequestOK(e)'
  <2>1. RequestOK(e) /\ e \in Requests
    BY DEF PageKnows, PageTyped
  <2>2. e.answer \in Page!Statuses => e.id \in Invoices
    BY <2>1, NothingPresented DEF RequestOK, Requests
  <2> QED
    BY <2>1, <2>2 DEF RequestOK, Page!Target, Page!Linked
<1>3. PageKnows'
  BY <1>1, <1>2 DEF PageKnows, PageTyped, Shown, Page!Target, Page!Linked
<1>4. PageDone'
  BY DEF PageDone, ComesBackTo
<1> QED
  BY <1>1, <1>3, <1>4

LEMMA ServeKeeps ==
  ASSUME PageInv, NEW c \in calls, Page!ServeResume(c) \/ Page!ServeCheck(c)
  PROVE  PageInv'
<1> USE DEF PageInv
<1>1. PICK answer : answer = IF c.op = "resume" /\ server[c.id] = "GONE" THEN "ABSENT"
                             ELSE server[c.id]
  OBVIOUS
<1> DEFINE d == [c EXCEPT !.answer = answer]
<1>2. /\ c \in Requests /\ RequestOK(c) /\ c.op \in {"resume", "check", "press"}
      /\ c.id \in Invoices /\ calls' = (calls \ {c}) \cup {d}
      /\ UNCHANGED <<server, uses, page, stored, host, invoice, notified, open, stray>>
  BY <1>1 DEF PageTyped, PageKnows, RequestOK, Page!ServeResume, Page!ServeCheck,
       Page!Answered, Page!browser
<1>3. server[c.id] \in Page!Statuses \cup {"ABSENT", "GONE"}
  BY <1>2 DEF PageTyped
<1>4. answer = "ABSENT" => c.id \notin open /\ c.op = "resume"
  BY <1>1, <1>2, NothingPresented DEF PageKnows, RequestOK
<1>5. answer \in Page!Statuses => server[c.id] \in Page!Statuses
  BY <1>1, NothingPresented
<1>6. /\ answer \in Page!Statuses \cup {"ABSENT"}
      /\ c.op # "resume" => answer \in Page!Statuses
  BY <1>1, <1>2, <1>3, NothingPresented DEF RequestOK
<1>7. d \in Requests /\ d.op = c.op /\ d.id = c.id /\ d.answer = answer
  BY <1>2, <1>6 DEF Requests
<1> HIDE DEF d
<1>8. RequestOK(d)'
  BY <1>2, <1>4, <1>5, <1>6, <1>7, NothingPresented DEF RequestOK, Page!Target, Page!Linked
<1> QED
  BY <1>2, <1>4, <1>7, <1>8, ServiceKeeps DEF PageTyped

LEMMA ServeCreateKeeps ==
  ASSUME PageInv, NEW c \in calls, Page!ServeCreate(c)
  PROVE  PageInv'
<1> USE DEF PageInv
<1>1. /\ c \in Requests /\ RequestOK(c) /\ c.op = "create"
      /\ UNCHANGED <<uses, page, stored, host, invoice, notified, open, stray>>
  BY DEF PageTyped, PageKnows, Page!ServeCreate, Page!browser
<1>2. PICK i \in Invoices :
        /\ server[i] \in Page!Payable \cup {"PAID", "ABSENT"}
        /\ \E s \in Page!Later(server[i]) : server' = [server EXCEPT ![i] = s]
        /\ calls' = Page!Answered([c EXCEPT !.id = i], server'[i]) \ {c}
  BY DEF Page!ServeCreate
<1>3. PICK s \in Page!Later(server[i]) : server' = [server EXCEPT ![i] = s]
  BY <1>2
<1>4. s \in Page!Statuses
  BY <1>2 DEF Page!Later, Page!Statuses, Page!Payable
<1>5. /\ server' \in [Invoices -> Page!Statuses \cup {"ABSENT", "GONE"}] /\ server'[i] = s
      /\ \A j \in Invoices : server[j] \in Page!Statuses => server'[j] \in Page!Statuses
  BY <1>3, <1>4 DEF PageTyped
<1> DEFINE d == [[c EXCEPT !.id = i] EXCEPT !.answer = s]
<1>6. calls' \subseteq (calls \ {c}) \cup {d}
  BY <1>2, <1>5 DEF Page!Answered
<1>7. d \in Requests /\ d.op = "create" /\ d.id = i /\ d.answer = s
  BY <1>1, <1>4 DEF Requests
<1> HIDE DEF d
<1>8. RequestOK(d)'
  BY <1>1, <1>4, <1>5, <1>7, NothingPresented DEF RequestOK
<1> QED
  BY <1>1, <1>5, <1>6, <1>7, <1>8, ServiceKeeps

LEMMA FaultKeeps ==
  ASSUME PageInv, NEW c \in calls, Page!Refuse(c) \/ Page!Lose(c)
  PROVE  PageInv'
<1> USE DEF PageInv
<1>1. /\ c \in Requests /\ RequestOK(c)
      /\ UNCHANGED <<server, uses, page, stored, host, invoice, notified, open, stray>>
  BY DEF PageTyped, PageKnows, Page!Refuse, Page!Lose, Page!browser
<1>2. PICK id \in {c.id} \cup {None} :
        /\ calls' = (calls \ {c}) \cup {[c EXCEPT !.id = id, !.answer = "ERROR"]}
        /\ c.op = "create" => id = None
        /\ c.op # "create" => id = c.id
  <2>1. CASE Page!Refuse(c)
    <3>1. c.op = "create" => c.id = None
      BY <1>1, <2>1, NothingPresented DEF RequestOK, Page!Refuse
    <3>2. [c EXCEPT !.id = c.id, !.answer = "ERROR"] = [c EXCEPT !.answer = "ERROR"]
      BY <1>1 DEF Requests
    <3> QED
      BY <2>1, <3>1, <3>2 DEF Page!Refuse, Page!Answered
  <2>2. CASE Page!Lose(c)
    <3>1. calls' = (calls \ {c}) \cup {[c EXCEPT !.id = IF c.op = "create" THEN None ELSE c.id,
                                                !.answer = "ERROR"]}
      BY <2>2 DEF Page!Lose
    <3> QED
      BY <3>1
  <2> QED
    BY <2>1, <2>2
<1> DEFINE d == [c EXCEPT !.id = id, !.answer = "ERROR"]
<1>3. d \in Requests /\ d.op = c.op /\ d.id = id /\ d.answer = "ERROR"
  BY <1>1, <1>2 DEF Requests
<1>4. calls' = (calls \ {c}) \cup {d}
  BY <1>2
<1> HIDE DEF d
<1>5. RequestOK(d)'
  BY <1>1, <1>2, <1>3, NothingPresented DEF RequestOK, Page!Target, Page!Linked
<1> QED
  BY <1>1, <1>3, <1>4, <1>5, ServiceKeeps DEF PageTyped

LEMMA SettlementKeeps ==
  ASSUME PageInv, NEW i \in Invoices, Page!Settle(i)
  PROVE  PageInv'
<1> USE DEF PageInv
<1>1. PICK s \in Page!Later(server[i]) \ {server[i]} : server' = [server EXCEPT ![i] = s]
  BY DEF Page!Settle
<1>2. s \in Page!Statuses
  BY <1>1 DEF Page!Settle, Page!Later, Page!Statuses, Page!Payable
<1>3. UNCHANGED <<uses, page, calls, stored, host, invoice, notified, open, stray>>
  BY DEF Page!Settle, Page!browser
<1>4. /\ server' \in [Invoices -> Page!Statuses \cup {"ABSENT", "GONE"}]
      /\ \A j \in Invoices : server[j] \in Page!Statuses => server'[j] \in Page!Statuses
  BY <1>1, <1>2 DEF PageTyped
<1>5. ASSUME NEW c \in calls PROVE PageInv'
  <2>1. c \in Requests /\ RequestOK(c)
    BY DEF PageTyped, PageKnows
  <2>2. RequestOK(c)'
    BY <1>3, <1>4, <2>1, NothingPresented DEF RequestOK, Requests, Page!Target, Page!Linked
  <2> QED
    <3>1. calls' \subseteq (calls \ {c}) \cup {c}
      BY <1>3
    <3>2. ~stray /\ c.op = "resume" /\ c.answer = "ABSENT" => c.id \notin open
      BY DEF PageDone
    <3> QED
      BY <1>3, <1>4, <2>1, <2>2, <3>1, <3>2, ServiceKeeps
<1>6. CASE calls = {}
  <2>1. PageTyped'
    BY <1>3, <1>4 DEF PageTyped
  <2>2. PageKnows'
    BY <1>3, <1>4, <1>6 DEF PageTyped, PageKnows, Shown, Page!Target, Page!Linked
  <2>3. PageDone'
    BY <1>3 DEF PageDone, ComesBackTo
  <2> QED
    BY <2>1, <2>2, <2>3
<1> QED
  BY <1>5, <1>6

LEMMA PageStep ==
  PageInv /\ [Page!Next]_Page!vars => PageInv'
<1>1. ASSUME PageInv, Page!Next PROVE PageInv'
  BY <1>1, AskKeeps, RestoredKeeps, CreatedKeeps, CheckedKeeps, LoadKeeps, ResetKeeps, ServeKeeps,
     ServeCreateKeeps, FaultKeeps, SettlementKeeps DEF Page!Next, Page!Answer, Page!Serve
<1> QED
  BY <1>1, PageStutters

LEMMA PageAlways ==
  ASSUME None \notin Invoices
  PROVE  Page!Spec => []PageInv
BY PageStarts, PageStep, PTL DEF Page!Spec

\* The invoice presented is the one the browser remembers and the embedding page was last
\* told of, after every answer, reset and load (presentInvoice and resetInvoice of the
\* widget), for any number of invoices, requests under way, loads and faults.
THEOREM ShownIsKnownHolds ==
  ASSUME None \notin Invoices
  PROVE  Page!Spec => []Page!ShownIsKnown
<1>1. PageInv => Page!ShownIsKnown
  BY DEF PageInv, PageKnows, Page!ShownIsKnown
<1> QED
  BY <1>1, PageAlways, PTL

\* A restore that is under way or has failed keeps the form locked, and so does a payment
\* that is open: no request for a new payment leaves the page while the buyer was last told
\* of any invoice, on this page or before, that it can be paid; unless an answer came up
\* for an invoice the page had left.
THEOREM CreatesWhenDoneHolds ==
  ASSUME None \notin Invoices
  PROVE  Page!Spec => Page!CreatesWhenDone
<1> DEFINE Asks == (\E c \in calls' \ calls : c.op = "create") /\ ~stray
<1>1. ASSUME PageInv, Page!Next, Asks
      PROVE  open = {}
  <2> USE NothingPresented DEF PageInv
  <2>1. PICK c \in calls' : c \notin calls /\ c.op = "create"
    BY <1>1
  <2>2. CASE Page!Create
    BY <1>1, <2>2 DEF Page!Create, Page!CheckoutLocked, PageTyped, PageDone, ComesBackTo
  <2>3. ASSUME NEW d \in calls, d.op = "create"
        PROVE  open = {}
    <3>1. invoice = Page!NoInvoice /\ page = "READY"
      BY <1>1, <2>3 DEF PageTyped, PageKnows, PageDone, RequestOK, Requests
    <3> QED
      BY <1>1, <3>1 DEF PageTyped, PageDone, ComesBackTo
  <2>4. ~(calls' \subseteq calls)
    BY <2>1
  <2>5. ASSUME Page!ConfigLoaded \/ Page!Retry \/ Page!Poll \/ Page!CheckPayment
        PROVE  FALSE
    <3>1. PICK op \in {"resume", "check", "press"} : \E id :
            calls' \subseteq calls \cup {[op |-> op, id |-> id, answer |-> "ASKED"]}
      BY <2>5 DEF Page!ConfigLoaded, Page!Retry, Page!Poll, Page!CheckPayment, Page!Ask
    <3> QED
      BY <2>1, <3>1
  <2>6. ~(Page!Load \/ Page!ResetInvoice \/ Page!Answer \/ \E i \in Invoices : Page!Settle(i))
    BY <2>4 DEF Page!Load, Page!ResetInvoice, Page!Settle, Page!Answer, Page!Restored, Page!Created,
       Page!Checked
  <2>7. ASSUME NEW d \in calls,
               Page!ServeResume(d) \/ Page!ServeCheck(d) \/ Page!Refuse(d) \/ Page!Lose(d)
        PROVE  open = {}
    <3>1. d \in Requests
      BY <1>1 DEF PageTyped
    <3>2. \A answer : [d EXCEPT !.answer = answer].op = d.op
      BY <3>1 DEF Requests
    <3>3. \A id, answer : [d EXCEPT !.id = id, !.answer = answer].op = d.op
      BY <3>1 DEF Requests
    <3>4. \/ \E answer : calls' \subseteq calls \cup {[d EXCEPT !.answer = answer]}
          \/ \E id, answer : calls' \subseteq calls \cup {[d EXCEPT !.id = id, !.answer = answer]}
      BY <2>7 DEF Page!ServeResume, Page!ServeCheck, Page!Refuse, Page!Lose, Page!Answered
    <3> QED
      BY <2>1, <2>3, <3>2, <3>3, <3>4
  <2>8. ASSUME NEW d \in calls, Page!ServeCreate(d)
        PROVE  open = {}
    BY <2>3, <2>8 DEF Page!ServeCreate
  <2> QED
    BY <1>1, <2>2, <2>5, <2>6, <2>7, <2>8 DEF Page!Next, Page!Serve
<1>2. PageInv /\ [Page!Next]_Page!vars => [Asks => open = {}]_Page!vars
  BY <1>1
<1> QED
  BY <1>2, PageAlways, PTL DEF Page!Spec, Page!CreatesWhenDone
=============================================================================
