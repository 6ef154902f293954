-------------------------- MODULE UsdtSweepProofs --------------------------
(***************************************************************************)
(* What the USDT workers promise holds for every number of workers, jobs,  *)
(* deposits and faults.  No lease is needed for it: a row is written only  *)
(* in the status the writer expects, so a job has one transfer plan, whose *)
(* seqno the deposit wallet accepts once, and a top-up is either for the   *)
(* seqno its row has or for one the gas service has used up.  The unique   *)
(* index of a deposit's open job is what keeps its reserve.                *)
(***************************************************************************)
EXTENDS UsdtSweep, FiniteSetTheorems, SequenceTheorems, TLAPS

Calls == [at: Places, job: Jobs, rec: Rows, late: BOOLEAN, slow: BOOLEAN]

\* A job that keeps its deposit from getting another one.
Live(r) == r.status \notin {"ABSENT", "CONFIRMED"}
OneLive ==
  \A j, k \in Jobs :
    DepositOf[j] = DepositOf[k] /\ Live(row[j]) /\ Live(row[k]) => j = k

\* A row with a transfer plan never gets back to the statuses that make one, and
\* no row has a seqno of the gas service that is still to come.
RowOK(r) ==
  /\ RowIsLegal(r)
  /\ r.seqno # None => r.amount > 0 /\ r.status \in {"READY", "SENT", "CONFIRMED", "FAILED"}
  /\ r.status = "ABSENT" => r.topup = NoTopUp /\ r.repair = NoTopUp
  /\ r.topup.seqno <= service /\ r.repair.seqno <= service

\* What a call believes of the top-ups of its job: a plan of the seqno that the
\* gas service has now is also in the row, whoever has it.
Believes(w) ==
  /\ \A t \in {Rec(w).topup, Rec(w).repair} :
       (t.amount = 0) = (t.seqno = None) /\ t.seqno <= service
  /\ Rec(w).topup.seqno = service => Row(w).topup.seqno = service
  /\ Rec(w).repair.seqno = service => Row(w).repair.seqno = service
  /\ Rec(w).repair.seqno # None => Row(w).repair.seqno # None

\* A call that has seen the transfer in a block.
Found(w) ==
  \/ worker[w].at \in {"REPAIR_LEASE", "REPAIR_PLAN", "REPAIR", "REPAIRED", "CONFIRM"}
  \/ At(w, "TOP_UP") /\ Rec(w).status = "SENT"

\* What it knows where it stands.
Stands(w) ==
  /\ worker[w].at \in {"READY", "SEND"} =>
       Rec(w).seqno # None /\ Rec(w).seqno = Row(w).seqno /\ Rec(w).amount = Row(w).amount
  /\ Found(w) => IsOnChain(Job(w))
  /\ At(w, "FIND") \/ Found(w) => Rec(w).status = "SENT"
  /\ worker[w].at \in {"GAS_READY", "GAS_SEND", "GAS_SENT"} => Rec(w).status # "SENT"
  /\ At(w, "REPAIR") => Rec(w).repair.seqno # None
  /\ worker[w].at \in {"GAS_CHECK", "LEASE", "PLAN"} => Rec(w).amount > 0
  /\ At(w, "CONFIRM") /\ Row(w).status # "CONFIRMED" => ton[Dep(w)] >= Reserve

Call(w) == Believes(w) /\ Stands(w)

\* A jetton transfer is the one its job's row has the plan of.
Backed(x) == x.kind = "JETTON" => x = Transfer(x.job, row[x.job])

\* A message that no block contains yet is for the next seqno of its wallet.
Pends(x) ==
  /\ Backed(x)
  /\ x.kind = "JETTON" => x.seqno = wallet[DepositOf[x.job]]
  /\ x.kind = "TOPUP" =>
       x.seqno = service /\ x.seqno \in {row[x.job].topup.seqno, row[x.job].repair.seqno}

Executed(x) == x.kind = "JETTON" /\ Backed(x) /\ x.seqno < wallet[DepositOf[x.job]]

Chain ==
  /\ \A x \in pending : Pends(x)
  /\ \A i \in DOMAIN sent : Executed(sent[i])
  /\ \A i, k \in DOMAIN sent : sent[i].job = sent[k].job => i = k

\* Only a job whose transfer is in a block is confirmed.
ConfirmedMoved == \A j \in Jobs : row[j].status = "CONFIRMED" => IsOnChain(j)

IInv ==
  /\ TypeOK
  /\ \A j \in Jobs : RowOK(row[j])
  /\ OneLive
  /\ ConfirmedMoved
  /\ \A w \in Workers : Call(w)
  /\ Chain
-----------------------------------------------------------------------------
(* What may be written to a row.                                            *)

\* A plan stays, and a top-up is only replaced by one of the next seqno.
Grows(r, x) ==
  /\ x \in Rows /\ RowOK(x)
  /\ r.seqno # None => x.seqno = r.seqno /\ x.amount = r.amount
  /\ x.topup.seqno \in {r.topup.seqno, service}
  /\ x.repair.seqno \in {r.repair.seqno, service}
  /\ r.status = "CONFIRMED" => x.status = "CONFIRMED"

\* A write of a call that goes on, or one that leaves the status alone.
Wrote(r, x) ==
  /\ Grows(r, x)
  /\ x.status = r.status \/ {x.status, r.status} \subseteq Active

LEMMA Untouched ==
  ASSUME NEW r \in Rows, RowOK(r)
  PROVE  Wrote(r, r)
BY DEF Wrote, Grows

LEMMA OwnerWrites ==
  ASSUME NEW r \in Rows, RowOK(r), NEW o \in Owners
  PROVE  Wrote(r, [r EXCEPT !.owner = o])
BY DEF Rows, RowOK, RowIsLegal, Wrote, Grows

LEMMA ClaimWrites ==
  ASSUME NEW r \in Rows, RowOK(r), NEW o \in Owners
  PROVE  Wrote(r, [r EXCEPT !.owner = o, !.attempts = IF @ < MaxAttempts THEN @ + 1 ELSE @])
<1> DEFINE n == IF r.attempts < MaxAttempts THEN r.attempts + 1 ELSE r.attempts
<1>1. n \in 0..MaxAttempts
  BY UsdtAssumption DEF Rows
<1> HIDE DEF n
<1>2. Wrote(r, [r EXCEPT !.owner = o, !.attempts = n])
  BY <1>1 DEF Rows, RowOK, RowIsLegal, Wrote, Grows
<1> QED
  BY <1>2 DEF n

\* Without a new plan, a status only has to be one the row is fit for.
LEMMA StatusWrites ==
  ASSUME NEW r \in Rows, RowOK(r), NEW status \in Active, r.status \in Active,
         status \in Gassing => r.status \in Gassing,
         status \in {"READY", "SENT"} => r.status \in {"READY", "SENT"},
         status = "SENT" => r.status = "SENT",
         r.status \in {"READY", "SENT"} => status \in {"READY", "SENT"}
  PROVE  Wrote(r, [r EXCEPT !.status = status])
BY DEF Rows, RowOK, RowIsLegal, Wrote, Grows, Active, Statuses, Gassing

LEMMA SentWrites ==
  ASSUME NEW r \in Rows, RowOK(r), r.status = "READY", NEW t \in {"EARLY", "LATE"}
  PROVE  Wrote(r, [r EXCEPT !.status = "SENT", !.sentAt = t])
BY DEF Rows, RowOK, RowIsLegal, Wrote, Grows, Active, Statuses, Gassing

LEMMA RepairWrites ==
  ASSUME NEW r \in Rows, RowOK(r), r.status = "SENT", NEW a \in Nat \ {0}, service \in Nat
  PROVE  Wrote(r, [r EXCEPT !.repair = [amount |-> a, seqno |-> service], !.key = service])
<1> DEFINE t == [amount |-> a, seqno |-> service]
           x == [r EXCEPT !.repair = t, !.key = service]
<1>1. /\ t \in TopUps /\ t.amount # 0 /\ t.seqno # None /\ t.seqno = service
      /\ service \in Seqnos
  BY DEF TopUps, Seqnos, None
<1> HIDE DEF t
<1>2. /\ x \in Rows /\ x.status = r.status /\ x.amount = r.amount /\ x.seqno = r.seqno
      /\ x.sentAt = r.sentAt /\ x.topup = r.topup /\ x.repair = t
  BY <1>1 DEF Rows
<1> HIDE DEF x
<1>3. Wrote(r, x)
  BY <1>1, <1>2 DEF RowOK, RowIsLegal, Wrote, Grows, Gassing
<1> QED
  BY <1>3 DEF x, t

LEMMA RepairAmountWrites ==
  ASSUME NEW r \in Rows, RowOK(r), r.status = "SENT", NEW a \in Nat \ {0}, r.repair.seqno # None
  PROVE  Wrote(r, [r EXCEPT !.repair.amount = a])
BY DEF Rows, RowOK, RowIsLegal, Wrote, Grows, Active, Statuses, Gassing, TopUps, Seqnos, None

LEMMA TopUpAmountWrites ==
  ASSUME NEW r \in Rows, RowOK(r), r.status = "GAS_TOPUP_REQUIRED", NEW a \in Nat \ {0}
  PROVE  Wrote(r, [r EXCEPT !.topup.amount = a])
BY DEF Rows, RowOK, RowIsLegal, Wrote, Grows, Active, Statuses, Gassing, TopUps, Seqnos, None,
       NoTopUp

LEMMA TopUpWrites ==
  ASSUME NEW r \in Rows, RowOK(r), r.status \in {"QUEUED", "GAS_CHECK", "GAS_TOPUP_SENT"},
         NEW a \in Nat \ {0}, service \in Nat
  PROVE  Wrote(r, [r EXCEPT !.status = "GAS_TOPUP_REQUIRED", !.key = service,
                            !.topup = [amount |-> a, seqno |-> service]])
<1> DEFINE t == [amount |-> a, seqno |-> service]
           x == [r EXCEPT !.status = "GAS_TOPUP_REQUIRED", !.key = service, !.topup = t]
<1>1. /\ t \in TopUps /\ t.amount # 0 /\ t.seqno # None /\ t.seqno = service
      /\ service \in Seqnos /\ service # None /\ t # NoTopUp
  BY DEF TopUps, Seqnos, None, NoTopUp
<1> HIDE DEF t
<1>2. /\ x \in Rows /\ x.status = "GAS_TOPUP_REQUIRED" /\ x.amount = r.amount
      /\ x.seqno = r.seqno /\ x.key = service /\ x.topup = t /\ x.repair = r.repair
  BY <1>1 DEF Rows, Statuses, Active, Gassing
<1> HIDE DEF x
<1>3. Wrote(r, x)
  BY <1>1, <1>2 DEF RowOK, RowIsLegal, Wrote, Grows, Gassing, Active
<1> QED
  BY <1>3 DEF x, t

LEMMA GasCheckWrites ==
  ASSUME NEW r \in Rows, RowOK(r), r.status \in {"QUEUED", "GAS_TOPUP_SENT"}
  PROVE  Wrote(r, [r EXCEPT !.status = "GAS_CHECK", !.key = None])
BY DEF Rows, RowOK, RowIsLegal, Wrote, Grows, Active, Statuses, Gassing, Seqnos, None

\* The first plan of a job is its only one.
LEMMA PlanWrites ==
  ASSUME NEW r \in Rows, RowOK(r), r.status = "GAS_CHECK", NEW a \in Nat \ {0}, NEW n \in Nat
  PROVE  Wrote(r, [r EXCEPT !.status = "READY", !.amount = a, !.seqno = n])
<1> DEFINE x == [r EXCEPT !.status = "READY", !.amount = a, !.seqno = n]
<1>1. /\ x \in Rows /\ x.status = "READY" /\ x.amount = a
      /\ x.seqno = n /\ x.topup = r.topup /\ x.repair = r.repair
  BY DEF Rows, Statuses, Active, Gassing, Seqnos
<1>2. r.seqno = None /\ n # None /\ a > 0
  BY DEF RowOK, None
<1> HIDE DEF x
<1>3. Wrote(r, x)
  BY <1>1, <1>2 DEF RowOK, RowIsLegal, Wrote, Grows, Gassing, Active
<1> QED
  BY <1>3 DEF x

LEMMA ConfirmWrites ==
  ASSUME NEW r \in Rows, RowOK(r), r.status = "SENT"
  PROVE  Grows(r, [r EXCEPT !.status = "CONFIRMED", !.owner = Nobody, !.key = None,
                            !.case = Settled(@)])
BY DEF Rows, RowOK, RowIsLegal, Grows, Active, Statuses, Gassing, Seqnos, None, Owners, Settled

LEMMA FailureWrites ==
  ASSUME NEW r \in Rows, RowOK(r), r.status \in Active
  PROVE  Grows(r, FailedRow(r))
BY DEF Rows, RowOK, RowIsLegal, Grows, Active, Statuses, Gassing, Seqnos, None, Owners, FailedRow

LEMMA RetryWrites ==
  ASSUME NEW r \in Rows, RowOK(r), r.status = "FAILED"
  PROVE  /\ Grows(r, [r EXCEPT !.status = Resumed(r), !.attempts = 0, !.owner = Nobody])
         /\ Resumed(r) \in Active
<1> DEFINE status == Resumed(r)
           x == [r EXCEPT !.status = status, !.attempts = 0, !.owner = Nobody]
<1>1. /\ status \in Active
      /\ status \in Gassing => r.topup # NoTopUp /\ r.key # None
      /\ status \in {"READY", "SENT"} <=> r.seqno # None
      /\ status = "SENT" => r.sentAt # "NONE"
  BY DEF Resumed, Active, Gassing
<1> HIDE DEF status
<1>2. 0 \in 0..MaxAttempts
  BY UsdtAssumption
<1>3. /\ x \in Rows /\ x.status = status /\ x.amount = r.amount /\ x.seqno = r.seqno
      /\ x.sentAt = r.sentAt /\ x.key = r.key /\ x.topup = r.topup /\ x.repair = r.repair
  BY <1>1, <1>2 DEF Rows, Statuses, Owners
<1> HIDE DEF x
<1>4. Grows(r, x)
  BY <1>1, <1>3 DEF RowOK, RowIsLegal, Grows, Gassing, Active
<1> QED
  BY <1>1, <1>4 DEF x, status

LEMMA QueueWrites ==
  ASSUME NEW r \in Rows, RowOK(r), r.status = "ABSENT", service \in Nat
  PROVE  /\ Grows(r, NewRow("QUEUED"))
         /\ NewRow("QUEUED").status = "QUEUED"
BY UsdtAssumption
   DEF Rows, RowOK, RowIsLegal, Grows, Active, Statuses, Gassing, Owners, NewRow, NoTopUp, TopUps,
       Seqnos, None
-----------------------------------------------------------------------------
(* What the calls and the chain know survives the rows' growth.             *)

\* The rows are written to, and the wallets' seqnos stay.
RowsGrow ==
  /\ row' \in [Jobs -> Rows]
  /\ \A j \in Jobs : Grows(row[j], row'[j])
  /\ UNCHANGED <<usdt, ton, transit, wallet, service, sent>>

LEMMA Types ==
  ASSUME IInv
  PROVE  /\ row \in [Jobs -> Rows] /\ worker \in [Workers -> Calls]
         /\ \A j \in Jobs : row[j] \in Rows /\ RowOK(row[j]) /\ DepositOf[j] \in Deposits
         /\ {usdt, ton, transit, wallet} \subseteq [Deposits -> Nat]
         /\ service \in Nat /\ pending \subseteq Messages /\ sent \in Seq(Messages)
         /\ signing \in [Deposits -> Owners] /\ gas \in Owners
         /\ \A w \in Workers : Call(w)
BY UsdtAssumption DEF IInv, TypeOK, Calls

LEMMA CallTypes ==
  ASSUME IInv, NEW w \in Workers
  PROVE  /\ worker[w] \in Calls /\ worker[w].at \in Places
         /\ Job(w) \in Jobs /\ Rec(w) \in Rows
         /\ Row(w) \in Rows /\ RowOK(Row(w)) /\ Dep(w) \in Deposits
         /\ Believes(w) /\ Stands(w)
BY Types DEF Calls, Job, Rec, Row, Dep, Call

\* Calls that do nothing meanwhile.
LEMMA CallKept ==
  ASSUME IInv, NEW w \in Workers, RowsGrow, worker'[w] = worker[w]
  PROVE  Call(w)'
<1>1. /\ Grows(Row(w), Row(w)')
      /\ Job(w)' = Job(w) /\ Dep(w)' = Dep(w) /\ Rec(w)' = Rec(w)
      /\ UNCHANGED <<ton, service, sent>>
  BY CallTypes DEF RowsGrow, Row, Job, Dep, Rec
<1>2. Believes(w) /\ Stands(w) /\ service \in Nat
  BY CallTypes, Types
<1>3. Believes(w)'
  BY <1>1, <1>2 DEF Believes, Grows, None
<1>4. Stands(w)'
  <2>1. Found(w)' = Found(w) /\ IsOnChain(Job(w))' = IsOnChain(Job(w))
    BY <1>1 DEF Found, At, IsOnChain
  <2> QED
    BY <1>1, <1>2, <2>1 DEF Stands, At, Grows
<1> QED
  BY <1>3, <1>4 DEF Call

LEMMA PendsStill ==
  ASSUME IInv, RowsGrow, NEW x \in Messages, Pends(x)
  PROVE  Pends(x)'
<1>1. /\ x.job \in Jobs /\ x.seqno \in Nat
      /\ UNCHANGED <<wallet, service>> /\ Grows(row[x.job], row'[x.job])
  BY DEF Messages, RowsGrow
<1>2. CASE x.kind = "JETTON"
  <2>1. x = Transfer(x.job, row[x.job])
    BY <1>2 DEF Pends, Backed
  <2>2. row[x.job].seqno # None
    BY <1>1, <2>1 DEF Transfer, None
  <2>3. x = Transfer(x.job, row'[x.job])
    BY <1>1, <2>1, <2>2 DEF Transfer, Grows
  <2> QED
    BY <1>1, <1>2, <2>3 DEF Pends, Backed
<1>3. CASE x.kind # "JETTON"
  BY <1>1, <1>3 DEF Pends, Backed, Grows
<1> QED
  BY <1>2, <1>3

LEMMA ExecutedStill ==
  ASSUME IInv, RowsGrow, NEW x \in Messages, Executed(x)
  PROVE  Executed(x)'
<1>1. /\ x.job \in Jobs /\ x.seqno \in Nat
      /\ UNCHANGED <<wallet>> /\ Grows(row[x.job], row'[x.job])
  BY DEF Messages, RowsGrow
<1>2. x = Transfer(x.job, row[x.job])
  BY DEF Executed, Backed
<1>3. row[x.job].seqno # None
  BY <1>1, <1>2 DEF Transfer, None
<1>4. x = Transfer(x.job, row'[x.job])
  BY <1>1, <1>2, <1>3 DEF Transfer, Grows
<1> QED
  BY <1>1, <1>4 DEF Executed, Backed

\* A step of the calls in W: the rows grow, what is broadcast is backed.
LEMMA Frame ==
  ASSUME IInv, NEW W \in SUBSET Workers, RowsGrow, OneLive', ConfirmedMoved',
         worker' \in [Workers -> Calls],
         \A w \in Workers \ W : worker'[w] = worker[w],
         \A w \in W : Call(w)',
         \A x \in pending' : x \in pending \/ (x \in Messages /\ Pends(x)),
         signing' \in [Deposits -> Owners], gas' \in Owners, events' \in 0..MaxEvents
  PROVE  IInv'
<1>1. TypeOK'
  <2>1. \A j \in Jobs : RowIsLegal(row[j])'
    BY DEF RowsGrow, Grows, RowOK, RowIsLegal
  <2>2. pending' \subseteq Messages
    BY Types
  <2> QED
    BY <2>1, <2>2, Types DEF TypeOK, RowsGrow, Calls
<1>2. \A j \in Jobs : RowOK(row[j])'
  BY DEF RowsGrow, Grows, RowOK
<1>3. \A w \in Workers : Call(w)'
  BY CallKept
<1>4. Chain'
  <2>1. \A x \in pending' : Pends(x)'
    BY Types, PendsStill DEF IInv, Chain
  <2>2. ASSUME NEW i \in DOMAIN sent PROVE sent[i] \in Messages /\ Executed(sent[i])
    BY Types DEF IInv, Chain
  <2>3. \A i \in DOMAIN sent' : Executed(sent[i])'
    BY <2>2, ExecutedStill DEF RowsGrow
  <2>4. \A i, k \in DOMAIN sent' : sent'[i].job = sent'[k].job => i = k
    BY DEF IInv, Chain, RowsGrow
  <2> QED
    BY <2>1, <2>3, <2>4 DEF Chain
<1> QED
  BY <1>1, <1>2, <1>3, <1>4 DEF IInv
-----------------------------------------------------------------------------
(* A call goes from one place to the next.                                  *)

Moved(w) ==
  /\ worker' \in [Workers -> Calls]
  /\ \A v \in Workers \ {w} : worker'[v] = worker[v]

StatusesKept ==
  \A j \in Jobs : row'[j].status = row[j].status \/ {row'[j].status, row[j].status} \subseteq Active

\* What a step of a call comes to, if it neither confirms its job nor gives it up.
Advances(w) == RowsGrow /\ StatusesKept /\ Moved(w) /\ Call(w)'

\* Places at which a call need not know anything.
Easy == {"IDLE", "CATCH", "DEFER", "FAIL", "RELEASE", "SENT", "CHECK_TOPUP", "BALANCES",
         "GAS_LEASE", "GAS_PLAN"}

LEMMA EasyCall ==
  ASSUME NEW w \in Workers, worker[w].at \in Easy
  PROVE  Stands(w)
BY DEF Stands, Easy, Found, At

LEMMA RestingCall ==
  /\ Resting \in Calls /\ NewRow("ABSENT") \in Rows
  /\ Resting.at = "IDLE" /\ Resting.rec.topup = NoTopUp /\ Resting.rec.repair = NoTopUp
<1>1. (CHOOSE j \in Jobs : TRUE) \in Jobs
  BY UsdtAssumption
<1>2. NewRow("ABSENT") \in Rows
  BY UsdtAssumption
     DEF NewRow, Rows, Statuses, TopUps, NoTopUp, Seqnos, None, Owners
<1> QED
  BY <1>1, <1>2 DEF Resting, Calls, Places, NewRow

LEMMA RowsKept ==
  ASSUME IInv, UNCHANGED <<row, usdt, ton, transit, wallet, service, sent>>
  PROVE  RowsGrow /\ StatusesKept
BY Types, Untouched DEF RowsGrow, StatusesKept, Wrote

LEMMA RowWritten ==
  ASSUME IInv, NEW j \in Jobs, NEW new, row' = [row EXCEPT ![j] = new], Wrote(row[j], new),
         UNCHANGED <<usdt, ton, transit, wallet, service, sent>>
  PROVE  RowsGrow /\ StatusesKept /\ row'[j] = new
<1>1. /\ row' \in [Jobs -> Rows]
      /\ \A k \in Jobs : row'[k] = IF k = j THEN new ELSE row[k]
  BY Types DEF Wrote, Grows
<1>2. \A k \in Jobs : Wrote(row[k], row'[k])
  BY <1>1, Types, Untouched
<1> QED
  BY <1>1, <1>2 DEF RowsGrow, StatusesKept, Wrote

LEMMA BelievesStill ==
  ASSUME IInv, NEW w \in Workers, RowsGrow, worker'[w].job = worker[w].job,
         worker'[w].rec.topup = worker[w].rec.topup,
         worker'[w].rec.repair = worker[w].rec.repair
  PROVE  Believes(w)'
<1>1. Grows(Row(w), Row(w)') /\ UNCHANGED service
  BY CallTypes DEF RowsGrow, Row, Job
<1>2. Believes(w) /\ service \in Nat
  BY CallTypes, Types
<1> QED
  BY <1>1, <1>2 DEF Believes, Rec, Grows, None

LEMMA FreshCall ==
  ASSUME IInv, NEW w \in Workers, RowsGrow, worker'[w].job \in Jobs,
         worker'[w].rec.topup = row'[worker'[w].job].topup,
         worker'[w].rec.repair = row'[worker'[w].job].repair
  PROVE  Believes(w)'
BY DEF RowsGrow, Believes, Rec, Row, Job, Grows, RowOK, RowIsLegal

LEMMA Going ==
  ASSUME IInv, NEW w \in Workers, NEW place \in Places, GoTo(w, place)
  PROVE  /\ Moved(w)
         /\ worker'[w].at = place
         /\ worker'[w].job = worker[w].job
         /\ worker'[w].rec = worker[w].rec
BY Types DEF GoTo, Moved, Calls

LEMMA GoesOn ==
  ASSUME IInv, NEW w \in Workers, NEW place \in Places, GoTo(w, place),
         UNCHANGED <<row, usdt, ton, transit, wallet, service, sent>>,
         place \in Easy \/ Stands(w)'
  PROVE  Advances(w)
<1>1. /\ Moved(w)
      /\ worker'[w].at = place
      /\ worker'[w].job = worker[w].job
      /\ worker'[w].rec = worker[w].rec
  BY Going
<1>2. RowsGrow /\ StatusesKept
  BY RowsKept
<1>3. Believes(w)'
  BY <1>1, <1>2, BelievesStill
<1>4. Stands(w)'
  BY <1>1 DEF Stands, Easy, Found, At
<1> QED
  BY <1>1, <1>2, <1>3, <1>4 DEF Advances, Call

LEMMA Transits ==
  ASSUME IInv, NEW w \in Workers, NEW from, NEW new, NEW place \in Places,
         Transition(w, from, new, place), Holds(w, from) => Wrote(Row(w), new),
         UNCHANGED <<usdt, ton, transit, wallet, service, sent>>
  PROVE  /\ RowsGrow /\ StatusesKept /\ Moved(w) /\ Believes(w)'
         /\ Job(w)' = Job(w)
         /\ \/ worker'[w].at = "CATCH"
            \/ Holds(w, from) /\ worker'[w].at = place /\ Rec(w)' = new /\ Row(w)' = new
<1>1. CASE Holds(w, from)
  <2>1. /\ row' = [row EXCEPT ![Job(w)] = new] /\ new \in Rows
        /\ worker' = [worker EXCEPT ![w].rec = new, ![w].at = place]
    BY <1>1 DEF Transition, Wrote, Grows
  <2>2. RowsGrow /\ StatusesKept /\ row'[Job(w)] = new
    BY <1>1, <2>1, CallTypes, RowWritten DEF Row
  <2>3. /\ Moved(w)
        /\ worker'[w].at = place /\ worker'[w].job = worker[w].job /\ worker'[w].rec = new
    BY <2>1, Types DEF Moved, Calls
  <2>4. Job(w)' = Job(w) /\ Rec(w)' = new /\ Row(w)' = new
    BY <2>2, <2>3 DEF Job, Rec, Row
  <2>5. Believes(w)'
    BY <2>2, <2>3, CallTypes, FreshCall DEF Job
  <2> QED
    BY <1>1, <2>2, <2>3, <2>4, <2>5
<1>2. CASE ~Holds(w, from)
  <2>1. GoTo(w, "CATCH") /\ UNCHANGED row /\ "CATCH" \in Places
    BY <1>2 DEF Transition, Places
  <2>2. /\ Moved(w)
        /\ worker'[w].at = "CATCH" /\ worker'[w].job = worker[w].job
        /\ worker'[w].rec = worker[w].rec
    BY <2>1, Going
  <2>3. RowsGrow /\ StatusesKept
    BY <2>1, RowsKept
  <2>4. Believes(w)'
    BY <2>2, <2>3, BelievesStill
  <2> QED
    BY <2>2, <2>3, <2>4 DEF Job
<1> QED
  BY <1>1, <1>2

\* A write after which the call has nothing to know.
LEMMA TransitsEasily ==
  ASSUME IInv, NEW w \in Workers, NEW from, NEW new, NEW place \in Easy,
         Transition(w, from, new, place), Holds(w, from) => Wrote(Row(w), new),
         UNCHANGED <<usdt, ton, transit, wallet, service, sent>>
  PROVE  Advances(w)
<1>1. place \in Places
  BY DEF Easy, Places
<1>2. RowsGrow /\ StatusesKept /\ Moved(w) /\ Believes(w)' /\ worker'[w].at \in Easy
  BY <1>1, Transits DEF Easy
<1>3. Stands(w)'
  BY <1>2 DEF Stands, Easy, Found, At
<1> QED
  BY <1>2, <1>3 DEF Advances, Call

\* The other writes: what the call knows is in the row.
LEMMA TransitsTo ==
  ASSUME IInv, NEW w \in Workers, NEW from, NEW new, NEW place \in Places,
         Transition(w, from, new, place), Holds(w, from) => Wrote(Row(w), new),
         UNCHANGED <<usdt, ton, transit, wallet, service, sent>>,
         (/\ Holds(w, from) /\ worker'[w].at = place
          /\ Rec(w)' = new /\ Row(w)' = new /\ Job(w)' = Job(w)) => Stands(w)'
  PROVE  Advances(w)
<1>1. /\ RowsGrow /\ StatusesKept /\ Moved(w) /\ Believes(w)'
      /\ Job(w)' = Job(w)
      /\ \/ worker'[w].at = "CATCH"
         \/ Holds(w, from) /\ worker'[w].at = place /\ Rec(w)' = new /\ Row(w)' = new
  BY Transits
<1>2. Stands(w)'
  BY <1>1 DEF Stands, Found, At
<1> QED
  BY <1>1, <1>2 DEF Advances, Call

LEMMA AdvanceKeeps ==
  ASSUME IInv, NEW w \in Workers, Advances(w),
         \A x \in pending' : x \in pending \/ (x \in Messages /\ Pends(x)),
         signing' \in [Deposits -> Owners], gas' \in Owners, events' \in 0..MaxEvents
  PROVE  IInv'
<1>1. OneLive'
  BY DEF IInv, OneLive, Advances, StatusesKept, Live, Active, Gassing
<1>2. ConfirmedMoved'
  BY DEF IInv, ConfirmedMoved, Advances, StatusesKept, Active, Gassing, RowsGrow, IsOnChain
<1> QED
  BY <1>1, <1>2, Frame, {w} \in SUBSET Workers DEF Advances, Moved
-----------------------------------------------------------------------------
(* The steps of a call one by one.                                          *)

\* What a call goes on knowing if no row is written.
LEMMA Knows ==
  ASSUME IInv, NEW w \in Workers, NEW place, GoTo(w, place), place \in Places,
         UNCHANGED <<row, usdt, ton, transit, wallet, service, sent>>
  PROVE  /\ worker'[w].at = place
         /\ Rec(w)' = Rec(w) /\ Row(w)' = Row(w) /\ Job(w)' = Job(w) /\ Dep(w)' = Dep(w)
         /\ IsOnChain(Job(w))' = IsOnChain(Job(w)) /\ UNCHANGED ton
<1>1. worker'[w].at = place /\ worker'[w].job = worker[w].job /\ worker'[w].rec = worker[w].rec
  BY Going
<1> QED
  BY <1>1 DEF Rec, Row, Job, Dep, IsOnChain

LEMMA LeaseGoes ==
  ASSUME IInv, NEW w \in Workers, NEW place \in Places,
         AcquireGas(w, place) \/ AcquireWallet(w, place),
         GoTo(w, place) => Advances(w)
  PROVE  IInv' /\ Advances(w) /\ UNCHANGED sent
<1>1. /\ UNCHANGED <<row, usdt, ton, transit, wallet, service, pending, sent, events>>
      /\ GoTo(w, place) \/ GoTo(w, "DEFER")
      /\ signing' \in [Deposits -> Owners] /\ gas' \in Owners
  BY Types DEF AcquireGas, AcquireWallet, chain, Owners
<1>2. Advances(w)
  <2>1. "DEFER" \in Places /\ "DEFER" \in Easy
    BY DEF Places, Easy
  <2> QED
    BY <1>1, <2>1, GoesOn
<1>3. events' \in 0..MaxEvents
  BY <1>1 DEF IInv, TypeOK
<1> QED
  BY <1>1, <1>2, <1>3, AdvanceKeeps

LEMMA FindAdvances ==
  ASSUME IInv, NEW w \in Workers, Find(w)
  PROVE  Advances(w)
<1>1. /\ At(w, "FIND") /\ Rec(w).status = "SENT"
      /\ UNCHANGED <<usdt, ton, transit, wallet, service, sent>>
  BY CallTypes DEF Find, Stands, chain
<1>2. ASSUME Matches(w) # {}, UNCHANGED row,
             GoTo(w, IF NeedsReserve(w) THEN "REPAIR_LEASE" ELSE "CONFIRM")
      PROVE  Advances(w)
  <2> DEFINE place == IF NeedsReserve(w) THEN "REPAIR_LEASE" ELSE "CONFIRM"
  <2>1. place \in Places /\ GoTo(w, place)
    BY <1>2 DEF Places
  <2>2. IsOnChain(Job(w))
    BY <1>2 DEF Matches, IsOnChain
  <2>3. place = "CONFIRM" => ton[Dep(w)] >= Reserve
    BY CallTypes, Types, UsdtAssumption DEF NeedsReserve, TargetCoversReserve
  <2>4. place \in {"REPAIR_LEASE", "CONFIRM"}
    OBVIOUS
  <2> HIDE DEF place
  <2>5. /\ worker'[w].at = place
        /\ Rec(w)' = Rec(w) /\ Row(w)' = Row(w) /\ Job(w)' = Job(w) /\ Dep(w)' = Dep(w)
        /\ IsOnChain(Job(w))' = IsOnChain(Job(w)) /\ UNCHANGED ton
    BY <1>1, <1>2, <2>1, Knows
  <2>6. Stands(w)'
    BY <1>1, <2>2, <2>3, <2>4, <2>5 DEF Stands, Found, At
  <2> QED
    BY <1>1, <1>2, <2>1, <2>6, GoesOn
<1>3. ASSUME Transition(w, {"SENT"}, [Row(w) EXCEPT !.status = "READY"], "READY")
      PROVE  Advances(w)
  <2> DEFINE new == [Row(w) EXCEPT !.status = "READY"]
  <2>1. Holds(w, {"SENT"}) => Wrote(Row(w), new)
    BY CallTypes, StatusWrites DEF Holds, Active, Gassing
  <2>2. ASSUME Holds(w, {"SENT"}), worker'[w].at = "READY", Rec(w)' = new, Row(w)' = new
        PROVE  Stands(w)'
    <3>1. new.seqno = Row(w).seqno /\ Row(w).seqno # None
      BY <2>2, CallTypes DEF Rows, Holds, RowOK, RowIsLegal
    <3> HIDE DEF new
    <3> QED
      BY <2>2, <3>1 DEF Stands, Found, At
  <2>10. Transition(w, {"SENT"}, new, "READY") /\ "READY" \in Places
    BY <1>3 DEF Places
  <2> HIDE DEF new
  <2> QED
    BY <1>1, <2>1, <2>2, <2>10, TransitsTo
<1>4. ASSUME NEW place \in {"FAIL", "DEFER"}, GoTo(w, place), UNCHANGED row
      PROVE  Advances(w)
  <2>1. place \in Places /\ place \in Easy
    BY DEF Places, Easy
  <2> QED
    BY <1>1, <1>4, <2>1, GoesOn
<1> QED
  BY <1>2, <1>3, <1>4 DEF Find

LEMMA RepairPlanAdvances ==
  ASSUME IInv, NEW w \in Workers, RepairPlan(w)
  PROVE  Advances(w)
<1>1. /\ IsOnChain(Job(w)) /\ service \in Nat
      /\ UNCHANGED <<usdt, ton, transit, wallet, service, sent>>
  BY CallTypes, Types DEF RepairPlan, Stands, Found, At, chain
<1>2. ASSUME NEW amount \in 1..Reserve,
             Transition(w, {"SENT"},
               [Row(w) EXCEPT !.repair = [amount |-> amount, seqno |-> service], !.key = service],
               "REPAIR")
      PROVE  Advances(w)
  <2> DEFINE new == [Row(w) EXCEPT !.repair = [amount |-> amount, seqno |-> service],
                                   !.key = service]
  <2>0. amount \in Nat \ {0}
    BY UsdtAssumption DEF TargetCoversReserve
  <2>1. Holds(w, {"SENT"}) => Wrote(Row(w), new)
    BY <1>1, <2>0, CallTypes, RepairWrites DEF Holds
  <2>2. ASSUME Holds(w, {"SENT"}), worker'[w].at = "REPAIR", Rec(w)' = new, Row(w)' = new,
               Job(w)' = Job(w)
        PROVE  Stands(w)'
    <3>1. new.status = "SENT" /\ new.repair.seqno = service /\ service # None
      BY <1>1, <2>2, CallTypes DEF Rows, Holds, None
    <3>2. IsOnChain(Job(w))'
      BY <1>1, <2>2 DEF IsOnChain
    <3> HIDE DEF new
    <3> QED
      BY <2>2, <3>1, <3>2 DEF Stands, Found, At
  <2>10. Transition(w, {"SENT"}, new, "REPAIR") /\ "REPAIR" \in Places
    BY <1>2 DEF Places
  <2> HIDE DEF new
  <2> QED
    BY <1>1, <2>1, <2>2, <2>10, TransitsTo
<1>3. ASSUME GoTo(w, "CATCH"), UNCHANGED row
      PROVE  Advances(w)
  BY <1>1, <1>3, GoesOn DEF Places, Easy
<1> QED
  BY <1>2, <1>3 DEF RepairPlan

LEMMA RepairAdvances ==
  ASSUME IInv, NEW w \in Workers, Repair(w)
  PROVE  Advances(w)
<1>1. /\ At(w, "REPAIR") /\ IsOnChain(Job(w)) /\ Rec(w).status = "SENT"
      /\ Row(w).repair.seqno # None
      /\ UNCHANGED <<usdt, ton, transit, wallet, service, sent>>
  BY CallTypes DEF Repair, Stands, Believes, Found, At, chain
<1>2. ton[Dep(w)] \in Nat /\ Reserve \in Nat
  BY CallTypes, Types, UsdtAssumption DEF TargetCoversReserve
<1>3. ASSUME NEW place \in {"CONFIRM", "TOP_UP"}, GoTo(w, place), UNCHANGED row,
             place = "CONFIRM" => ~NeedsReserve(w)
      PROVE  Advances(w)
  <2>1. place \in Places
    BY DEF Places
  <2>2. /\ worker'[w].at = place
        /\ Rec(w)' = Rec(w) /\ Row(w)' = Row(w) /\ Job(w)' = Job(w) /\ Dep(w)' = Dep(w)
        /\ IsOnChain(Job(w))' = IsOnChain(Job(w)) /\ UNCHANGED ton
    BY <1>1, <1>3, <2>1, Knows
  <2>3. Stands(w)'
    BY <1>1, <1>2, <1>3, <2>2 DEF Stands, Found, At, NeedsReserve
  <2> QED
    BY <1>1, <1>3, <2>1, <2>3, GoesOn
<1>4. ASSUME NEW place \in {"FAIL", "DEFER"}, GoTo(w, place), UNCHANGED row
      PROVE  Advances(w)
  <2>1. place \in Places /\ place \in Easy
    BY DEF Places, Easy
  <2> QED
    BY <1>1, <1>4, <2>1, GoesOn
<1>5. ASSUME NeedsReserve(w), NEW a, a = Reserve - ton[Dep(w)],
             Transition(w, {"SENT"}, [Row(w) EXCEPT !.repair.amount = a], "TOP_UP")
      PROVE  Advances(w)
  <2> DEFINE new == [Row(w) EXCEPT !.repair.amount = a]
  <2>1. a \in Nat \ {0}
    BY <1>2, <1>5 DEF NeedsReserve
  <2>2. Holds(w, {"SENT"}) => Wrote(Row(w), new)
    BY <1>1, <2>1, CallTypes, RepairAmountWrites DEF Holds
  <2>3. ASSUME Holds(w, {"SENT"}), worker'[w].at = "TOP_UP", Rec(w)' = new, Row(w)' = new,
               Job(w)' = Job(w)
        PROVE  Stands(w)'
    <3>1. new.status = "SENT"
      BY <2>3, CallTypes DEF Rows, Holds
    <3>2. IsOnChain(Job(w))'
      BY <1>1, <2>3 DEF IsOnChain
    <3> HIDE DEF new
    <3> QED
      BY <2>3, <3>1, <3>2 DEF Stands, Found, At
  <2>10. Transition(w, {"SENT"}, new, "TOP_UP") /\ "TOP_UP" \in Places
    BY <1>5 DEF Places
  <2> HIDE DEF new
  <2> QED
    BY <1>1, <2>2, <2>3, <2>10, TransitsTo
<1> QED
  BY <1>3, <1>4, <1>5 DEF Repair

LEMMA MarkSentAdvances ==
  ASSUME IInv, NEW w \in Workers, MarkSent(w)
  PROVE  Advances(w)
<1>1. UNCHANGED <<usdt, ton, transit, wallet, service, sent>>
  BY DEF MarkSent, chain
<1>2. SentAt(w) \subseteq {"EARLY", "LATE"}
  BY CallTypes DEF SentAt, Rows
<1>3. PICK t \in SentAt(w) :
        Transition(w, {"READY"}, [Row(w) EXCEPT !.status = "SENT", !.sentAt = t], "RELEASE")
  BY DEF MarkSent
<1> DEFINE new == [Row(w) EXCEPT !.status = "SENT", !.sentAt = t]
<1>4. Holds(w, {"READY"}) => Wrote(Row(w), new)
  BY <1>2, CallTypes, SentWrites DEF Holds
<1>5. Transition(w, {"READY"}, new, "RELEASE") /\ "RELEASE" \in Easy
  BY <1>3 DEF Easy
<1> HIDE DEF new
<1> QED
  BY <1>1, <1>4, <1>5, TransitsEasily

LEMMA GasSendAdvances ==
  ASSUME IInv, NEW w \in Workers, GasSend(w)
  PROVE  Advances(w)
<1>1. /\ At(w, "GAS_SEND") /\ Rec(w).status # "SENT"
      /\ UNCHANGED <<usdt, ton, transit, wallet, service, sent>>
  BY CallTypes DEF GasSend, Stands, At, chain
<1>2. ton[Dep(w)] \in Nat /\ Target \in Nat
  BY CallTypes, Types, UsdtAssumption DEF TargetCoversReserve
<1>3. ASSUME NEW place \in {"GAS_SENT", "TOP_UP"}, GoTo(w, place), UNCHANGED row
      PROVE  Advances(w)
  <2>1. place \in Places
    BY DEF Places
  <2>2. worker'[w].at = place /\ Rec(w)' = Rec(w)
    BY <1>1, <1>3, <2>1, Knows
  <2>3. Stands(w)'
    BY <1>1, <2>2 DEF Stands, Found, At
  <2> QED
    BY <1>1, <1>3, <2>1, <2>3, GoesOn
<1>4. ASSUME Transition(w, Gassing, [Row(w) EXCEPT !.status = "GAS_TOPUP_SENT"], "DEFER")
      PROVE  Advances(w)
  <2> DEFINE new == [Row(w) EXCEPT !.status = "GAS_TOPUP_SENT"]
  <2>1. Holds(w, Gassing) => Wrote(Row(w), new)
    BY CallTypes, StatusWrites DEF Holds, Gassing, Active
  <2>2. Transition(w, Gassing, new, "DEFER") /\ "DEFER" \in Easy
    BY <1>4 DEF Easy
  <2> HIDE DEF new
  <2> QED
    BY <1>1, <2>1, <2>2, TransitsEasily
<1>5. ASSUME NeedsTopUp(w), NEW a, a = Target - ton[Dep(w)],
             Transition(w, {"GAS_TOPUP_REQUIRED"}, [Row(w) EXCEPT !.topup.amount = a], "TOP_UP")
      PROVE  Advances(w)
  <2> DEFINE new == [Row(w) EXCEPT !.topup.amount = a]
  <2>1. a \in Nat \ {0}
    BY <1>2, <1>5 DEF NeedsTopUp
  <2>2. Holds(w, {"GAS_TOPUP_REQUIRED"}) => Wrote(Row(w), new)
    BY <2>1, CallTypes, TopUpAmountWrites DEF Holds
  <2>3. ASSUME Holds(w, {"GAS_TOPUP_REQUIRED"}), worker'[w].at = "TOP_UP", Rec(w)' = new
        PROVE  Stands(w)'
    <3>1. new.status # "SENT"
      BY <2>3, CallTypes DEF Rows, Holds
    <3> HIDE DEF new
    <3> QED
      BY <2>3, <3>1 DEF Stands, Found, At
  <2>4. Transition(w, {"GAS_TOPUP_REQUIRED"}, new, "TOP_UP") /\ "TOP_UP" \in Places
    BY <1>5 DEF Places
  <2> HIDE DEF new
  <2> QED
    BY <1>1, <2>2, <2>3, <2>4, TransitsTo
<1> QED
  BY <1>3, <1>4, <1>5 DEF GasSend

LEMMA GasSentAdvances ==
  ASSUME IInv, NEW w \in Workers, GasSent(w)
  PROVE  Advances(w)
<1> DEFINE new == [Row(w) EXCEPT !.status = "GAS_TOPUP_SENT"]
<1>1. UNCHANGED <<usdt, ton, transit, wallet, service, sent>>
  BY DEF GasSent, chain
<1>2. Holds(w, Gassing) => Wrote(Row(w), new)
  BY CallTypes, StatusWrites DEF Holds, Gassing, Active
<1>3. Transition(w, Gassing, new, "DEFER") /\ "DEFER" \in Easy
  BY DEF GasSent, Easy
<1> HIDE DEF new
<1> QED
  BY <1>1, <1>2, <1>3, TransitsEasily

LEMMA CheckTopupAdvances ==
  ASSUME IInv, NEW w \in Workers, CheckTopup(w)
  PROVE  Advances(w)
<1>1. UNCHANGED <<usdt, ton, transit, wallet, service, sent>>
  BY DEF CheckTopup, chain
<1>2. ASSUME NEW place \in {"FAIL", "BALANCES"}, GoTo(w, place), UNCHANGED row
      PROVE  Advances(w)
  <2>1. place \in Places /\ place \in Easy
    BY DEF Places, Easy
  <2> QED
    BY <1>1, <1>2, <2>1, GoesOn
<1>3. ASSUME Transition(w, {"GAS_TOPUP_SENT"},
                        [Row(w) EXCEPT !.status = "GAS_TOPUP_REQUIRED"], "GAS_READY")
      PROVE  Advances(w)
  <2> DEFINE new == [Row(w) EXCEPT !.status = "GAS_TOPUP_REQUIRED"]
  <2>1. Holds(w, {"GAS_TOPUP_SENT"}) => Wrote(Row(w), new)
    BY CallTypes, StatusWrites DEF Holds, Gassing, Active
  <2>2. ASSUME worker'[w].at = "GAS_READY", Rec(w)' = new
        PROVE  Stands(w)'
    <3>1. new.status # "SENT"
      BY CallTypes DEF Rows
    <3> HIDE DEF new
    <3> QED
      BY <2>2, <3>1 DEF Stands, Found, At
  <2>3. Transition(w, {"GAS_TOPUP_SENT"}, new, "GAS_READY") /\ "GAS_READY" \in Places
    BY <1>3 DEF Places
  <2> HIDE DEF new
  <2> QED
    BY <1>1, <2>1, <2>2, <2>3, TransitsTo
<1> QED
  BY <1>2, <1>3 DEF CheckTopup

LEMMA BalancesAdvances ==
  ASSUME IInv, NEW w \in Workers, Balances(w)
  PROVE  Advances(w)
<1>1. UNCHANGED <<row, usdt, ton, transit, wallet, service, sent>>
  BY DEF Balances, chain
<1>2. ASSUME NEW place \in {"FAIL", "DEFER"}, GoTo(w, place)
      PROVE  Advances(w)
  <2>1. place \in Places /\ place \in Easy
    BY DEF Places, Easy
  <2> QED
    BY <1>1, <1>2, <2>1, GoesOn
<1>3. ASSUME usdt[Dep(w)] # 0, NEW place \in {"GAS_LEASE", "LEASE", "GAS_CHECK"},
             worker' = [worker EXCEPT ![w].rec.amount = usdt[Dep(w)], ![w].at = place]
      PROVE  Advances(w)
  <2>1. usdt[Dep(w)] \in Nat \ {0} /\ worker \in [Workers -> Calls] /\ place \in Places
    BY <1>3, CallTypes, Types DEF Places
  <2> DEFINE rec == [worker[w].rec EXCEPT !.amount = usdt[Dep(w)]]
  <2>2. /\ rec \in Rows /\ rec.amount > 0
        /\ rec.topup = worker[w].rec.topup /\ rec.repair = worker[w].rec.repair
    BY <2>1, CallTypes DEF Rows, Rec
  <2>3. worker' = [worker EXCEPT ![w].rec = rec, ![w].at = place]
    BY <1>3, <2>1 DEF Calls
  <2> HIDE DEF rec
  <2>4. /\ Moved(w)
        /\ worker'[w].at = place /\ worker'[w].job = worker[w].job /\ worker'[w].rec = rec
    BY <2>1, <2>2, <2>3 DEF Moved, Calls
  <2>5. RowsGrow /\ StatusesKept
    BY <1>1, RowsKept
  <2>6. Believes(w)'
    BY <2>2, <2>4, <2>5, BelievesStill
  <2>7. Stands(w)'
    BY <2>2, <2>4 DEF Stands, Found, At, Rec
  <2> QED
    BY <2>4, <2>5, <2>6, <2>7 DEF Advances, Call
<1> QED
  BY <1>2, <1>3 DEF Balances

LEMMA GasPlanAdvances ==
  ASSUME IInv, NEW w \in Workers, GasPlan(w)
  PROVE  Advances(w)
<1> DEFINE from == {"QUEUED", "GAS_CHECK", "GAS_TOPUP_SENT"}
<1>1. /\ UNCHANGED <<usdt, ton, transit, wallet, service, sent>>
      /\ service \in Nat
  BY Types DEF GasPlan, chain
<1>2. ASSUME NEW amount \in 1..Target,
             Transition(w, from,
               [Row(w) EXCEPT !.status = "GAS_TOPUP_REQUIRED", !.key = service,
                              !.topup = [amount |-> amount, seqno |-> service]],
               "GAS_READY")
      PROVE  Advances(w)
  <2> DEFINE new == [Row(w) EXCEPT !.status = "GAS_TOPUP_REQUIRED", !.key = service,
                                   !.topup = [amount |-> amount, seqno |-> service]]
  <2>0. amount \in Nat \ {0}
    BY UsdtAssumption DEF TargetCoversReserve
  <2>1. Holds(w, from) => Wrote(Row(w), new)
    BY <1>1, <2>0, CallTypes, TopUpWrites DEF Holds
  <2>2. ASSUME worker'[w].at = "GAS_READY", Rec(w)' = new
        PROVE  Stands(w)'
    <3>1. new.status # "SENT"
      BY CallTypes DEF Rows
    <3> HIDE DEF new
    <3> QED
      BY <2>2, <3>1 DEF Stands, Found, At
  <2>3. Transition(w, from, new, "GAS_READY") /\ "GAS_READY" \in Places
    BY <1>2 DEF Places
  <2> HIDE DEF new, from
  <2> QED
    BY <1>1, <2>1, <2>2, <2>3, TransitsTo
<1>3. ASSUME GoTo(w, "CATCH"), UNCHANGED row
      PROVE  Advances(w)
  BY <1>1, <1>3, GoesOn DEF Places, Easy
<1> QED
  BY <1>2, <1>3 DEF GasPlan

LEMMA GasCheckAdvances ==
  ASSUME IInv, NEW w \in Workers, GasCheck(w)
  PROVE  Advances(w)
<1>1. /\ UNCHANGED <<usdt, ton, transit, wallet, service, sent>>
      /\ Rec(w).amount > 0
  BY CallTypes DEF GasCheck, chain, Stands, At
<1>2. ASSUME GoTo(w, "CATCH"), UNCHANGED row
      PROVE  Advances(w)
  BY <1>1, <1>2, GoesOn DEF Places, Easy
<1>3. ASSUME Holds(w, {"QUEUED", "GAS_TOPUP_SENT"}),
             row' = [row EXCEPT ![Job(w)].status = "GAS_CHECK", ![Job(w)].key = None],
             worker' = [worker EXCEPT ![w].rec = [row'[Job(w)] EXCEPT !.amount = Rec(w).amount],
                                      ![w].at = "LEASE"]
      PROVE  Advances(w)
  <2> DEFINE new == [Row(w) EXCEPT !.status = "GAS_CHECK", !.key = None]
             rec == [row'[Job(w)] EXCEPT !.amount = Rec(w).amount]
  <2>1. row' = [row EXCEPT ![Job(w)] = new]
    BY <1>3, Types, CallTypes DEF Row
  <2>2. Wrote(Row(w), new)
    BY <1>3, CallTypes, GasCheckWrites DEF Holds
  <2> HIDE DEF new
  <2>3. RowsGrow /\ StatusesKept /\ row'[Job(w)] = new
    BY <1>1, <2>1, <2>2, CallTypes, RowWritten DEF Row
  <2>4. /\ rec \in Rows /\ rec.amount = Rec(w).amount
        /\ rec.topup = row'[Job(w)].topup /\ rec.repair = row'[Job(w)].repair
    BY <2>2, <2>3, CallTypes DEF Wrote, Grows, Rows
  <2>5. /\ worker' = [worker EXCEPT ![w].rec = rec, ![w].at = "LEASE"]
        /\ worker \in [Workers -> Calls] /\ "LEASE" \in Places
    BY <1>3, Types DEF Places
  <2> HIDE DEF rec
  <2>6. /\ Moved(w)
        /\ worker'[w].at = "LEASE" /\ worker'[w].job = worker[w].job /\ worker'[w].rec = rec
    BY <2>4, <2>5 DEF Moved, Calls
  <2>7. Believes(w)'
    BY <2>3, <2>4, <2>6, CallTypes, FreshCall DEF Job
  <2>8. Stands(w)'
    BY <1>1, <2>4, <2>6 DEF Stands, Found, At, Rec
  <2> QED
    BY <2>3, <2>6, <2>7, <2>8 DEF Advances, Call
<1> QED
  BY <1>2, <1>3 DEF GasCheck

LEMMA PlanAdvances ==
  ASSUME IInv, NEW w \in Workers, Plan(w)
  PROVE  Advances(w)
<1> DEFINE new == [Row(w) EXCEPT !.status = "READY", !.amount = Rec(w).amount,
                                 !.seqno = wallet[Dep(w)]]
<1>1. /\ UNCHANGED <<usdt, ton, transit, wallet, service, sent>>
      /\ Rec(w).amount \in Nat \ {0} /\ wallet[Dep(w)] \in Nat
  <2>1. Rec(w).amount > 0 /\ Rec(w).amount \in Nat
    BY CallTypes DEF Plan, Stands, At, Rows
  <2>2. wallet[Dep(w)] \in Nat
    BY CallTypes, Types
  <2> QED
    BY <2>1, <2>2 DEF Plan, chain
<1>2. Holds(w, {"GAS_CHECK"}) => Wrote(Row(w), new)
  BY <1>1, CallTypes, PlanWrites DEF Holds
<1>3. ASSUME worker'[w].at = "READY", Rec(w)' = new, Row(w)' = new
      PROVE  Stands(w)'
  <2>1. new.seqno # None
    BY <1>1, CallTypes DEF Rows, None
  <2> HIDE DEF new
  <2> QED
    BY <1>3, <2>1 DEF Stands, Found, At
<1>4. Transition(w, {"GAS_CHECK"}, new, "READY") /\ "READY" \in Places
  BY DEF Plan, Places
<1> HIDE DEF new
<1> QED
  BY <1>1, <1>2, <1>3, <1>4, TransitsTo

LEMMA ClaimAdvances ==
  ASSUME IInv, NEW w \in Workers, NEW j \in Jobs, Claim(w, j)
  PROVE  Advances(w)
<1> DEFINE new   == [row[j] EXCEPT !.owner = w,
                                   !.attempts = IF @ < MaxAttempts THEN @ + 1 ELSE @]
           place == Entry(new.status)
           late  == new.sentAt = "NONE" /\ IsOnChain(j)
           call  == [at |-> place, job |-> j, rec |-> new, late |-> late, slow |-> FALSE]
<1>1. /\ row[j] \in Rows /\ RowOK(row[j]) /\ w \in Owners
      /\ worker \in [Workers -> Calls]
      /\ UNCHANGED <<usdt, ton, transit, wallet, service, sent>>
  BY Types DEF Claim, chain, Owners
<1>2. Wrote(row[j], new)
  BY <1>1, ClaimWrites
<1>3. new \in Rows /\ RowOK(new)
  BY <1>2 DEF Wrote, Grows
<1>4. row' = [row EXCEPT ![j] = new] /\ worker' = [worker EXCEPT ![w] = call]
  BY DEF Claim
<1> HIDE DEF new
<1>5. RowsGrow /\ StatusesKept /\ row'[j] = new
  BY <1>1, <1>2, <1>4, RowWritten
<1>6. place \in Places /\ late \in BOOLEAN
  BY DEF Entry, Places
<1>7. /\ new.status \in {"READY", "SENT"} => new.seqno # None
      /\ new.status = "SENT" => place = "FIND"
      /\ new.status = "READY" => place = "READY"
      /\ new.status = "GAS_TOPUP_REQUIRED" => place = "GAS_READY"
      /\ new.status \notin {"SENT", "READY", "GAS_TOPUP_REQUIRED"} =>
           place \in {"CHECK_TOPUP", "BALANCES"}
  BY <1>3 DEF RowOK, RowIsLegal, Entry
<1> HIDE DEF place, late
<1>8. call \in Calls
  BY <1>3, <1>6 DEF Calls
<1>9. call.at = place /\ call.job = j /\ call.rec = new
  OBVIOUS
<1> HIDE DEF call
<1>10. Moved(w) /\ worker'[w] = call
  BY <1>1, <1>4, <1>8 DEF Moved
<1>11. Believes(w)'
  BY <1>5, <1>9, <1>10, FreshCall
<1>12. Stands(w)'
  BY <1>5, <1>7, <1>9, <1>10 DEF Stands, Found, At, Rec, Row, Job
<1> QED
  BY <1>5, <1>10, <1>11, <1>12 DEF Advances, Call

\* The steps that only look, or wait.
LEMMA LooksAdvance ==
  ASSUME IInv, NEW w \in Workers,
         SendTopUp(w) \/ Repaired(w) \/ Send(w) \/ Release(w) \/ Catch(w) \/ Throws(w)
  PROVE  Advances(w)
<1>1. UNCHANGED <<row, usdt, ton, transit, wallet, service, sent>>
  BY DEF SendTopUp, Repaired, Send, Release, Catch, Throws, chain
<1>2. ASSUME NEW place \in Easy, GoTo(w, place)
      PROVE  Advances(w)
  <2>1. place \in Places
    BY DEF Places, Easy
  <2> QED
    BY <1>1, <1>2, <2>1, GoesOn
<1>3. CASE SendTopUp(w)
  <2> DEFINE place == IF Rec(w).status = "SENT" THEN "REPAIRED" ELSE "GAS_SENT"
  <2>1. At(w, "TOP_UP") /\ GoTo(w, place) /\ place \in Places
    BY <1>3 DEF SendTopUp, Places
  <2>2. /\ worker'[w].at = place
        /\ Rec(w)' = Rec(w) /\ IsOnChain(Job(w))' = IsOnChain(Job(w))
    BY <1>1, <2>1, Knows
  <2>3. Stands(w)'
    BY <2>1, <2>2, CallTypes DEF Stands, Found, At
  <2> QED
    BY <1>1, <2>1, <2>3, GoesOn
<1>4. CASE Repaired(w)
  <2>1. At(w, "REPAIRED") /\ (NeedsReserve(w) \/ GoTo(w, "CONFIRM")) /\ "CONFIRM" \in Places
    BY <1>4 DEF Repaired, Places
  <2>2. CASE NeedsReserve(w)
    BY <1>2, <1>4, <2>2 DEF Repaired, Easy
  <2>3. CASE ~NeedsReserve(w) /\ GoTo(w, "CONFIRM")
    <3>1. /\ worker'[w].at = "CONFIRM"
          /\ Rec(w)' = Rec(w) /\ Job(w)' = Job(w) /\ Dep(w)' = Dep(w)
          /\ IsOnChain(Job(w))' = IsOnChain(Job(w)) /\ UNCHANGED ton
      BY <1>1, <2>1, <2>3, Knows
    <3>2. ton[Dep(w)] >= Reserve
      BY <2>3, CallTypes, Types, UsdtAssumption DEF NeedsReserve, TargetCoversReserve
    <3>3. Stands(w)'
      BY <2>1, <3>1, <3>2, CallTypes DEF Stands, Found, At
    <3> QED
      BY <1>1, <2>1, <2>3, <3>3, GoesOn
  <2> QED
    BY <2>1, <2>2, <2>3
<1>5. CASE Send(w) \/ Release(w) \/ Catch(w) \/ Throws(w)
  BY <1>2, <1>5 DEF Send, Release, Catch, Throws, Easy
<1> QED
  BY <1>3, <1>4, <1>5

LEMMA LeasesAdvance ==
  ASSUME IInv, NEW w \in Workers,
         RepairLease(w) \/ Ready(w) \/ GasReady(w) \/ GasLease(w) \/ Lease(w)
  PROVE  IInv' /\ Advances(w) /\ UNCHANGED sent
<1>1. PICK place \in Places :
        /\ AcquireGas(w, place) \/ AcquireWallet(w, place)
        /\ \/ At(w, "REPAIR_LEASE") /\ Rec(w).repair = NoTopUp /\ place = "REPAIR_PLAN"
           \/ At(w, "REPAIR_LEASE") /\ Rec(w).repair # NoTopUp /\ place = "REPAIR"
           \/ At(w, "READY") /\ place = "SEND"
           \/ At(w, "GAS_READY") /\ place = "GAS_SEND"
           \/ At(w, "GAS_LEASE") /\ place = "GAS_PLAN"
           \/ At(w, "LEASE") /\ place = "PLAN"
  BY Zenon DEF RepairLease, Ready, GasReady, GasLease, Lease, Places
<1>2. UNCHANGED <<row, usdt, ton, transit, wallet, service, sent>>
  BY <1>1 DEF AcquireGas, AcquireWallet, chain
<1>3. Rec(w).repair # NoTopUp => Rec(w).repair.seqno # None
  BY CallTypes DEF Believes, Rows, TopUps, NoTopUp
<1>4. ASSUME GoTo(w, place) PROVE Advances(w)
  <2>1. /\ worker'[w].at = place
        /\ Rec(w)' = Rec(w) /\ Row(w)' = Row(w)
        /\ IsOnChain(Job(w))' = IsOnChain(Job(w))
    BY <1>2, <1>4, Knows
  <2>2. Stands(w)'
    BY <1>1, <1>3, <2>1, CallTypes DEF Stands, Found, At
  <2> QED
    BY <1>2, <1>4, <2>2, GoesOn
<1> QED
  BY <1>1, <1>4, LeaseGoes

LEMMA SlowAdvances ==
  ASSUME IInv, NEW w \in Workers, Slow(w)
  PROVE  Advances(w)
<1>1. UNCHANGED <<row, usdt, ton, transit, wallet, service, sent>>
  BY DEF Slow, chain
<1>2. /\ Moved(w)
      /\ worker'[w].at = worker[w].at /\ worker'[w].job = worker[w].job
      /\ worker'[w].rec = worker[w].rec
  BY Types DEF Slow, Moved, Calls
<1>3. RowsGrow /\ StatusesKept
  BY <1>1, RowsKept
<1>4. Believes(w)'
  BY <1>2, <1>3, BelievesStill
<1>5. /\ Rec(w)' = Rec(w) /\ Row(w)' = Row(w) /\ Job(w)' = Job(w) /\ Dep(w)' = Dep(w)
      /\ IsOnChain(Job(w))' = IsOnChain(Job(w)) /\ UNCHANGED ton
  BY <1>1, <1>2 DEF Rec, Row, Job, Dep, IsOnChain
<1>6. Stands(w)'
  BY <1>2, <1>5, CallTypes DEF Stands, Found, At
<1> QED
  BY <1>2, <1>3, <1>4, <1>6 DEF Advances, Call

LEMMA Ending ==
  ASSUME IInv, NEW w \in Workers, EndCall(w), RowsGrow
  PROVE  Moved(w) /\ Call(w)'
<1>1. worker \in [Workers -> Calls] /\ worker' = [worker EXCEPT ![w] = Resting]
  BY Types DEF EndCall
<1>2. Moved(w) /\ worker'[w] = Resting
  BY <1>1, RestingCall DEF Moved
<1>3. Stands(w)'
  BY <1>2, RestingCall DEF Stands, Found, At
<1>4. Believes(w)'
  <2>1. /\ Rec(w)'.topup = NoTopUp /\ Rec(w)'.repair = NoTopUp
        /\ service' = service /\ service \in Nat
    BY <1>2, RestingCall, Types DEF Rec, RowsGrow
  <2> QED
    BY <2>1 DEF Believes, NoTopUp, None
<1> QED
  BY <1>2, <1>3, <1>4 DEF Call

LEMMA LeasesAbandoned ==
  ASSUME IInv, NEW w, Abandoned(w)
  PROVE  signing' \in [Deposits -> Owners] /\ gas' \in Owners
BY Types DEF Abandoned, Forgotten, Owners

LEMMA EventsTyped ==
  ASSUME IInv, Event \/ UNCHANGED events
  PROVE  events' \in 0..MaxEvents
BY UsdtAssumption DEF IInv, TypeOK, Event

\* The call lets go of its row, or is killed.
LEMMA LetsGo ==
  ASSUME IInv, NEW w \in Workers, Defer(w) \/ Crash(w)
  PROVE  IInv' /\ Advances(w) /\ UNCHANGED sent
<1>1. /\ UNCHANGED <<usdt, ton, transit, wallet, service, pending, sent>>
      /\ EndCall(w) /\ Abandoned(w) /\ (Event \/ UNCHANGED events)
      /\ Nobody \in Owners /\ Gone \in Owners
  BY DEF Defer, Crash, chain, Owners
<1>2. RowsGrow /\ StatusesKept
  <2>1. CASE UNCHANGED row
    BY <1>1, <2>1, RowsKept
  <2>2. ASSUME NEW o \in Owners, row' = [row EXCEPT ![Job(w)].owner = o]
        PROVE  RowsGrow /\ StatusesKept
    <3> DEFINE new == [Row(w) EXCEPT !.owner = o]
    <3>1. row' = [row EXCEPT ![Job(w)] = new] /\ Wrote(Row(w), new)
      BY <2>2, CallTypes, OwnerWrites DEF Row
    <3> HIDE DEF new
    <3> QED
      BY <1>1, <3>1, CallTypes, RowWritten DEF Row
  <2>3. CASE Defer(w)
    BY <1>1, <2>1, <2>2, <2>3 DEF Defer
  <2>4. CASE Crash(w)
    <3>1. Forgotten(w, Row(w).owner) \in Owners
      BY <1>1, CallTypes DEF Forgotten, Rows
    <3>2. row' = [row EXCEPT ![Job(w)].owner = Forgotten(w, Row(w).owner)]
      BY <2>4, Types, CallTypes DEF Crash, Row
    <3> QED
      BY <2>2, <3>1, <3>2
  <2> QED
    BY <2>3, <2>4
<1>3. Advances(w)
  BY <1>1, <1>2, Ending DEF Advances
<1>4. /\ signing' \in [Deposits -> Owners] /\ gas' \in Owners
      /\ events' \in 0..MaxEvents
  BY <1>1, LeasesAbandoned, EventsTyped
<1> QED
  BY <1>1, <1>3, <1>4, AdvanceKeeps

\* What is broadcast has been persisted before.
LEMMA TransferPends ==
  ASSUME IInv, NEW w \in Workers, At(w, "SEND"), Signed(w).seqno = wallet[Dep(w)]
  PROVE  Signed(w) \in Messages /\ Pends(Signed(w))
<1>1. /\ Rec(w).seqno # None /\ Rec(w).seqno = Row(w).seqno /\ Rec(w).amount = Row(w).amount
      /\ Row(w).amount > 0
  BY CallTypes DEF Stands, At, RowOK
<1>2. Rec(w).amount \in Nat /\ Rec(w).seqno \in Nat /\ Job(w) \in Jobs
  BY <1>1, CallTypes DEF Rows, Seqnos
<1>3. Signed(w) = Transfer(Job(w), row[Job(w)])
  BY <1>1 DEF Signed, Transfer, Row
<1>4. Signed(w).job = Job(w) /\ Signed(w).kind = "JETTON"
  BY DEF Signed, Transfer
<1>5. Signed(w) \in Messages
  BY <1>1, <1>2 DEF Signed, Transfer, Messages
<1> QED
  BY <1>3, <1>4, <1>5 DEF Pends, Backed, Dep

LEMMA TopUpPends ==
  ASSUME IInv, NEW w \in Workers, TopUpOf(w).seqno = service
  PROVE  TopUpOf(w) \in Messages /\ Pends(TopUpOf(w))
<1> DEFINE t == IF Rec(w).status = "SENT" THEN Rec(w).repair ELSE Rec(w).topup
<1>1. /\ t \in TopUps /\ (t.amount = 0) = (t.seqno = None)
      /\ t.seqno = service =>
           Row(w).topup.seqno = service \/ Row(w).repair.seqno = service
  BY CallTypes DEF Believes, Rows
<1>2. service \in Nat /\ Job(w) \in Jobs
  BY CallTypes, Types
<1>3. TopUpOf(w) = [kind |-> "TOPUP", job |-> Job(w), amount |-> t.amount, seqno |-> t.seqno]
  BY DEF TopUpOf, TopUp
<1> HIDE DEF t
<1>4. t.seqno = service /\ t.amount \in Nat \ {0}
  BY <1>1, <1>2, <1>3 DEF TopUps, None
<1> QED
  BY <1>1, <1>2, <1>3, <1>4 DEF Messages, Pends, Backed, Row

LEMMA CallSteps ==
  ASSUME IInv, NEW w \in Workers, Sweep(w) \/ Disturbs(w), ~Fail(w), ~Confirm(w)
  PROVE  IInv' /\ Advances(w) /\ UNCHANGED sent
<1>1. CASE \/ RepairLease(w) \/ Ready(w) \/ GasReady(w) \/ GasLease(w) \/ Lease(w)
           \/ Defer(w) \/ Crash(w)
  BY <1>1, LeasesAdvance, LetsGo
<1>2. CASE \/ Find(w) \/ RepairPlan(w) \/ MarkSent(w) \/ CheckTopup(w) \/ Balances(w)
           \/ GasPlan(w) \/ GasCheck(w) \/ Plan(w) \/ Catch(w) \/ Slow(w)
           \/ \E j \in Jobs : Claim(w, j)
  <2>1. Advances(w)
    BY <1>2, FindAdvances, RepairPlanAdvances, MarkSentAdvances, CheckTopupAdvances,
       BalancesAdvances, GasPlanAdvances, GasCheckAdvances, PlanAdvances, LooksAdvance,
       SlowAdvances, ClaimAdvances
  <2>2. UNCHANGED <<chain, leases>> /\ (Event \/ UNCHANGED events)
    BY <1>2 DEF Find, RepairPlan, MarkSent, CheckTopup, Balances, GasPlan, GasCheck, Plan, Catch,
                Slow, Claim
  <2>3. /\ UNCHANGED <<pending, sent>> /\ events' \in 0..MaxEvents
        /\ signing' \in [Deposits -> Owners] /\ gas' \in Owners
    BY <2>2, Types, EventsTyped DEF chain, leases
  <2> QED
    BY <2>1, <2>3, AdvanceKeeps
<1>3. CASE Repair(w) \/ GasSend(w) \/ GasSent(w) \/ Repaired(w) \/ Release(w)
  <2>1. Advances(w)
    BY <1>3, RepairAdvances, GasSendAdvances, GasSentAdvances, LooksAdvance
  <2>2. /\ UNCHANGED chain /\ UNCHANGED events
        /\ gas' \in {gas, Nobody} \/ UNCHANGED gas
        /\ signing' = signing \/ signing' = [signing EXCEPT ![Dep(w)] = Freed(w, @)]
    BY <1>3 DEF Repair, GasSend, GasSent, Repaired, Release, ReleaseGas, Freed
  <2>3. UNCHANGED <<pending, sent>> /\ events' \in 0..MaxEvents
    BY <2>2, EventsTyped DEF chain
  <2>4. /\ Freed(w, signing[Dep(w)]) \in Owners /\ gas' \in Owners
        /\ signing \in [Deposits -> Owners]
    BY <2>2, Types, CallTypes DEF Freed, Owners
  <2>5. signing' \in [Deposits -> Owners]
    BY <2>2, <2>4
  <2> QED
    BY <2>1, <2>3, <2>4, <2>5, AdvanceKeeps
<1>4. CASE SendTopUp(w) \/ Send(w) \/ Throws(w)
  <2>1. Advances(w)
    BY <1>4, LooksAdvance
  <2>2. /\ UNCHANGED leases /\ UNCHANGED sent /\ (Event \/ UNCHANGED events)
        /\ \/ UNCHANGED pending
           \/ At(w, "SEND") /\ pending' = Broadcast(Signed(w), wallet[Dep(w)])
           \/ pending' = Broadcast(TopUpOf(w), service)
    BY <1>4 DEF SendTopUp, Send, Throws
  <2>3. \A x \in pending' : x \in pending \/ (x \in Messages /\ Pends(x))
    BY <2>2, TransferPends, TopUpPends DEF Broadcast
  <2>4. /\ events' \in 0..MaxEvents
        /\ signing' \in [Deposits -> Owners] /\ gas' \in Owners
    BY <2>2, Types, EventsTyped DEF leases
  <2> QED
    BY <2>1, <2>2, <2>3, <2>4, AdvanceKeeps
<1> QED
  BY <1>1, <1>2, <1>3, <1>4 DEF Sweep, Disturbs
-----------------------------------------------------------------------------
(* The steps that end a job's turn, or start one.                           *)

LEMMA OneLiveQueued ==
  ASSUME NEW rows \in [Jobs -> Rows], NEW j \in Jobs, MayQueue(j, rows),
         \A k, l \in Jobs :
           DepositOf[k] = DepositOf[l] /\ Live(rows[k]) /\ Live(rows[l]) => k = l,
         row' = [rows EXCEPT ![j] = NewRow("QUEUED")]
  PROVE  OneLive'
BY DEF MayQueue, OneLive, Live

LEMMA FailKeeps ==
  ASSUME IInv, NEW w \in Workers, Fail(w)
  PROVE  /\ IInv' /\ UNCHANGED sent
         /\ \/ Advances(w)
            \/ /\ row[Job(w)].status \in Active /\ row'[Job(w)].status = "FAILED"
               /\ \A j \in Jobs \ {Job(w)} : row'[j] = row[j]
<1>1. /\ UNCHANGED <<usdt, ton, transit, wallet, service, pending, sent>> /\ UNCHANGED events
      /\ EndCall(w) /\ Abandoned(w)
      /\ row \in [Jobs -> Rows] /\ Job(w) \in Jobs
  BY Types, CallTypes DEF Fail, chain
<1>2. /\ signing' \in [Deposits -> Owners] /\ gas' \in Owners
      /\ events' \in 0..MaxEvents
  BY <1>1, LeasesAbandoned, EventsTyped
<1>3. CASE UNCHANGED row
  <2>1. RowsGrow /\ StatusesKept
    BY <1>1, <1>3, RowsKept
  <2>2. Advances(w)
    BY <1>1, <2>1, Ending DEF Advances
  <2> QED
    BY <1>1, <1>2, <2>2, AdvanceKeeps
<1>4. CASE Holds(w, Active) /\ row' = [row EXCEPT ![Job(w)] = FailedRow(Row(w))]
  <2> DEFINE new == FailedRow(Row(w))
  <2>1. Grows(Row(w), new) /\ new.status = "FAILED" /\ Live(Row(w)) /\ Row(w).status \in Active
    BY <1>4, CallTypes, FailureWrites DEF Holds, FailedRow, Rows, Live, Active, Gassing
  <2>2. row' = [row EXCEPT ![Job(w)] = new] /\ new \in Rows
    BY <1>4, <2>1 DEF Grows
  <2> HIDE DEF new
  <2>3. /\ row' \in [Jobs -> Rows]
        /\ \A j \in Jobs : row'[j] = IF j = Job(w) THEN new ELSE row[j]
    BY <1>1, <2>2
  <2>4. RowsGrow
    BY <1>1, <2>1, <2>3, Types, Untouched DEF RowsGrow, Wrote, Row
  <2>5. OneLive' /\ ConfirmedMoved'
    BY <1>1, <2>1, <2>3 DEF IInv, OneLive, Live, Row, ConfirmedMoved, IsOnChain
  <2>6. Moved(w) /\ Call(w)'
    BY <1>1, <2>4, Ending
  <2>7. IInv'
    BY <1>1, <1>2, <2>4, <2>5, <2>6, Frame, {w} \in SUBSET Workers DEF Moved
  <2> QED
    BY <1>1, <2>1, <2>3, <2>7 DEF Row
<1> QED
  BY <1>3, <1>4 DEF Fail, Row

\* What a confirmation does to the rows.
ConfirmedBy(w) ==
  /\ IsOnChain(Job(w)) /\ ton[Dep(w)] >= Reserve
  /\ row[Job(w)].status = "SENT" /\ row'[Job(w)].status = "CONFIRMED"
  /\ \/ \A k \in Jobs \ {Job(w)} : row'[k] = row[k]
     \/ \E j \in Jobs \ {Job(w)} :
          /\ row[j].status = "ABSENT" /\ row'[j].status = "QUEUED"
          /\ \A k \in Jobs \ {Job(w), j} : row'[k] = row[k]

LEMMA ConfirmKeeps ==
  ASSUME IInv, NEW w \in Workers, Confirm(w)
  PROVE  IInv' /\ UNCHANGED sent /\ (Advances(w) \/ ConfirmedBy(w))
<1>1. /\ UNCHANGED <<usdt, ton, transit, wallet, service, pending, sent>> /\ UNCHANGED events
      /\ UNCHANGED <<signing, gas>> /\ service \in Nat
      /\ row \in [Jobs -> Rows] /\ Job(w) \in Jobs
  BY Types, CallTypes DEF Confirm, chain, leases
<1>2. /\ signing' \in [Deposits -> Owners] /\ gas' \in Owners
      /\ events' \in 0..MaxEvents
  BY <1>1, Types, EventsTyped
<1>3. CASE UNCHANGED row /\ GoTo(w, "CATCH")
  <2>1. Advances(w)
    BY <1>1, <1>3, GoesOn DEF Places, Easy
  <2> QED
    BY <1>1, <1>2, <2>1, AdvanceKeeps
<1>4. CASE /\ Holds(w, {"SENT"}) /\ EndCall(w)
           /\ \/ row' = Confirmed(w)
              \/ \E j \in Jobs : /\ MayQueue(j, Confirmed(w))
                                 /\ row' = [Confirmed(w) EXCEPT ![j] = NewRow("QUEUED")]
  <2> DEFINE new == [Row(w) EXCEPT !.status = "CONFIRMED", !.owner = Nobody, !.key = None,
                                   !.case = Settled(@)]
             rows == Confirmed(w)
  <2>1. /\ Grows(Row(w), new) /\ new.status = "CONFIRMED" /\ Row(w).status = "SENT"
        /\ IsOnChain(Job(w)) /\ ton[Dep(w)] >= Reserve
    <3>1. Row(w).status = "SENT" /\ Row(w) \in Rows /\ RowOK(Row(w))
      BY <1>4, CallTypes DEF Holds
    <3>2. IsOnChain(Job(w)) /\ ton[Dep(w)] >= Reserve
      BY <3>1, CallTypes DEF Confirm, Stands, Found, At
    <3>3. new.status = "CONFIRMED"
      BY <3>1 DEF Rows
    <3>4. Grows(Row(w), new)
      BY <3>1, ConfirmWrites
    <3> QED
      BY <3>1, <3>2, <3>3, <3>4
  <2>2. rows = [row EXCEPT ![Job(w)] = new] /\ new \in Rows
    <3>1. rows = [row EXCEPT ![Job(w)] = new]
      BY DEF Confirmed, Row
    <3>2. new \in Rows
      BY <2>1 DEF Grows
    <3> QED
      BY <3>1, <3>2
  <2>3. \/ row' = rows
        \/ \E j \in Jobs : MayQueue(j, rows) /\ row' = [rows EXCEPT ![j] = NewRow("QUEUED")]
    BY <1>4
  <2> HIDE DEF new, rows
  <2>4. /\ rows \in [Jobs -> Rows]
        /\ \A k \in Jobs : rows[k] = IF k = Job(w) THEN new ELSE row[k]
        /\ \A k \in Jobs : Grows(row[k], rows[k])
    BY <1>1, <2>1, <2>2, Types, Untouched DEF Wrote, Row
  <2>5. \A k, l \in Jobs :
          DepositOf[k] = DepositOf[l] /\ Live(rows[k]) /\ Live(rows[l]) => k = l
    BY <2>1, <2>4 DEF IInv, OneLive, Live
  <2>6. RowsGrow /\ OneLive' /\ ConfirmedBy(w)
    <3>1. CASE row' = rows
      BY <1>1, <2>1, <2>4, <2>5, <3>1 DEF RowsGrow, OneLive, ConfirmedBy, Row
    <3>2. ASSUME NEW j \in Jobs, MayQueue(j, rows),
                 row' = [rows EXCEPT ![j] = NewRow("QUEUED")]
          PROVE  RowsGrow /\ OneLive' /\ ConfirmedBy(w)
      <4>1. rows[j].status = "ABSENT" /\ j # Job(w) /\ rows[j] = row[j]
        BY <2>1, <2>4, <3>2 DEF MayQueue
      <4>2. Grows(row[j], NewRow("QUEUED")) /\ NewRow("QUEUED").status = "QUEUED"
        BY <1>1, <4>1, Types, QueueWrites
      <4>3. NewRow("QUEUED") \in Rows
        BY <4>2 DEF Grows
      <4>4. /\ row' \in [Jobs -> Rows]
            /\ \A k \in Jobs : row'[k] = IF k = j THEN NewRow("QUEUED") ELSE rows[k]
        BY <2>4, <3>2, <4>3
      <4>5. RowsGrow
        BY <1>1, <2>4, <4>2, <4>4 DEF RowsGrow
      <4>6. OneLive'
        BY <2>4, <2>5, <3>2, OneLiveQueued
      <4>7. /\ j \in Jobs \ {Job(w)}
            /\ row[j].status = "ABSENT" /\ row'[j].status = "QUEUED"
            /\ \A k \in Jobs \ {Job(w), j} : row'[k] = row[k]
            /\ row'[Job(w)] = new
        BY <1>1, <2>4, <4>1, <4>2, <4>4
      <4>8. ConfirmedBy(w)
        BY <2>1, <4>7 DEF ConfirmedBy, Row
      <4> QED
        BY <4>5, <4>6, <4>8
    <3> QED
      BY <2>3, <3>1, <3>2
  <2>7. Moved(w) /\ Call(w)'
    BY <1>4, <2>6, Ending
  <2>8. ConfirmedMoved'
    BY <1>1, <2>6 DEF ConfirmedBy, IInv, ConfirmedMoved, IsOnChain
  <2>9. IInv'
    BY <1>1, <1>2, <2>6, <2>7, <2>8, Frame, {w} \in SUBSET Workers DEF Moved
  <2> QED
    BY <1>1, <2>6, <2>9
<1> QED
  BY <1>3, <1>4 DEF Confirm

\* An operator's steps, and the end of a lease: no call moves.
LEMMA OutsideKeeps ==
  ASSUME IInv, RowsGrow, OneLive', ConfirmedMoved', UNCHANGED <<worker, pending>>,
         signing' \in [Deposits -> Owners], gas' \in Owners, Event \/ UNCHANGED events
  PROVE  IInv'
<1>1. worker' \in [Workers -> Calls] /\ \A w \in Workers \ {} : worker'[w] = worker[w]
  BY Types
<1> QED
  BY <1>1, EventsTyped, Frame, {} \in SUBSET Workers

LEMMA QueueKeeps ==
  ASSUME IInv, NEW j \in Jobs, Queue(j)
  PROVE  /\ IInv' /\ UNCHANGED sent
         /\ row[j].status = "ABSENT" /\ row'[j].status = "QUEUED"
         /\ \A k \in Jobs \ {j} : row'[k] = row[k]
<1>1. /\ UNCHANGED <<usdt, ton, transit, wallet, service, sent>> /\ UNCHANGED <<worker, pending>>
      /\ UNCHANGED <<signing, gas>> /\ Event /\ row \in [Jobs -> Rows]
      /\ service \in Nat /\ row[j].status = "ABSENT"
      /\ row' = [row EXCEPT ![j] = NewRow("QUEUED")]
  BY Types DEF Queue, chain, leases, MayQueue
<1>2. Grows(row[j], NewRow("QUEUED")) /\ NewRow("QUEUED").status = "QUEUED"
  BY <1>1, Types, QueueWrites
<1>3. NewRow("QUEUED") \in Rows
  BY <1>2 DEF Grows
<1>4. /\ row' \in [Jobs -> Rows]
      /\ \A k \in Jobs : row'[k] = IF k = j THEN NewRow("QUEUED") ELSE row[k]
  BY <1>1, <1>3
<1>5. RowsGrow
  BY <1>1, <1>2, <1>4, Types, Untouched DEF RowsGrow, Wrote
<1>6. OneLive'
  BY <1>1, OneLiveQueued DEF Queue, IInv, OneLive
<1>7. ConfirmedMoved'
  BY <1>1, <1>2, <1>4 DEF IInv, ConfirmedMoved, IsOnChain, Active, Gassing
<1>8. IInv'
  BY <1>1, <1>5, <1>6, <1>7, Types, OutsideKeeps
<1> QED
  BY <1>1, <1>2, <1>4, <1>8

LEMMA RetryKeeps ==
  ASSUME IInv, NEW j \in Jobs, RetryFailed(j)
  PROVE  /\ IInv' /\ UNCHANGED sent
         /\ row[j].status = "FAILED" /\ row'[j].status \in Active
         /\ \A k \in Jobs \ {j} : row'[k] = row[k]
<1> DEFINE new == [row[j] EXCEPT !.status = Resumed(row[j]), !.attempts = 0, !.owner = Nobody]
<1>1. /\ UNCHANGED <<usdt, ton, transit, wallet, service, sent>> /\ UNCHANGED <<worker, pending>>
      /\ UNCHANGED <<signing, gas>> /\ Event /\ row \in [Jobs -> Rows]
      /\ row[j].status = "FAILED" /\ row[j] \in Rows /\ RowOK(row[j])
      /\ row' = [row EXCEPT ![j] = new]
  BY Types DEF RetryFailed, chain, leases
<1>2. Grows(row[j], new) /\ new.status \in Active
  <2>1. Grows(row[j], new) /\ Resumed(row[j]) \in Active
    BY <1>1, RetryWrites
  <2>2. new.status = Resumed(row[j])
    BY <1>1 DEF Rows
  <2> HIDE DEF new
  <2> QED
    BY <2>1, <2>2
<1> HIDE DEF new
<1>3. new \in Rows
  BY <1>2 DEF Grows
<1>4. /\ row' \in [Jobs -> Rows]
      /\ \A k \in Jobs : row'[k] = IF k = j THEN new ELSE row[k]
  BY <1>1, <1>3
<1>5. RowsGrow
  BY <1>1, <1>2, <1>4, Types, Untouched DEF RowsGrow, Wrote
<1>6. OneLive'
  BY <1>1, <1>4 DEF IInv, OneLive, Live
<1>7. ConfirmedMoved'
  BY <1>1, <1>2, <1>4 DEF IInv, ConfirmedMoved, IsOnChain, Active, Gassing
<1>8. IInv'
  BY <1>1, <1>5, <1>6, <1>7, Types, OutsideKeeps
<1> QED
  BY <1>1, <1>2, <1>4, <1>8

LEMMA LeaseEndKeeps ==
  ASSUME IInv, GasLeaseEnds \/ \E d \in Deposits : WalletLeaseEnds(d)
  PROVE  IInv' /\ UNCHANGED <<row, sent>>
<1>1. /\ UNCHANGED <<row, usdt, ton, transit, wallet, service, sent>>
      /\ UNCHANGED <<worker, pending>> /\ UNCHANGED events
      /\ signing' \in [Deposits -> Owners] /\ gas' \in Owners
  BY Types DEF GasLeaseEnds, WalletLeaseEnds, chain, Owners
<1>2. RowsGrow /\ OneLive' /\ ConfirmedMoved'
  BY <1>1, RowsKept DEF IInv, OneLive, ConfirmedMoved, IsOnChain
<1> QED
  BY <1>1, <1>2, OutsideKeeps
-----------------------------------------------------------------------------
(* The network.                                                             *)

LEMMA NetworkFrame ==
  ASSUME IInv, UNCHANGED row, UNCHANGED leases, UNCHANGED worker, Event \/ UNCHANGED events,
         {usdt', ton', transit', wallet'} \subseteq [Deposits -> Nat],
         service' \in Nat, service' >= service,
         pending' \subseteq pending, sent' \in Seq(Messages),
         \A j \in Jobs : IsOnChain(j) => IsOnChain(j)',
         \A w \in Workers :
           At(w, "CONFIRM") /\ Row(w).status # "CONFIRMED" => ton'[Dep(w)] >= Reserve,
         Chain'
  PROVE  IInv'
<1>1. TypeOK'
  BY Types, EventsTyped DEF TypeOK, IInv, leases
<1>2. \A j \in Jobs : RowOK(row[j])'
  <2> SUFFICES ASSUME NEW j \in Jobs PROVE RowOK(row[j])'
    OBVIOUS
  <2>1. RowOK(row[j]) /\ row[j].topup.seqno \in Int /\ row[j].repair.seqno \in Int
    BY Types DEF Rows, TopUps, Seqnos, None
  <2> QED
    BY <2>1, Types DEF RowOK, RowIsLegal
<1>3. OneLive' /\ ConfirmedMoved'
  BY DEF IInv, OneLive, ConfirmedMoved
<1>4. \A w \in Workers : Call(w)'
  <2> SUFFICES ASSUME NEW w \in Workers PROVE Call(w)'
    OBVIOUS
  <2>1. /\ Rec(w)' = Rec(w) /\ Row(w)' = Row(w) /\ Job(w)' = Job(w) /\ Dep(w)' = Dep(w)
        /\ worker'[w] = worker[w]
    BY DEF Rec, Row, Job, Dep
  <2>2. /\ Believes(w) /\ Stands(w) /\ Job(w) \in Jobs
        /\ Rec(w).topup.seqno \in Int /\ Rec(w).repair.seqno \in Int /\ service \in Nat
    <3>1. /\ Believes(w) /\ Stands(w) /\ Job(w) \in Jobs
          /\ Rec(w) \in Rows /\ service \in Nat
      BY CallTypes, Types
    <3> QED
      BY <3>1 DEF Rows, TopUps, Seqnos, None
  <2>3. Believes(w)'
    BY <2>1, <2>2 DEF Believes
  <2>4. Stands(w)'
    BY <2>1, <2>2 DEF Stands, Found, At
  <2> QED
    BY <2>3, <2>4 DEF Call
<1> QED
  BY <1>1, <1>2, <1>3, <1>4 DEF IInv

\* Only TON moves, or jettons come in.
LEMMA PaymentKeeps ==
  ASSUME IInv, NEW d \in Deposits, Pay(d) \/ Deliver(d)
  PROVE  IInv' /\ UNCHANGED <<row, sent>>
<1>1. /\ UNCHANGED <<row, worker, leases, wallet, service, pending, sent>>
      /\ Event \/ UNCHANGED events
  BY DEF Pay, Deliver
<1>2. /\ {usdt', ton', transit', wallet'} \subseteq [Deposits -> Nat]
      /\ \A e \in Deposits : ton'[e] >= ton[e]
  <2>1. Target \in Nat /\ {usdt, ton, transit, wallet} \subseteq [Deposits -> Nat]
    BY Types, UsdtAssumption DEF TargetCoversReserve
  <2>2. CASE Pay(d)
    <3>1. CASE usdt' = [usdt EXCEPT ![d] = @ + 1] /\ UNCHANGED <<ton, transit, wallet>>
      BY <2>1, <3>1
    <3>2. CASE ton' = [ton EXCEPT ![d] = @ + Target] /\ UNCHANGED <<usdt, transit, wallet>>
      BY <2>1, <3>2
    <3> QED
      BY <2>2, <3>1, <3>2 DEF Pay
  <2>3. CASE Deliver(d)
    <3>1. /\ ton' = [ton EXCEPT ![d] = @ + transit[d]] /\ transit' = [transit EXCEPT ![d] = 0]
          /\ UNCHANGED <<usdt, wallet>> /\ transit[d] \in Nat
      BY <2>1, <2>3 DEF Deliver
    <3> QED
      BY <2>1, <3>1
  <2> QED
    BY <2>2, <2>3
<1>3. /\ \A j \in Jobs : IsOnChain(j) => IsOnChain(j)'
      /\ Chain'
  BY <1>1 DEF IsOnChain, IInv, Chain, Pends, Backed, Executed
<1>4. \A w \in Workers :
        At(w, "CONFIRM") /\ Row(w).status # "CONFIRMED" => ton'[Dep(w)] >= Reserve
  <2> SUFFICES ASSUME NEW w \in Workers, At(w, "CONFIRM"), Row(w).status # "CONFIRMED"
               PROVE  ton'[Dep(w)] >= Reserve
    OBVIOUS
  <2>1. ton[Dep(w)] >= Reserve /\ Dep(w) \in Deposits
    BY CallTypes DEF Stands
  <2>2. ton[Dep(w)] \in Nat /\ ton'[Dep(w)] \in Nat /\ Reserve \in Nat
    BY <1>2, <2>1, Types, UsdtAssumption DEF TargetCoversReserve
  <2> QED
    BY <1>2, <2>1, <2>2
<1>5. service' \in Nat /\ service' >= service /\ pending' \subseteq pending
      /\ sent' \in Seq(Messages)
  BY <1>1, Types
<1> QED
  BY <1>1, <1>2, <1>3, <1>4, <1>5, NetworkFrame

\* The gas service takes a message, or signs one for the merchant.
LEMMA ServiceKeeps ==
  ASSUME IInv, TreasuryTransfer \/ \E m \in pending : ToppedUp(m)
  PROVE  IInv' /\ UNCHANGED <<row, sent>>
<1>1. /\ UNCHANGED <<row, worker, leases, usdt, ton, wallet, sent>>
      /\ Event \/ UNCHANGED events
      /\ service' = service + 1 /\ service \in Nat
      /\ pending' = {x \in pending : x.kind # "TOPUP" \/ x.seqno # service}
  BY Types DEF TreasuryTransfer, ToppedUp, Later
<1>2. transit' \in [Deposits -> Nat]
  <2>1. CASE UNCHANGED transit
    BY <2>1, Types
  <2>2. ASSUME NEW m \in pending, ToppedUp(m)
        PROVE  transit' \in [Deposits -> Nat]
    <3>1. m.amount \in Nat /\ DepositOf[m.job] \in Deposits /\ transit \in [Deposits -> Nat]
      BY Types, UsdtAssumption DEF Messages
    <3> QED
      BY <2>2, <3>1 DEF ToppedUp
  <2> QED
    BY <2>1, <2>2 DEF TreasuryTransfer
<1>3. {usdt', ton', transit', wallet'} \subseteq [Deposits -> Nat]
  BY <1>1, <1>2, Types
<1>4. /\ \A j \in Jobs : IsOnChain(j) => IsOnChain(j)'
      /\ Chain'
  BY <1>1, Types DEF IsOnChain, IInv, Chain, Pends, Backed, Executed, Messages
<1>5. \A w \in Workers :
        At(w, "CONFIRM") /\ Row(w).status # "CONFIRMED" => ton'[Dep(w)] >= Reserve
  BY <1>1, CallTypes DEF Stands
<1>6. service' \in Nat /\ service' >= service /\ pending' \subseteq pending
      /\ sent' \in Seq(Messages)
  BY <1>1, Types
<1> QED
  BY <1>1, <1>3, <1>4, <1>5, <1>6, NetworkFrame

LEMMA NativeSweepKeeps ==
  ASSUME IInv, NEW d \in Deposits, NativeSweep(d)
  PROVE  IInv' /\ UNCHANGED <<row, sent>>
<1>1. /\ UNCHANGED <<row, worker, leases, usdt, transit, service, sent>>
      /\ Event \/ UNCHANGED events
      /\ wallet' = [wallet EXCEPT ![d] = @ + 1] /\ ton' = [ton EXCEPT ![d] = Reserve]
      /\ pending' = {x \in pending : ~(x.kind = "JETTON" /\ DepositOf[x.job] = d
                                         /\ x.seqno = wallet[d])}
      /\ {usdt, ton, transit, wallet} \subseteq [Deposits -> Nat]
      /\ Reserve \in Nat
  BY Types, UsdtAssumption DEF NativeSweep, TargetCoversReserve
<1>2. /\ {usdt', ton', transit', wallet'} \subseteq [Deposits -> Nat]
      /\ \A e \in Deposits : /\ wallet'[e] = IF e = d THEN wallet[e] + 1 ELSE wallet[e]
                             /\ ton'[e] = IF e = d THEN Reserve ELSE ton[e]
  BY <1>1
<1>3. Chain'
  <2>1. \A x \in pending' : Pends(x)'
    BY <1>1, <1>2, Types, UsdtAssumption DEF IInv, Chain, Pends, Backed, Messages
  <2>2. ASSUME NEW i \in DOMAIN sent PROVE Executed(sent[i])'
    <3>1. Executed(sent[i]) /\ sent[i] \in Messages
      BY Types DEF IInv, Chain
    <3>2. sent[i].seqno \in Nat /\ DepositOf[sent[i].job] \in Deposits
      BY <3>1, UsdtAssumption DEF Messages
    <3>3. wallet[DepositOf[sent[i].job]] \in Nat
      BY <1>1, <3>2
    <3> QED
      BY <1>1, <1>2, <3>1, <3>2, <3>3 DEF Executed, Backed
  <2> QED
    BY <1>1, <2>1, <2>2 DEF IInv, Chain
<1>4. \A j \in Jobs : IsOnChain(j) => IsOnChain(j)'
  BY <1>1 DEF IsOnChain
<1>5. \A w \in Workers :
        At(w, "CONFIRM") /\ Row(w).status # "CONFIRMED" => ton'[Dep(w)] >= Reserve
  BY <1>1, <1>2, CallTypes DEF Stands
<1>6. service' \in Nat /\ service' >= service /\ pending' \subseteq pending
      /\ sent' \in Seq(Messages)
  BY <1>1, Types
<1> QED
  BY <1>1, <1>2, <1>3, <1>4, <1>5, <1>6, NetworkFrame

\* A seqno that is taken is not pending any more, so a transfer is executed once.
LEMMA PendingIsNew ==
  ASSUME IInv, NEW m \in pending, m.kind = "JETTON"
  PROVE  m \in Messages /\ Pends(m) /\ ~IsOnChain(m.job)
<1>1. m \in Messages /\ Pends(m)
  BY Types DEF IInv, Chain
<1>2. m = Transfer(m.job, row[m.job]) /\ m.seqno = wallet[DepositOf[m.job]]
  BY <1>1 DEF Pends, Backed
<1>3. ASSUME NEW i \in DOMAIN sent, sent[i].job = m.job PROVE FALSE
  <2>1. Executed(sent[i])
    BY DEF IInv, Chain
  <2>2. sent[i] = m /\ m.seqno < wallet[DepositOf[m.job]]
    BY <1>2, <1>3, <2>1 DEF Executed, Backed
  <2>3. m.seqno \in Nat
    BY <1>1 DEF Messages
  <2> QED
    BY <1>2, <2>2, <2>3
<1> QED
  BY <1>1, <1>3 DEF IsOnChain

\* While a call is about to confirm a job, its deposit sends no transfer: the job's
\* own is in a block, and no other job of the deposit has one.
LEMMA NoneToConfirm ==
  ASSUME IInv, NEW m \in pending, m.kind = "JETTON", NEW w \in Workers,
         Found(w), Row(w).status # "CONFIRMED"
  PROVE  Dep(w) # DepositOf[m.job]
<1>1. m \in Messages /\ Pends(m) /\ ~IsOnChain(m.job) /\ m.job \in Jobs
  BY PendingIsNew DEF Messages
<1>2. row[m.job].status \in {"READY", "SENT", "FAILED"}
  <2>1. m = Transfer(m.job, row[m.job]) /\ m.seqno # None
    BY <1>1 DEF Pends, Backed, Messages, None
  <2>2. row[m.job].seqno # None
    BY <2>1 DEF Transfer
  <2>3. row[m.job].status # "CONFIRMED"
    BY <1>1 DEF IInv, ConfirmedMoved
  <2> QED
    BY <1>1, <2>2, <2>3, Types DEF RowOK
<1>3. IsOnChain(Job(w)) /\ Job(w) \in Jobs
  BY CallTypes DEF Stands
<1>4. Row(w).status # "ABSENT"
  <2>1. PICK i \in DOMAIN sent : sent[i].job = Job(w)
    BY <1>3 DEF IsOnChain
  <2>2. Executed(sent[i]) /\ sent[i] \in Messages
    BY Types DEF IInv, Chain
  <2>3. sent[i] = Transfer(Job(w), Row(w)) /\ sent[i].seqno # None
    BY <2>1, <2>2 DEF Executed, Backed, Row, Messages, None
  <2>4. Row(w).seqno # None
    BY <2>3 DEF Transfer
  <2> QED
    BY <2>4, CallTypes DEF RowOK
<1> QED
  BY <1>1, <1>2, <1>3, <1>4 DEF IInv, OneLive, Live, Row, Dep

LEMMA TransferKeeps ==
  ASSUME IInv, NEW m \in pending, Transferred(m)
  PROVE  /\ IInv' /\ UNCHANGED row
         /\ UNCHANGED sent \/ (sent' = Append(sent, m) /\ m \in Messages /\ ~IsOnChain(m.job))
<1> DEFINE d == DepositOf[m.job]
<1>1. /\ UNCHANGED <<row, worker, leases, transit, service, events>>
      /\ wallet' = [wallet EXCEPT ![d] = @ + 1]
      /\ pending' = Later(m) /\ m.kind = "JETTON"
      /\ {usdt, ton, transit, wallet} \subseteq [Deposits -> Nat]
      /\ sent \in Seq(Messages)
  BY Types DEF Transferred
<1>2. /\ m \in Messages /\ Pends(m) /\ ~IsOnChain(m.job)
      /\ m.job \in Jobs /\ d \in Deposits /\ m.amount \in Nat
      /\ m.seqno = wallet[d]
  BY <1>1, PendingIsNew, UsdtAssumption DEF Messages, Pends
<1>3. /\ wallet' \in [Deposits -> Nat]
      /\ \A e \in Deposits : wallet'[e] = IF e = d THEN wallet[e] + 1 ELSE wallet[e]
  BY <1>1, <1>2
<1>4. \A x \in pending' : Pends(x)'
  <2> SUFFICES ASSUME NEW x \in pending' PROVE Pends(x)'
    OBVIOUS
  <2>1. /\ x \in pending /\ x \in Messages /\ Pends(x)
        /\ ~(x.kind = "JETTON" /\ x.seqno = m.seqno /\ DepositOf[x.job] = d)
    BY <1>1, Types DEF Later, IInv, Chain
  <2>2. x.kind = "JETTON" => DepositOf[x.job] # d /\ DepositOf[x.job] \in Deposits
    BY <1>2, <2>1, UsdtAssumption DEF Pends, Messages
  <2> QED
    BY <1>1, <1>3, <2>1, <2>2 DEF Pends, Backed
<1>5. ASSUME NEW x \in Messages, Executed(x) PROVE Executed(x)'
  <2>1. x.seqno \in Nat /\ DepositOf[x.job] \in Deposits
    BY UsdtAssumption DEF Messages
  <2>2. wallet[DepositOf[x.job]] \in Nat
    BY <1>1, <2>1
  <2> QED
    BY <1>1, <1>3, <1>5, <2>1, <2>2 DEF Executed, Backed
<1>6. \A i \in DOMAIN sent : sent[i] \in Messages /\ Executed(sent[i])
  BY <1>1 DEF IInv, Chain
<1>7. /\ service' \in Nat /\ service' >= service /\ pending' \subseteq pending
      /\ UNCHANGED leases /\ UNCHANGED events /\ UNCHANGED worker /\ UNCHANGED row
  BY <1>1, Types DEF Later
<1>8. CASE UNCHANGED <<ton, usdt, sent>>
  <2>1. Chain'
    BY <1>4, <1>5, <1>6, <1>8 DEF IInv, Chain
  <2>2. \A w \in Workers :
          At(w, "CONFIRM") /\ Row(w).status # "CONFIRMED" => ton'[Dep(w)] >= Reserve
    BY <1>8, CallTypes DEF Stands
  <2>3. /\ {usdt', ton', transit', wallet'} \subseteq [Deposits -> Nat]
        /\ sent' \in Seq(Messages)
        /\ \A j \in Jobs : IsOnChain(j) => IsOnChain(j)'
    BY <1>1, <1>3, <1>8 DEF IsOnChain
  <2> QED
    BY <1>7, <1>8, <2>1, <2>2, <2>3, NetworkFrame
<1>9. CASE /\ \E cost \in 1..ton[d] : ton' = [ton EXCEPT ![d] = @ - cost]
           /\ usdt' = [usdt EXCEPT ![d] = @ - m.amount] /\ ~(m.amount > usdt[d])
           /\ sent' = Append(sent, m)
  <2>1. /\ sent' \in Seq(Messages) /\ Len(sent) \in Nat
        /\ DOMAIN sent = 1..Len(sent) /\ DOMAIN sent' = 1..(Len(sent) + 1)
        /\ \A i \in DOMAIN sent : sent'[i] = sent[i]
        /\ sent'[Len(sent) + 1] = m
    BY <1>1, <1>2, <1>9, AppendProperties, LenProperties
  <2>2. \A i \in DOMAIN sent' : i \in DOMAIN sent \/ i = Len(sent) + 1
    BY <2>1
  <2>3. Executed(m)'
    <3>1. wallet[d] \in Nat /\ wallet'[d] = wallet[d] + 1
      BY <1>1, <1>2, <1>3
    <3> QED
      BY <1>1, <1>2, <3>1 DEF Executed, Pends, Backed
  <2>4. \A i \in DOMAIN sent' : Executed(sent[i])'
    <3> SUFFICES ASSUME NEW i \in DOMAIN sent' PROVE Executed(sent[i])'
      OBVIOUS
    <3>1. CASE i \in DOMAIN sent
      <4> DEFINE x == sent[i]
      <4>1. x \in Messages /\ Executed(x) /\ sent'[i] = x
        BY <1>6, <2>1, <3>1
      <4>2. wallet'[DepositOf[x.job]] \in Nat /\ x.seqno < wallet'[DepositOf[x.job]]
        <5>1. x.seqno \in Nat /\ DepositOf[x.job] \in Deposits
          BY <4>1, UsdtAssumption DEF Messages
        <5>2. wallet[DepositOf[x.job]] \in Nat /\ x.seqno < wallet[DepositOf[x.job]]
          BY <1>1, <4>1, <5>1 DEF Executed
        <5> HIDE DEF x
        <5> QED
          BY <1>3, <5>1, <5>2
      <4>3. x.kind = "JETTON" /\ x = Transfer(x.job, row[x.job])
        BY <4>1 DEF Executed, Backed
      <4> HIDE DEF x
      <4> QED
        BY <1>1, <4>1, <4>2, <4>3 DEF Executed, Backed
    <3>2. CASE i = Len(sent) + 1
      BY <2>1, <2>3, <3>2 DEF Executed, Backed
    <3> QED
      BY <2>2, <3>1, <3>2
  <2>5. \A i, k \in DOMAIN sent' : sent'[i].job = sent'[k].job => i = k
    BY <1>2, <2>1, <2>2 DEF IInv, Chain, IsOnChain
  <2>6. Chain'
    BY <1>4, <2>4, <2>5 DEF Chain
  <2>7. /\ ton' \in [Deposits -> Nat] /\ usdt' \in [Deposits -> Nat]
        /\ \A e \in Deposits : e # d => ton'[e] = ton[e]
    <3>1. PICK cost \in 1..ton[d] : ton' = [ton EXCEPT ![d] = @ - cost]
      BY <1>9
    <3>2. ton[d] \in Nat /\ usdt[d] \in Nat
      BY <1>1, <1>2
    <3>3. ton[d] - cost \in Nat /\ usdt[d] - m.amount \in Nat
      BY <1>2, <1>9, <3>2
    <3>4. usdt' = [usdt EXCEPT ![d] = @ - m.amount]
      BY <1>9
    <3> QED
      BY <1>1, <3>1, <3>3, <3>4
  <2>8. \A w \in Workers :
          At(w, "CONFIRM") /\ Row(w).status # "CONFIRMED" => ton'[Dep(w)] >= Reserve
    <3> SUFFICES ASSUME NEW w \in Workers, At(w, "CONFIRM"), Row(w).status # "CONFIRMED"
                 PROVE  ton'[Dep(w)] >= Reserve
      OBVIOUS
    <3>1. Dep(w) # d
      BY <1>1, NoneToConfirm DEF Found, At
    <3>2. ton[Dep(w)] >= Reserve /\ Dep(w) \in Deposits
      BY CallTypes DEF Stands
    <3> QED
      BY <2>7, <3>1, <3>2
  <2>9. \A j \in Jobs : IsOnChain(j) => IsOnChain(j)'
    BY <2>1 DEF IsOnChain
  <2>10. {usdt', ton', transit', wallet'} \subseteq [Deposits -> Nat]
    BY <1>1, <1>3, <2>7
  <2>11. IInv'
    BY <1>7, <2>1, <2>6, <2>8, <2>9, <2>10, NetworkFrame
  <2> QED
    BY <1>2, <1>7, <1>9, <2>11
<1> QED
  BY <1>8, <1>9 DEF Transferred
-----------------------------------------------------------------------------
(* Every step.                                                              *)

LEMMA InitHolds == Init => IInv
<1> SUFFICES ASSUME Init PROVE IInv
  OBVIOUS
<1>1. /\ NewRow("QUEUED") \in Rows /\ NewRow("ABSENT") \in Rows
      /\ \A status \in {"QUEUED", "ABSENT"} :
           /\ NewRow(status).status = status /\ NewRow(status).seqno = None
           /\ NewRow(status).topup = NoTopUp /\ NewRow(status).repair = NoTopUp
  BY UsdtAssumption
     DEF NewRow, Rows, Statuses, Active, TopUps, NoTopUp, Seqnos, None, Owners
<1>2. /\ service = 0 /\ pending = {} /\ sent = <<>> /\ gas = Nobody /\ events = 0
      /\ worker = [w \in Workers |-> Resting]
      /\ row = [j \in Jobs |-> NewRow(IF j \in Planned THEN "QUEUED" ELSE "ABSENT")]
  BY DEF Init
<1>3. \A j \in Jobs :
        /\ row[j] \in Rows
        /\ row[j].status = (IF j \in Planned THEN "QUEUED" ELSE "ABSENT")
        /\ row[j].seqno = None /\ row[j].topup = NoTopUp /\ row[j].repair = NoTopUp
  BY <1>1, <1>2
<1>4. row \in [Jobs -> Rows]
  BY <1>2, <1>3
<1>5. \A j \in Jobs : RowOK(row[j])
  BY <1>2, <1>3 DEF RowOK, RowIsLegal, Gassing, NoTopUp, None
<1>6. worker \in [Workers -> Calls] /\ DOMAIN sent = {} /\ sent \in Seq(Messages)
  BY <1>2, RestingCall
<1>7. TypeOK
  <2>1. \A j \in Jobs : RowIsLegal(row[j])
    BY <1>5 DEF RowOK
  <2>2. {usdt, ton, transit, wallet} \subseteq [Deposits -> Nat]
    BY UsdtAssumption DEF Init
  <2>3. signing \in [Deposits -> Owners] /\ gas \in Owners
    BY DEF Init, Owners
  <2>4. events \in 0..MaxEvents /\ service \in Nat /\ pending \subseteq Messages
    BY <1>2, UsdtAssumption
  <2> QED
    BY <1>4, <1>6, <2>1, <2>2, <2>3, <2>4 DEF TypeOK, Calls
<1>8. OneLive
  BY <1>3, UsdtAssumption DEF OneLive, Live
<1>9. ConfirmedMoved /\ Chain
  BY <1>2, <1>3, <1>6 DEF ConfirmedMoved, Chain
<1>10. ASSUME NEW w \in Workers PROVE Call(w)
  <2>1. worker[w] = Resting
    BY <1>2
  <2>2. Stands(w)
    BY <2>1, RestingCall DEF Stands, Found, At
  <2>3. Believes(w)
    BY <1>2, <2>1, RestingCall DEF Believes, Rec, NoTopUp, None
  <2> QED
    BY <2>2, <2>3 DEF Call
<1> QED
  BY <1>5, <1>7, <1>8, <1>9, <1>10 DEF IInv

\* A job is opened, given up or taken up again; all others stay as they are.
Turns(j) ==
  /\ \/ row[j].status = "ABSENT" /\ row'[j].status = "QUEUED"
     \/ row[j].status \in Active /\ row'[j].status = "FAILED"
     \/ row[j].status = "FAILED" /\ row'[j].status \in Active
  /\ \A k \in Jobs \ {j} : row'[k] = row[k]

Executes(m) == sent' = Append(sent, m) /\ m \in Messages /\ ~IsOnChain(m.job)

LEMMA StepEffects ==
  ASSUME IInv, [Next]_vars
  PROVE  /\ IInv'
         /\ \/ UNCHANGED sent /\ StatusesKept
            \/ UNCHANGED sent /\ \E j \in Jobs : Turns(j)
            \/ UNCHANGED sent /\ \E w \in Workers : ConfirmedBy(w)
            \/ UNCHANGED row /\ \E m \in pending : Executes(m)
<1>1. UNCHANGED row => StatusesKept
  BY DEF StatusesKept
<1>2. CASE UNCHANGED vars
  <2>1. /\ UNCHANGED <<row, usdt, ton, transit, wallet, service, sent>>
        /\ UNCHANGED <<worker, pending>> /\ UNCHANGED events
        /\ UNCHANGED <<signing, gas>>
    BY <1>2 DEF vars
  <2>2. RowsGrow /\ OneLive' /\ ConfirmedMoved'
    BY <2>1, RowsKept DEF IInv, OneLive, ConfirmedMoved, IsOnChain
  <2> QED
    BY <1>1, <2>1, <2>2, Types, OutsideKeeps
<1>3. ASSUME NEW w \in Workers, Sweep(w) \/ Disturbs(w)
      PROVE  /\ IInv' /\ UNCHANGED sent
             /\ StatusesKept \/ Turns(Job(w)) \/ ConfirmedBy(w)
  <2>1. CASE Fail(w)
    BY <2>1, FailKeeps DEF Advances, Turns
  <2>2. CASE Confirm(w)
    BY <2>2, ConfirmKeeps DEF Advances
  <2>3. CASE ~Fail(w) /\ ~Confirm(w)
    BY <1>3, <2>3, CallSteps DEF Advances
  <2> QED
    BY <2>1, <2>2, <2>3
<1>4. ASSUME NEW j \in Jobs, Queue(j) \/ RetryFailed(j)
      PROVE  IInv' /\ UNCHANGED sent /\ Turns(j)
  BY <1>4, QueueKeeps, RetryKeeps DEF Turns
<1>5. ASSUME GasLeaseEnds \/ \E d \in Deposits : WalletLeaseEnds(d)
      PROVE  IInv' /\ UNCHANGED <<row, sent>>
  BY <1>5, LeaseEndKeeps
<1>6. ASSUME NEW d \in Deposits, Pay(d) \/ Deliver(d) \/ NativeSweep(d)
      PROVE  IInv' /\ UNCHANGED <<row, sent>>
  BY <1>6, PaymentKeeps, NativeSweepKeeps
<1>7. ASSUME TreasuryTransfer \/ \E m \in pending : ToppedUp(m)
      PROVE  IInv' /\ UNCHANGED <<row, sent>>
  BY <1>7, ServiceKeeps
<1>8. ASSUME NEW m \in pending, Transferred(m)
      PROVE  /\ IInv' /\ UNCHANGED row
             /\ UNCHANGED sent \/ Executes(m)
  BY <1>8, TransferKeeps DEF Executes
<1>9. \A w \in Workers : Job(w) \in Jobs
  BY CallTypes
<1> QED
  BY <1>1, <1>2, <1>3, <1>4, <1>5, <1>6, <1>7, <1>8, <1>9 DEF Next, Execute

LEMMA StepKeeps == IInv /\ [Next]_vars => IInv'
BY StepEffects

LEMMA InvariantSuffices == IInv => TypeOK /\ PlannedFirst
<1> SUFFICES ASSUME IInv PROVE PlannedFirst
  BY DEF IInv
<1> QED
  BY DEF IInv, Chain, Pends, Executed, Backed, PlannedFirst

\* Rows, messages and calls keep their types, and no row is written that its table
\* would refuse (the check constraints of the sweep's migration, and transition).
THEOREM UsdtRowsAreLegal == Spec => []TypeOK
BY InitHolds, StepKeeps, InvariantSuffices, PTL DEF Spec

\* No message of a sweep, be it a transfer, a top-up or a repair, is broadcast
\* before its plan is durable, and no plan is replaced while its message could
\* still be accepted (sendReadySweep, sendPlannedTopup, repairConfirmedReserve).
THEOREM UsdtPlansAreDurable == Spec => []PlannedFirst
BY InitHolds, StepKeeps, InvariantSuffices, PTL DEF Spec

LEMMA ConfirmationNeedsReserve ==
  ASSUME IInv, [Next]_vars
  PROVE  \A j \in Jobs : row'[j].status = "CONFIRMED" /\ row[j].status # "CONFIRMED"
           => ton[DepositOf[j]] >= Reserve
<1> SUFFICES ASSUME NEW j \in Jobs, row'[j].status = "CONFIRMED", row[j].status # "CONFIRMED"
             PROVE  ton[DepositOf[j]] >= Reserve
  OBVIOUS
<1>1. ~StatusesKept /\ ~UNCHANGED row /\ ~\E k \in Jobs : Turns(k)
  BY DEF StatusesKept, Active, Gassing, Turns
<1>2. PICK w \in Workers : ConfirmedBy(w)
  BY <1>1, StepEffects
<1>3. j = Job(w)
  BY <1>2 DEF ConfirmedBy
<1> QED
  BY <1>2, <1>3 DEF ConfirmedBy, Dep

\* No job is confirmed while its deposit lacks its TON reserve, although transfers,
\* native sweeps and other calls use the deposit meanwhile (repairConfirmedReserve).
THEOREM ReserveBeforeConfirmation == Spec => ReserveIsRestored
BY InitHolds, StepKeeps, ConfirmationNeedsReserve, PTL DEF Spec, ReserveIsRestored
-----------------------------------------------------------------------------
(* The promise: SweepPromise, without its fairness, is implemented.         *)

MovedOnce == \A j \in Jobs : Moves(j) = IF IsOnChain(j) THEN 1 ELSE 0

LEMMA MovesOnce == IInv => MovedOnce
<1> SUFFICES ASSUME IInv, NEW j \in Jobs
             PROVE  Moves(j) = IF IsOnChain(j) THEN 1 ELSE 0
  BY DEF MovedOnce
<1> DEFINE S == {i \in DOMAIN sent : sent[i].job = j}
<1>1. CASE IsOnChain(j)
  <2>1. PICK i \in DOMAIN sent : sent[i].job = j
    BY <1>1 DEF IsOnChain
  <2>2. S = {i}
    BY <2>1 DEF IInv, Chain
  <2> QED
    BY <1>1, <2>2, FS_Singleton DEF Moves
<1>2. CASE ~IsOnChain(j)
  <2>1. S = {}
    BY <1>2 DEF IsOnChain
  <2> QED
    BY <1>2, <2>1, FS_EmptySet DEF Moves
<1> QED
  BY <1>1, <1>2

LEMMA PromisedAtFirst ==
  ASSUME Init
  PROVE  Promise!Init
<1>1. IInv /\ sent = <<>>
  BY InitHolds DEF Init
<1>2. \A j \in Jobs : Moves(j) = 0
  BY <1>1, MovesOnce DEF MovedOnce, IsOnChain
<1>3. \A j \in Jobs : Outcome(j) \in {"ABSENT", "OPEN"}
  BY DEF Init, Outcome, NewRow
<1> QED
  BY <1>2, <1>3 DEF Promise!Init

LEMMA Stutters ==
  ASSUME StatusesKept
  PROVE  [j \in Jobs |-> Outcome(j)]' = [j \in Jobs |-> Outcome(j)]
<1>1. \A j \in Jobs : Outcome(j)' = Outcome(j)
  BY DEF StatusesKept, Outcome, Active, Gassing
<1> QED
  BY <1>1

LEMMA MovesKept ==
  ASSUME UNCHANGED sent
  PROVE  [j \in Jobs |-> Moves(j)]' = [j \in Jobs |-> Moves(j)]
BY DEF Moves

LEMMA TurnIsPromised ==
  ASSUME UNCHANGED sent, NEW j \in Jobs, Turns(j)
  PROVE  Promise!Queue(j) \/ Promise!Fail(j) \/ Promise!Retry(j)
<1> DEFINE outcome == [k \in Jobs |-> Outcome(k)]
           to == Outcome(j)'
<1>1. [k \in Jobs |-> Moves(k)]' = [k \in Jobs |-> Moves(k)]
  BY MovesKept
<1>2. \A k \in Jobs \ {j} : Outcome(k)' = Outcome(k)
  BY DEF Turns, Outcome
<1>3. outcome' = [outcome EXCEPT ![j] = to]
  BY <1>2
<1>4. \/ Outcome(j) = "ABSENT" /\ to = "OPEN"
      \/ Outcome(j) = "OPEN" /\ to = "FAILED"
      \/ Outcome(j) = "FAILED" /\ to = "OPEN"
  BY DEF Turns, Outcome, Active, Gassing
<1> QED
  BY <1>1, <1>3, <1>4 DEF Promise!Queue, Promise!Fail, Promise!Retry

LEMMA ConfirmationIsPromised ==
  ASSUME IInv, UNCHANGED sent, NEW w \in Workers, ConfirmedBy(w), NEW n \in Jobs, n = Job(w)
  PROVE  Promise!Confirm(n)
<1> DEFINE outcome == [k \in Jobs |-> Outcome(k)]
<1>1. [k \in Jobs |-> Moves(k)]' = [k \in Jobs |-> Moves(k)]
  BY MovesKept
<1>2. /\ IsOnChain(n) /\ row[n].status = "SENT" /\ row'[n].status = "CONFIRMED"
      /\ \/ \A k \in Jobs \ {n} : row'[k] = row[k]
         \/ \E j \in Jobs \ {n} : /\ row[j].status = "ABSENT" /\ row'[j].status = "QUEUED"
                                  /\ \A k \in Jobs \ {n, j} : row'[k] = row[k]
  BY DEF ConfirmedBy
<1>3. Moves(n) = 1 /\ Outcome(n) = "OPEN" /\ Outcome(n)' = "CONFIRMED"
  BY <1>2, MovesOnce DEF MovedOnce, Outcome
<1>4. CASE \A k \in Jobs \ {n} : row'[k] = row[k]
  <2>1. \A k \in Jobs \ {n} : Outcome(k)' = Outcome(k)
    BY <1>4 DEF Outcome
  <2>2. outcome' = [outcome EXCEPT ![n] = "CONFIRMED"]
    BY <1>3, <2>1
  <2> QED
    BY <1>1, <1>3, <2>2 DEF Promise!Confirm
<1>5. ASSUME NEW j \in Jobs \ {n}, row[j].status = "ABSENT", row'[j].status = "QUEUED",
             \A k \in Jobs \ {n, j} : row'[k] = row[k]
      PROVE  Promise!Confirm(n)
  <2>1. /\ \A k \in Jobs \ {n, j} : Outcome(k)' = Outcome(k)
        /\ Outcome(j) = "ABSENT" /\ Outcome(j)' = "OPEN"
    BY <1>5 DEF Outcome
  <2>2. outcome' = [outcome EXCEPT ![n] = "CONFIRMED", ![j] = "OPEN"]
    BY <1>3, <2>1
  <2>3. outcome[j] = "ABSENT" /\ j \in Jobs
    BY <2>1
  <2> QED
    BY <1>1, <1>3, <2>2, <2>3 DEF Promise!Confirm
<1> QED
  BY <1>2, <1>4, <1>5

LEMMA MoveIsPromised ==
  ASSUME IInv, IInv', UNCHANGED row, NEW m \in pending, Executes(m)
  PROVE  Promise!Move(m.job)
<1> DEFINE moves == [k \in Jobs |-> Moves(k)]
           n == m.job
<1>1. [k \in Jobs |-> Outcome(k)]' = [k \in Jobs |-> Outcome(k)]
  BY DEF Outcome
<1>2. n \in Jobs /\ m \in Messages /\ sent \in Seq(Messages) /\ ~IsOnChain(n)
  BY Types DEF Executes, Messages
<1>3. /\ Len(sent) \in Nat
      /\ DOMAIN sent = 1..Len(sent) /\ DOMAIN sent' = 1..(Len(sent) + 1)
      /\ \A i \in DOMAIN sent : sent'[i] = sent[i]
      /\ sent'[Len(sent) + 1] = m
  BY <1>2, AppendProperties, LenProperties DEF Executes
<1>4. /\ IsOnChain(n)'
      /\ \A k \in Jobs \ {n} : IsOnChain(k)' = IsOnChain(k)
  <2>1. \A i \in DOMAIN sent' : i \in DOMAIN sent \/ i = Len(sent) + 1
    BY <1>3
  <2>2. DOMAIN sent \subseteq DOMAIN sent' /\ Len(sent) + 1 \in DOMAIN sent'
    BY <1>3
  <2> QED
    BY <1>3, <2>1, <2>2 DEF IsOnChain
<1>5. \A k \in Jobs : Moves(k)' = IF IsOnChain(k)' THEN 1 ELSE 0
  <2>1. MovedOnce'
    BY MovesOnce, PTL
  <2> QED
    BY <2>1 DEF MovedOnce
<1>6. /\ Moves(n) = 0 /\ Moves(n)' = 1
      /\ \A k \in Jobs \ {n} : Moves(k)' = Moves(k)
  BY <1>2, <1>4, <1>5, MovesOnce DEF MovedOnce
<1>7. moves[n] = 0 /\ moves' = [moves EXCEPT ![n] = 1]
  BY <1>2, <1>6
<1> QED
  BY <1>1, <1>7 DEF Promise!Move

LEMMA PromisedStep ==
  ASSUME IInv, [Next]_vars
  PROVE  \/ Promise!Next
         \/ /\ [j \in Jobs |-> Moves(j)]' = [j \in Jobs |-> Moves(j)]
            /\ [j \in Jobs |-> Outcome(j)]' = [j \in Jobs |-> Outcome(j)]
<1>1. CASE UNCHANGED sent /\ StatusesKept
  BY <1>1, Stutters, MovesKept
<1>2. CASE UNCHANGED sent /\ \E j \in Jobs : Turns(j)
  BY <1>2, TurnIsPromised DEF Promise!Next
<1>3. CASE UNCHANGED sent /\ \E w \in Workers : ConfirmedBy(w)
  <2>1. PICK w \in Workers : ConfirmedBy(w)
    BY <1>3
  <2>2. PICK n \in Jobs : n = Job(w)
    BY CallTypes
  <2>3. Promise!Confirm(n)
    BY <1>3, <2>1, <2>2, ConfirmationIsPromised
  <2> QED
    BY <2>3 DEF Promise!Next
<1>4. CASE UNCHANGED row /\ \E m \in pending : Executes(m)
  <2>1. PICK m \in pending : Executes(m)
    BY <1>4
  <2>2. m.job \in Jobs /\ IInv'
    BY Types, StepEffects DEF Messages
  <2>3. Promise!Move(m.job)
    BY <1>4, <2>1, <2>2, MoveIsPromised
  <2> QED
    BY <2>2, <2>3 DEF Promise!Next
<1> QED
  BY <1>1, <1>2, <1>3, <1>4, StepEffects

\* The safety half of KeepsPromise: whatever is lost, repeated or interrupted, a job's
\* jettons move at most once, a job is confirmed only after they have moved and then
\* for good, and only an operator reopens a job that was given up (advanceSweep).
THEOREM PromiseIsKept == Spec => Promise!Safety
<1>1. IInv /\ [Next]_vars =>
        [Promise!Next]_<<[j \in Jobs |-> Moves(j)], [j \in Jobs |-> Outcome(j)]>>
  BY PromisedStep
<1> QED
  BY <1>1, InitHolds, StepKeeps, PromisedAtFirst, PTL DEF Spec, Promise!Safety
=============================================================================
