------------------------- MODULE NativeSweepProofs -------------------------
(***************************************************************************)
(* Of the workers that sweep GRAM, for every number of workers, jobs and   *)
(* faults and all amounts, in three layers:                                *)
(*                                                                         *)
(*  - IInv: no job moves coins twice.  Neither leases nor amounts matter   *)
(*    to that.  It rests on the owner check of markSweepReady, which makes *)
(*    the first plan of a job its only one, and on the seqno in it, which  *)
(*    the wallet accepts once.                                             *)
(*  - Typed: the rows are what the code may write, and the planner keeps   *)
(*    the books of each asset, so that a paid order is swept.              *)
(*  - Covered: a plan finds its coins, as one job is planned at a time.    *)
(***************************************************************************)
EXTENDS NativeSweep, SumTheorems, SequenceTheorems, TLAPS

Elements(s) == {s[n] : n \in DOMAIN s}
IsSeq(s)    == s \in Seq(Elements(s))

IsPlan(p) == p = [amount |-> p.amount, seqno |-> p.seqno]
IsJob(r) ==
  r = [reason |-> r.reason, trigger |-> r.trigger, status |-> r.status,
       plan |-> r.plan, sentAt |-> r.sentAt, owner |-> r.owner,
       leased |-> r.leased, case |-> r.case]
IsCall(c) ==
  /\ c = [at |-> c.at, job |-> c.job, status |-> c.status, plan |-> c.plan,
          found |-> c.found, slow |-> c.slow]
  /\ IsPlan(c.plan)

\* A persisted plan has a seqno.
Persisted(p) == p # NoPlan => p.seqno \in Nat

Shape ==
  /\ sweeps = [a \in Assets |-> sweeps[a]]
  /\ IsSeq(Gram)
  /\ \A n \in DOMAIN Gram : /\ IsJob(Gram[n])
                            /\ IsPlan(Gram[n].plan)
                            /\ Persisted(Gram[n].plan)
  /\ worker = [w \in Workers |-> worker[w]]
  /\ \A w \in Workers : IsCall(worker[w])
  /\ wallet \in Nat
  /\ IsSeq(sent)

\* A call that has the job's plan, and one that is to make it.
Follows(w) ==
  \/ worker[w].at \in {"FIND", "SEQNO_PASSED", "SEND", "SENT"}
  \/ worker[w].at \in {"ACQUIRE", "BALANCE"} /\ worker[w].plan # NoPlan
ToPlan(w) ==
  \/ worker[w].at \in {"SEQNO", "READY"}
  \/ worker[w].at \in {"ACQUIRE", "BALANCE"} /\ worker[w].plan = NoPlan

\* What a call believes of its job.
Call(w) ==
  /\ ~At(w, "IDLE") => worker[w].job \in DOMAIN Gram
  /\ Follows(w) => worker[w].plan = Row(w).plan /\ worker[w].plan # NoPlan
  /\ ToPlan(w) /\ Owns(w) => Row(w).plan = NoPlan
  /\ At(w, "READY") => worker[w].plan.seqno \in Nat

\* A transfer is the one its job's row has the plan of.
Backed(x) ==
  /\ x.job \in DOMAIN Gram
  /\ Gram[x.job].plan # NoPlan
  /\ x = Message(x.job, Gram[x.job].plan)

\* The wallet has accepted its seqnos one after the other.
InOrder ==
  /\ \A i \in DOMAIN sent : sent[i].seqno \in Nat /\ sent[i].seqno < wallet
  /\ \A i, j \in DOMAIN sent : i < j => sent[i].seqno < sent[j].seqno

IInv ==
  /\ Shape
  /\ \A w \in Workers : Call(w)
  /\ \A x \in pending \cup Elements(sent) : Backed(x)
  /\ InOrder
-----------------------------------------------------------------------------
LEMMA Appended ==
  ASSUME NEW s, NEW x, IsSeq(s)
  PROVE  /\ IsSeq(Append(s, x))
         /\ Len(s) \in Nat /\ DOMAIN s = 1..Len(s)
         /\ DOMAIN Append(s, x) = 1..(Len(s) + 1)
         /\ \A n \in DOMAIN s : Append(s, x)[n] = s[n]
         /\ Append(s, x)[Len(s) + 1] = x
<1> DEFINE S == Elements(s) \cup {x}
<1>1. s \in Seq(S)
  BY DEF IsSeq
<1>2. /\ Append(s, x) \in Seq(S)
      /\ Len(Append(s, x)) = Len(s) + 1
      /\ \A i \in 1..Len(s) : Append(s, x)[i] = s[i]
      /\ Append(s, x)[Len(s) + 1] = x
  BY <1>1, AppendProperties
<1>3. /\ Len(s) \in Nat /\ DOMAIN s = 1..Len(s)
      /\ DOMAIN Append(s, x) = 1..(Len(s) + 1)
  BY <1>1, <1>2, LenProperties
<1>4. IsSeq(Append(s, x))
  BY <1>2, <1>3 DEF IsSeq, Elements
<1> QED
  BY <1>2, <1>3, <1>4

LEMMA FunctionIsSeq ==
  ASSUME NEW n \in Nat, NEW S, NEW f \in [1..n -> S]
  PROVE  f \in Seq(S)
BY SeqDef

LEMMA Replaced ==
  ASSUME NEW s, NEW n \in DOMAIN s, NEW x, IsSeq(s)
  PROVE  /\ IsSeq([s EXCEPT ![n] = x])
         /\ DOMAIN [s EXCEPT ![n] = x] = DOMAIN s
         /\ \A k \in DOMAIN s : [s EXCEPT ![n] = x][k] = IF k = n THEN x ELSE s[k]
<1> DEFINE t == [s EXCEPT ![n] = x]
<1>1. Len(s) \in Nat /\ DOMAIN s = 1..Len(s)
  BY LenProperties DEF IsSeq
<1>2. DOMAIN t = DOMAIN s /\ \A k \in DOMAIN s : t[k] = IF k = n THEN x ELSE s[k]
  OBVIOUS
<1>3. t \in [1..Len(s) -> Elements(t)]
  BY <1>1, <1>2 DEF Elements
<1>4. t \in Seq(Elements(t))
  BY <1>1, <1>3, FunctionIsSeq
<1> QED
  BY <1>2, <1>4 DEF IsSeq
-----------------------------------------------------------------------------
(* Most steps leave the plans alone.                                        *)

\* Jobs stay, with their plans, and only the callers in W take one over.
Keeps(W) ==
  \A n \in DOMAIN Gram :
    /\ n \in DOMAIN Gram'
    /\ Gram'[n].plan = Gram[n].plan
    /\ Gram'[n].owner \in Workers \ W => Gram'[n].owner = Gram[n].owner

\* No transfer is added; the wallet may have taken other messages.
NoTransfer ==
  /\ UNCHANGED sent
  /\ pending' \subseteq pending
  /\ wallet' \in Nat /\ wallet' >= wallet

LEMMA ChainKept ==
  ASSUME IInv, UNCHANGED chain
  PROVE  NoTransfer
BY DEF IInv, Shape, chain, NoTransfer

LEMMA PlansKept ==
  ASSUME IInv, NEW W \in SUBSET Workers,
         Shape', Keeps(W), NoTransfer,
         \A v \in Workers \ W : worker'[v] = worker[v],
         \A v \in W : Call(v)'
  PROVE  IInv'
<1>1. \A v \in Workers \ W : Call(v)'
  <2> SUFFICES ASSUME NEW v \in Workers \ W PROVE Call(v)'
    OBVIOUS
  <2>1. Call(v) /\ worker'[v] = worker[v]
    BY DEF IInv
  <2>2. CASE At(v, "IDLE")
    BY <2>1, <2>2 DEF Call, At, Follows, ToPlan
  <2>3. CASE ~At(v, "IDLE")
    <3>1. worker[v].job \in DOMAIN Gram
      BY <2>1, <2>3 DEF Call
    <3>2. /\ worker'[v].job \in DOMAIN Gram'
          /\ Row(v)'.plan = Row(v).plan
          /\ Owns(v)' => Owns(v)
      BY <2>1, <3>1 DEF Keeps, Row, Owns
    <3> QED
      BY <2>1, <3>2 DEF Call, At, Follows, ToPlan
  <2> QED
    BY <2>2, <2>3
<1>2. \A x \in pending' \cup Elements(sent') : Backed(x)'
  BY DEF IInv, Keeps, Backed, NoTransfer
<1>3. InOrder'
  BY DEF IInv, Shape, InOrder, NoTransfer
<1> QED
  BY <1>1, <1>2, <1>3 DEF IInv

\* The rows are not touched at all.
LEMMA RowsKept ==
  ASSUME IInv, NEW W \in SUBSET Workers, UNCHANGED sweeps, UNCHANGED chain,
         worker' = [v \in Workers |-> worker'[v]],
         \A v \in W : IsCall(worker'[v]) /\ Call(v)',
         \A v \in Workers \ W : worker'[v] = worker[v]
  PROVE  IInv'
<1>1. Shape'
  BY DEF IInv, Shape, chain, Gram
<1>2. Keeps(W)
  BY DEF Keeps, Gram
<1> QED
  BY <1>1, <1>2, ChainKept, PlansKept

\* One row gets other values, its plan excepted.
LEMMA RowReplaced ==
  ASSUME IInv, NEW n \in DOMAIN Gram, NEW row, NEW W \in SUBSET Workers,
         sweeps' = [sweeps EXCEPT !["GRAM"][n] = row],
         IsJob(row), row.plan = Gram[n].plan,
         row.owner \in W \cup {Gram[n].owner, Nobody, Gone}
  PROVE  /\ Gram' = [Gram EXCEPT ![n] = row]
         /\ sweeps' = [a \in Assets |-> sweeps'[a]]
         /\ IsSeq(Gram') /\ DOMAIN Gram' = DOMAIN Gram
         /\ \A k \in DOMAIN Gram' : /\ IsJob(Gram'[k])
                                    /\ IsPlan(Gram'[k].plan)
                                    /\ Persisted(Gram'[k].plan)
         /\ Keeps(W)
<1>1. sweeps = [a \in Assets |-> sweeps[a]] /\ IsSeq(Gram)
  BY DEF IInv, Shape
<1>2. /\ Gram' = [Gram EXCEPT ![n] = row]
      /\ sweeps' = [a \in Assets |-> sweeps'[a]]
  BY <1>1 DEF Gram, Assets
<1>3. /\ IsSeq(Gram') /\ DOMAIN Gram' = DOMAIN Gram
      /\ \A k \in DOMAIN Gram : Gram'[k] = IF k = n THEN row ELSE Gram[k]
  BY <1>1, <1>2, Replaced
<1>4. Keeps(W)
  BY <1>3, NativeAssumption DEF Keeps
<1> QED
  BY <1>2, <1>3, <1>4 DEF IInv, Shape

\* The planner appends to the jobs it is given.
LEMMA PlannerAppends ==
  ASSUME NEW st, NEW status, NEW jobs, jobs = [a \in Assets |-> jobs[a]],
         IsSeq(jobs["GRAM"]),
         \A n \in DOMAIN jobs["GRAM"] : /\ IsJob(jobs["GRAM"][n])
                                        /\ IsPlan(jobs["GRAM"][n].plan)
                                        /\ Persisted(jobs["GRAM"][n].plan),
         sweeps' = Reconciled(st, status, jobs)
  PROVE  /\ sweeps' = [a \in Assets |-> sweeps'[a]]
         /\ IsSeq(Gram')
         /\ \A n \in DOMAIN Gram' : /\ IsJob(Gram'[n])
                                    /\ IsPlan(Gram'[n].plan)
                                    /\ Persisted(Gram'[n].plan)
         /\ \A n \in DOMAIN jobs["GRAM"] :
              n \in DOMAIN Gram' /\ Gram'[n] = jobs["GRAM"][n]
<1> DEFINE rows == jobs["GRAM"]
           new  == NewSweep(Reason(st, status, "GRAM", rows), CreditedFiat(st, "GRAM"))
<1>1. /\ sweeps' = [a \in Assets |-> sweeps'[a]]
      /\ Gram' = rows \/ Gram' = Append(rows, new)
  BY DEF Reconciled, Gram, Assets
<1>2. IsJob(new) /\ IsPlan(new.plan) /\ Persisted(new.plan)
  BY DEF NewSweep, IsJob, IsPlan, Persisted, NoPlan
<1>3. CASE Gram' = rows
  BY <1>1, <1>3
<1>4. CASE Gram' = Append(rows, new)
  <2> HIDE DEF new
  <2>1. /\ IsSeq(Gram') /\ Len(rows) \in Nat
        /\ DOMAIN rows = 1..Len(rows) /\ DOMAIN Gram' = 1..(Len(rows) + 1)
        /\ \A n \in DOMAIN rows : Gram'[n] = rows[n]
        /\ Gram'[Len(rows) + 1] = new
    BY <1>4, Appended
  <2>2. ASSUME NEW n \in DOMAIN Gram'
        PROVE  IsJob(Gram'[n]) /\ IsPlan(Gram'[n].plan) /\ Persisted(Gram'[n].plan)
    <3>1. n \in DOMAIN rows \/ n = Len(rows) + 1
      BY <2>1
    <3>2. CASE n \in DOMAIN rows
      BY <2>1, <3>2
    <3>3. CASE n = Len(rows) + 1
      BY <1>2, <2>1, <3>3
    <3> QED
      BY <3>1, <3>2, <3>3
  <2> HIDE DEF rows
  <2>3. \A n \in DOMAIN rows : n \in DOMAIN Gram' /\ Gram'[n] = rows[n]
    BY <2>1
  <2>4. \A n \in DOMAIN Gram' :
          IsJob(Gram'[n]) /\ IsPlan(Gram'[n].plan) /\ Persisted(Gram'[n].plan)
    BY <2>2
  <2> QED
    BY <1>1, <2>1, <2>3, <2>4 DEF rows
<1> QED
  BY <1>1, <1>3, <1>4

LEMMA PlannerKeeps ==
  ASSUME IInv, NoTransfer, UNCHANGED worker, NEW st, NEW status, NEW jobs,
         sweeps' = Reconciled(st, status, jobs),
         jobs = [a \in Assets |-> jobs[a]], jobs["GRAM"] = Gram
  PROVE  IInv'
<1>1. Shape
  BY DEF IInv
<1>2. /\ IsSeq(jobs["GRAM"])
      /\ \A n \in DOMAIN jobs["GRAM"] : /\ IsJob(jobs["GRAM"][n])
                                        /\ IsPlan(jobs["GRAM"][n].plan)
                                        /\ Persisted(jobs["GRAM"][n].plan)
  BY <1>1 DEF Shape
<1>3. /\ sweeps' = [a \in Assets |-> sweeps'[a]]
      /\ IsSeq(Gram')
      /\ \A n \in DOMAIN Gram' : /\ IsJob(Gram'[n])
                                 /\ IsPlan(Gram'[n].plan)
                                 /\ Persisted(Gram'[n].plan)
      /\ \A n \in DOMAIN Gram : n \in DOMAIN Gram' /\ Gram'[n] = Gram[n]
  BY <1>2, PlannerAppends
<1>4. Shape' /\ Keeps({})
  BY <1>1, <1>3 DEF Shape, Keeps, NoTransfer
<1> QED
  BY <1>4, PlansKept

LEMMA LedgerKeeps ==
  ASSUME IInv, Ledger, UNCHANGED <<chain, signing, worker, faults>>
  PROVE  IInv'
<1>1. Shape /\ NoTransfer
  BY ChainKept DEF IInv
<1>2. CASE UNCHANGED sweeps
  <2>1. worker' = [v \in Workers |-> worker'[v]]
    BY <1>1 DEF Shape
  <2>2. UNCHANGED chain
    OBVIOUS
  <2> QED
    BY <1>2, <2>1, <2>2, RowsKept, {} \in SUBSET Workers
<1>3. ASSUME NEW t \in Transfers, Credit(t) PROVE IInv'
  BY <1>1, <1>3, PlannerKeeps DEF Credit, Shape, Gram
<1>4. CASE GrantDiscount
  BY <1>1, <1>4, PlannerKeeps DEF GrantDiscount, Shape, Gram
<1> QED
  BY <1>2, <1>3, <1>4 DEF Ledger, Arrive, Journal, CreditToRecovery

LEMMA UsdtKeeps ==
  ASSUME IInv, UsdtSweep
  PROVE  IInv'
<1>1. Shape /\ NoTransfer
  BY DEF IInv, Shape, UsdtSweep, NoTransfer
<1>2. PICK jobs : /\ sweeps' = Reconciled(stage, order, jobs)
                  /\ \E n, row : jobs = [sweeps EXCEPT !["USDT"][n] = row]
  BY DEF UsdtSweep, ConfirmUsdt
<1>3. jobs = [a \in Assets |-> jobs[a]] /\ jobs["GRAM"] = Gram
  BY <1>1, <1>2 DEF Shape, Gram, Assets
<1> QED
  BY <1>1, <1>2, <1>3, PlannerKeeps DEF UsdtSweep
-----------------------------------------------------------------------------
(* The steps of a call that leave the rows alone.                           *)

\* Only w moves.
Moves(w) ==
  /\ worker' = [v \in Workers |-> worker'[v]]
  /\ IsCall(worker'[w])
  /\ \A v \in Workers \ {w} : worker'[v] = worker[v]

LEMMA Going ==
  ASSUME Shape, NEW w \in Workers, NEW place, GoTo(w, place)
  PROVE  /\ Moves(w)
         /\ worker'[w].at = place
         /\ worker'[w].job = worker[w].job
         /\ worker'[w].plan = worker[w].plan
<1>1. /\ worker = [v \in Workers |-> worker[v]]
      /\ IsCall(worker[w])
  BY DEF Shape
<1>2. /\ worker' = [v \in Workers |-> worker'[v]]
      /\ worker'[w] = [worker[w] EXCEPT !.at = place]
      /\ \A v \in Workers \ {w} : worker'[v] = worker[v]
  BY <1>1 DEF GoTo
<1> QED
  BY <1>1, <1>2 DEF Moves, IsCall

LEMMA Ending ==
  ASSUME Shape, NEW w \in Workers, EndCall(w)
  PROVE  Moves(w) /\ At(w, "IDLE")'
<1>1. worker = [v \in Workers |-> worker[v]]
  BY DEF Shape
<1>2. /\ worker' = [v \in Workers |-> worker'[v]]
      /\ worker'[w] = Idle
      /\ \A v \in Workers \ {w} : worker'[v] = worker[v]
  BY <1>1 DEF EndCall
<1> QED
  BY <1>2 DEF Moves, IsCall, Idle, IsPlan, NoPlan, At

\* A call that is over, or has nothing to do with a plan any more.
Quiet(w) == worker[w].at \in {"IDLE", "LISTED", "CONFIRM", "RELEASE", "DEFER", "SHORT", "FAIL"}

LEMMA QuietCall ==
  ASSUME NEW w, Quiet(w), At(w, "IDLE") \/ worker[w].job \in DOMAIN Gram
  PROVE  Call(w)
BY DEF Quiet, Call, At, Follows, ToPlan

Following == {"SENT", "SEND", "FIND", "BALANCE", "SEQNO_PASSED"}

\* The places a call goes to without a row, if its job stays.
LEMMA GoesOn ==
  ASSUME IInv, NEW w \in Workers, NEW place, GoTo(w, place), Keeps({w}),
         ~At(w, "IDLE"), Quiet(w)' \/ (Follows(w) /\ place \in Following)
  PROVE  Moves(w) /\ Call(w)'
<1>1. /\ Moves(w)
      /\ worker'[w].at = place
      /\ worker'[w].job = worker[w].job
      /\ worker'[w].plan = worker[w].plan
  BY Going DEF IInv
<1>2. /\ worker[w].job \in DOMAIN Gram
      /\ Call(w)
  BY DEF IInv, Call
<1>3. /\ worker'[w].job \in DOMAIN Gram'
      /\ Row(w)'.plan = Row(w).plan
  BY <1>1, <1>2 DEF Keeps, Row
<1>4. CASE Quiet(w)'
  BY <1>1, <1>3, <1>4 DEF Quiet, Call, At, Follows, ToPlan
<1>5. CASE Follows(w) /\ place \in Following
  BY <1>1, <1>2, <1>3, <1>5 DEF Call, At, Follows, ToPlan, Following
<1> QED
  BY <1>1, <1>4, <1>5

LEMMA StepsWithoutRows ==
  ASSUME IInv, NEW w \in Workers,
         \/ List(w) \/ Acquire(w) \/ Find(w) \/ SeqnoPassed(w) \/ ReadBalance(w)
         \/ ReadSeqno(w) \/ Release(w) \/ Throws(w) \/ Slow(w)
  PROVE  IInv'
<1>1. /\ Shape /\ IsCall(worker[w]) /\ Call(w)
      /\ worker = [v \in Workers |-> worker[v]]
      /\ wallet \in Nat
  BY DEF IInv, Shape
<1>2. /\ UNCHANGED sweeps /\ UNCHANGED chain
      /\ Gram' = Gram /\ Keeps({w})
  <2>1. UNCHANGED sweeps /\ UNCHANGED chain
    BY DEF List, Acquire, Find, SeqnoPassed, ReadBalance, ReadSeqno, Release, Throws, Slow
  <2> QED
    BY <2>1 DEF Gram, Keeps
<1>3. SUFFICES Moves(w) /\ Call(w)'
  BY <1>2, RowsKept, {w} \in SUBSET Workers DEF Moves
<1>4. ASSUME NEW place, GoTo(w, place), ~At(w, "IDLE"),
             \/ place \in {"CONFIRM", "RELEASE", "DEFER", "SHORT", "FAIL"}
             \/ Follows(w) /\ place \in Following
      PROVE  Moves(w) /\ Call(w)'
  <2>1. worker'[w].at = place
    BY <1>1, <1>4, Going
  <2>2. Quiet(w)' \/ (Follows(w) /\ place \in Following)
    BY <1>4, <2>1 DEF Quiet
  <2> QED
    BY <1>2, <1>4, <2>2, GoesOn
<1>5. CASE List(w)
  <2>1. PICK n \in DOMAIN Gram :
          worker' = [worker EXCEPT ![w] = [Idle EXCEPT !.at = "LISTED", !.job = n]]
    BY <1>5 DEF List
  <2>2. worker'[w] = [Idle EXCEPT !.at = "LISTED", !.job = n]
    BY <1>1, <2>1
  <2>3. Moves(w)
    BY <1>1, <2>1, <2>2 DEF Moves, IsCall, Idle, IsPlan, NoPlan
  <2>4. Call(w)'
    BY <1>2, <2>2 DEF Call, Follows, ToPlan, At, Idle
  <2> QED
    BY <2>3, <2>4
<1>6. CASE Acquire(w)
  <2>1. CASE GoTo(w, "DEFER")
    BY <1>4, <1>6, <2>1 DEF Acquire, At
  <2>2. CASE worker[w].plan = NoPlan /\ GoTo(w, "BALANCE")
    <3>1. /\ Moves(w)
          /\ worker'[w].at = "BALANCE"
          /\ worker'[w].job = worker[w].job
          /\ worker'[w].plan = worker[w].plan
      BY <1>1, <2>2, Going
    <3>2. ToPlan(w) /\ worker[w].job \in DOMAIN Gram
      BY <1>1, <1>6, <2>2 DEF Acquire, At, ToPlan, Call
    <3>3. Call(w)'
      BY <1>1, <1>2, <2>2, <3>1, <3>2 DEF Call, Follows, ToPlan, At, Owns, Row
    <3> QED
      BY <3>1, <3>3
  <2>3. CASE worker[w].plan # NoPlan /\ GoTo(w, "FIND")
    BY <1>4, <1>6, <2>3 DEF Acquire, At, Follows, Following
  <2> QED
    BY <1>6, <2>1, <2>2, <2>3 DEF Acquire
<1>7. CASE Find(w)
  <2>1. ~At(w, "IDLE") /\ Follows(w)
    BY <1>7 DEF Find, At, Follows
  <2>2. CASE \E place \in {"FAIL", "SEQNO_PASSED", "DEFER"} : GoTo(w, place)
    BY <1>4, <2>1, <2>2 DEF Following
  <2>3. CASE worker' = [worker EXCEPT ![w].found = TRUE,
               ![w].at = IF worker[w].status = "READY" THEN "SENT" ELSE "CONFIRM"]
    <3>1. /\ Moves(w)
          /\ worker'[w].at \in {"SENT", "CONFIRM"}
          /\ worker'[w].job = worker[w].job
          /\ worker'[w].plan = worker[w].plan
      BY <1>1, <2>3 DEF Moves, IsCall
    <3>2. Call(w)'
      BY <1>1, <1>2, <2>1, <3>1 DEF Call, Follows, ToPlan, At, Row
    <3> QED
      BY <3>1, <3>2
  <2> QED
    BY <1>7, <2>2, <2>3 DEF Find
<1>8. CASE SeqnoPassed(w)
  <2>1. ~At(w, "IDLE") /\ Follows(w)
    BY <1>8 DEF SeqnoPassed, At, Follows
  <2> QED
    BY <1>4, <1>8, <2>1 DEF SeqnoPassed, Following
<1>9. CASE ReadBalance(w)
  <2>1. ~At(w, "IDLE")
    BY <1>9 DEF ReadBalance, At
  <2>2. CASE GoTo(w, "FAIL") \/ GoTo(w, "SHORT")
    BY <1>4, <2>1, <2>2
  <2>3. CASE worker[w].plan # NoPlan /\
             worker' = [worker EXCEPT ![w].plan.amount = worker[w].plan.amount,
                                      ![w].at = "SEND"]
    <3>1. /\ Moves(w)
          /\ worker'[w].at = "SEND"
          /\ worker'[w].job = worker[w].job
          /\ worker'[w].plan = worker[w].plan
      BY <1>1, <2>3 DEF Moves, IsCall, IsPlan
    <3>2. Follows(w)
      BY <1>9, <2>3 DEF ReadBalance, At, Follows
    <3>3. Call(w)'
      BY <1>1, <1>2, <2>1, <3>1, <3>2 DEF Call, Follows, ToPlan, At, Row
    <3> QED
      BY <3>1, <3>3
  <2>4. CASE worker[w].plan = NoPlan /\
             \E amount : worker' = [worker EXCEPT ![w].plan.amount = amount,
                                                  ![w].at = "SEQNO"]
    <3>0. PICK amount : worker' = [worker EXCEPT ![w].plan.amount = amount,
                                                 ![w].at = "SEQNO"]
      BY <2>4
    <3>1. /\ Moves(w)
          /\ worker'[w].at = "SEQNO"
          /\ worker'[w].job = worker[w].job
      BY <1>1, <3>0 DEF Moves, IsCall, IsPlan
    <3>2. ToPlan(w)
      BY <1>9, <2>4 DEF ReadBalance, At, ToPlan
    <3>3. Call(w)'
      BY <1>1, <1>2, <2>1, <3>1, <3>2 DEF Call, Follows, ToPlan, At, Row, Owns
    <3> QED
      BY <3>1, <3>3
  <2> QED
    BY <1>9, <2>2, <2>3, <2>4 DEF ReadBalance, AfterBalance
<1>10. CASE ReadSeqno(w)
  <2>1. /\ Moves(w)
        /\ worker'[w].at = "READY"
        /\ worker'[w].job = worker[w].job
        /\ worker'[w].plan.seqno = wallet
    BY <1>1, <1>10 DEF ReadSeqno, Moves, IsCall, IsPlan
  <2>2. ToPlan(w) /\ ~At(w, "IDLE")
    BY <1>10 DEF ReadSeqno, At, ToPlan
  <2>3. Call(w)'
    BY <1>1, <1>2, <2>1, <2>2 DEF Call, Follows, ToPlan, At, Row, Owns
  <2> QED
    BY <2>1, <2>3
<1>11. CASE Release(w)
  BY <1>1, <1>11, Ending DEF Release, Call, Follows, ToPlan, At
<1>12. CASE Throws(w)
  BY <1>4, <1>12 DEF Throws, At
<1>13. CASE Slow(w)
  <2>1. /\ Moves(w)
        /\ worker'[w].at = worker[w].at
        /\ worker'[w].job = worker[w].job
        /\ worker'[w].plan = worker[w].plan
    BY <1>1, <1>13 DEF Slow, Moves, IsCall
  <2>2. Call(w)'
    BY <1>1, <1>2, <2>1 DEF Call, Follows, ToPlan, At, Row, Owns
  <2> QED
    BY <2>1, <2>2
<1> QED
  BY <1>5, <1>6, <1>7, <1>8, <1>9, <1>10, <1>11, <1>12, <1>13
-----------------------------------------------------------------------------
(* The steps that write to a row and leave its plan alone.                  *)

\* Only the owner of a row may be another afterwards.
Rewrites(x, r, owner) == IsJob(x) /\ x.plan = r.plan /\ x.owner = owner

LEMMA LeaseWritten ==
  ASSUME NEW r, IsJob(r), NEW owner, NEW leased
  PROVE  Rewrites([r EXCEPT !.owner = owner, !.leased = leased], r, owner)
<1> DEFINE a == [r EXCEPT !.owner = owner]
           b == [a EXCEPT !.leased = leased]
<1>1. IsJob(a) /\ a.plan = r.plan /\ a.owner = owner
  BY DEF IsJob
<1> HIDE DEF a
<1>2. IsJob(b) /\ b.plan = r.plan /\ b.owner = owner
  BY <1>1 DEF IsJob
<1> QED
  BY <1>2, Zenon DEF a, b, Rewrites

LEMMA SentWritten ==
  ASSUME NEW r, IsJob(r), NEW status, NEW sentAt
  PROVE  Rewrites([r EXCEPT !.status = status, !.sentAt = sentAt], r, r.owner)
<1> DEFINE a == [r EXCEPT !.status = status]
           b == [a EXCEPT !.sentAt = sentAt]
<1>1. IsJob(a) /\ a.plan = r.plan /\ a.owner = r.owner
  BY DEF IsJob
<1> HIDE DEF a
<1>2. IsJob(b) /\ b.plan = r.plan /\ b.owner = r.owner
  BY <1>1 DEF IsJob
<1> QED
  BY <1>2, Zenon DEF a, b, Rewrites

LEMMA LeasedWritten ==
  ASSUME NEW r, IsJob(r), NEW leased
  PROVE  Rewrites([r EXCEPT !.leased = leased], r, r.owner)
BY DEF IsJob, Rewrites

LEMMA StatusWritten ==
  ASSUME NEW r, IsJob(r), NEW status, NEW owner, NEW leased
  PROVE  Rewrites([r EXCEPT !.status = status, !.owner = owner, !.leased = leased], r, owner)
<1> DEFINE a == [r EXCEPT !.status = status]
           b == [a EXCEPT !.owner = owner]
           c == [b EXCEPT !.leased = leased]
<1>1. IsJob(a) /\ a.plan = r.plan
  BY DEF IsJob
<1> HIDE DEF a
<1>2. IsJob(b) /\ b.plan = r.plan /\ b.owner = owner
  BY <1>1 DEF IsJob
<1> HIDE DEF b
<1>3. IsJob(c) /\ c.plan = r.plan /\ c.owner = owner
  BY <1>2 DEF IsJob
<1> QED
  BY <1>3, Zenon DEF a, b, c, Rewrites

LEMMA CaseWritten ==
  ASSUME NEW r, IsJob(r), NEW status, NEW owner, NEW leased, NEW case
  PROVE  Rewrites([r EXCEPT !.status = status, !.owner = owner, !.leased = leased,
                            !.case = case], r, owner)
<1> DEFINE a == [r EXCEPT !.status = status, !.owner = owner, !.leased = leased]
           b == [a EXCEPT !.case = case]
<1>0. Rewrites(a, r, owner)
  BY StatusWritten
<1> HIDE DEF a
<1>1. IsJob(a) /\ a.plan = r.plan /\ a.owner = owner
  BY <1>0 DEF Rewrites
<1>2. IsJob(b) /\ b.plan = r.plan /\ b.owner = owner
  BY <1>1 DEF IsJob
<1> QED
  BY <1>2, Zenon DEF a, b, Rewrites

Written(n, w) ==
  \/ UNCHANGED sweeps
  \/ \E row : /\ sweeps' = [sweeps EXCEPT !["GRAM"][n] = row]
              /\ IsJob(row)
              /\ row.plan = Gram[n].plan
              /\ row.owner \in {w, Gram[n].owner, Nobody, Gone}

LEMMA WrittenKeeps ==
  ASSUME IInv, NEW w \in Workers, NEW n \in DOMAIN Gram, Written(n, w)
  PROVE  /\ sweeps' = [a \in Assets |-> sweeps'[a]]
         /\ IsSeq(Gram') /\ DOMAIN Gram' = DOMAIN Gram
         /\ \A k \in DOMAIN Gram' : /\ IsJob(Gram'[k])
                                    /\ IsPlan(Gram'[k].plan)
                                    /\ Persisted(Gram'[k].plan)
         /\ Keeps({w})
<1>1. CASE UNCHANGED sweeps
  BY <1>1 DEF IInv, Shape, Gram, Keeps
<1>2. ASSUME NEW row, sweeps' = [sweeps EXCEPT !["GRAM"][n] = row], IsJob(row),
             row.plan = Gram[n].plan, row.owner \in {w, Gram[n].owner, Nobody, Gone}
      PROVE  /\ sweeps' = [a \in Assets |-> sweeps'[a]]
             /\ IsSeq(Gram') /\ DOMAIN Gram' = DOMAIN Gram
             /\ \A k \in DOMAIN Gram' : /\ IsJob(Gram'[k])
                                        /\ IsPlan(Gram'[k].plan)
                                        /\ Persisted(Gram'[k].plan)
             /\ Keeps({w})
  <2>1. row.owner \in {w} \cup {Gram[n].owner, Nobody, Gone}
    BY <1>2
  <2> QED
    BY <1>2, <2>1, RowReplaced, {w} \in SUBSET Workers
<1> QED
  BY <1>1, <1>2 DEF Written

LEMMA WriteKeeps ==
  ASSUME IInv, NEW w \in Workers, NEW n \in DOMAIN Gram, Written(n, w),
         UNCHANGED chain, Moves(w), Call(w)'
  PROVE  IInv'
<1>1. Shape' /\ Keeps({w})
  BY WrittenKeeps DEF IInv, Shape, Moves, chain
<1> QED
  BY <1>1, ChainKept, PlansKept, {w} \in SUBSET Workers DEF Moves

\* A step of nobody's call: worker stays.
LEMMA OutsideWrite ==
  ASSUME IInv, NEW n \in DOMAIN Gram, UNCHANGED chain, UNCHANGED worker, NEW row,
         sweeps' = [sweeps EXCEPT !["GRAM"][n] = row], IsJob(row),
         row.plan = Gram[n].plan, row.owner \in {Gram[n].owner, Nobody}
  PROVE  IInv'
<1>1. row.owner \in {} \cup {Gram[n].owner, Nobody, Gone}
  OBVIOUS
<1>2. /\ sweeps' = [a \in Assets |-> sweeps'[a]]
      /\ IsSeq(Gram')
      /\ \A k \in DOMAIN Gram' : /\ IsJob(Gram'[k])
                                 /\ IsPlan(Gram'[k].plan)
                                 /\ Persisted(Gram'[k].plan)
      /\ Keeps({})
  BY <1>1, RowReplaced, {} \in SUBSET Workers
<1>3. Shape'
  BY <1>2 DEF IInv, Shape, chain
<1> QED
  BY <1>2, <1>3, ChainKept, PlansKept, {} \in SUBSET Workers

LEMMA FailureIsWritten ==
  ASSUME IInv, NEW w \in Workers, worker[w].job \in DOMAIN Gram, MarkFailed(w)
  PROVE  Written(worker[w].job, w)
<1>1. IsJob(Row(w))
  BY DEF IInv, Shape, Row
<1>2. Rewrites(FailedRow(Row(w)), Row(w), Nobody)
  BY <1>1, CaseWritten DEF FailedRow
<1> HIDE DEF FailedRow
<1> QED
  BY <1>2 DEF MarkFailed, SetRow, Written, Row, Rewrites

LEMMA ClaimKeeps ==
  ASSUME IInv, NEW w \in Workers, Claim(w)
  PROVE  IInv'
<1> DEFINE n      == worker[w].job
           status == Resumed(Row(w))
           row    == [Row(w) EXCEPT !.status = status, !.owner = w, !.leased = TRUE]
<1>1. /\ Shape /\ IsCall(worker[w]) /\ n \in DOMAIN Gram
      /\ worker = [v \in Workers |-> worker[v]]
      /\ IsJob(Row(w)) /\ IsPlan(Row(w).plan)
  BY DEF IInv, Shape, Claim, Call, At, Row
<1>2. UNCHANGED chain
  BY DEF Claim
<1>3. CASE EndCall(w) /\ UNCHANGED sweeps
  <2>1. Moves(w) /\ Call(w)'
    BY <1>1, <1>3, Ending DEF Call, At, Follows, ToPlan
  <2> QED
    BY <1>1, <1>2, <1>3, <2>1, WriteKeeps DEF Written
<1>4. CASE /\ SetRow(w, row)
           /\ worker' = [worker EXCEPT ![w].at = "ACQUIRE", ![w].status = status,
                                        ![w].plan = Row(w).plan]
  <2>1. /\ IsJob(row) /\ row.plan = Row(w).plan /\ row.owner = w
    <3>1. Rewrites(row, Row(w), w)
      <4> HIDE DEF status
      <4> QED
        BY <1>1, StatusWritten
    <3> HIDE DEF row
    <3> QED
      BY <3>1 DEF Rewrites
  <2>2. Written(n, w)
    BY <1>4, <2>1 DEF SetRow, Written, Row
  <2>3. /\ Moves(w)
        /\ worker'[w].at = "ACQUIRE"
        /\ worker'[w].job = n
        /\ worker'[w].plan = Row(w).plan
    BY <1>1, <1>4 DEF Moves, IsCall
  <2>4. n \in DOMAIN Gram' /\ Row(w)'.plan = Row(w).plan
    BY <1>1, <2>2, <2>3, WrittenKeeps DEF Keeps, Row
  <2>5. Call(w)'
    BY <2>3, <2>4 DEF Call, At, Follows, ToPlan
  <2> QED
    BY <1>1, <1>2, <2>2, <2>3, <2>5, WriteKeeps
<1> QED
  BY <1>3, <1>4 DEF Claim

LEMMA StepsWithRows ==
  ASSUME IInv, NEW w \in Workers,
         Defer(w) \/ MarkSent(w) \/ Short(w) \/ Fail(w) \/ Crash(w)
  PROVE  IInv'
<1> DEFINE n == worker[w].job
<1>1. /\ Shape /\ IsCall(worker[w]) /\ Call(w)
      /\ worker = [v \in Workers |-> worker[v]]
      /\ ~At(w, "IDLE") /\ n \in DOMAIN Gram
      /\ IsJob(Row(w)) /\ IsPlan(Row(w).plan)
  BY DEF IInv, Shape, Defer, MarkSent, Short, Fail, Crash, Call, At, Row
<1>2. UNCHANGED chain
  BY DEF Defer, MarkSent, Short, Fail, Crash
<1>3. ASSUME EndCall(w), Written(n, w)
      PROVE  IInv'
  <2>1. Moves(w) /\ Call(w)'
    BY <1>1, <1>3, Ending DEF Call, At, Follows, ToPlan
  <2> QED
    BY <1>1, <1>2, <1>3, <2>1, WriteKeeps
<1>4. CASE Defer(w)
  <2> DEFINE row == [Row(w) EXCEPT !.owner = Nobody, !.leased = TRUE]
  <2>1. Rewrites(row, Row(w), Nobody)
    BY <1>1, LeaseWritten
  <2>2. SetRow(w, row) \/ UNCHANGED sweeps
    BY <1>4 DEF Defer
  <2> HIDE DEF row
  <2>3. Written(n, w)
    BY <2>1, <2>2 DEF SetRow, Written, Row, Rewrites
  <2> QED
    BY <1>3, <1>4, <2>3 DEF Defer
<1>5. CASE Crash(w)
  <2> DEFINE row == [Row(w) EXCEPT !.owner = Forgotten(w, @)]
  <2>1. /\ IsJob(row) /\ row.plan = Row(w).plan
        /\ row.owner \in {Row(w).owner, Gone}
    BY <1>1 DEF IsJob, Forgotten
  <2>2. SetRow(w, row)
    BY <1>5 DEF Crash
  <2> HIDE DEF row
  <2>3. Written(n, w)
    BY <2>1, <2>2 DEF SetRow, Written, Row, Rewrites
  <2> QED
    BY <1>3, <1>5, <2>3 DEF Crash
<1>6. CASE Fail(w)
  BY <1>1, <1>3, <1>6, FailureIsWritten DEF Fail
<1>7. CASE Short(w)
  <2>1. Written(n, w) /\ GoTo(w, "RELEASE")
    BY <1>1, <1>7, FailureIsWritten DEF Short
  <2>2. worker'[w].at = "RELEASE"
    BY <1>1, <2>1, Going
  <2>3. Quiet(w)' /\ Keeps({w})
    BY <1>1, <2>1, <2>2, WrittenKeeps DEF Quiet
  <2>4. Moves(w) /\ Call(w)'
    BY <1>1, <2>1, <2>3, GoesOn
  <2> QED
    BY <1>1, <1>2, <2>1, <2>4, WriteKeeps
<1>8. CASE MarkSent(w)
  <2>1. Follows(w)
    BY <1>8 DEF MarkSent, At, Follows
  <2>2. CASE GoTo(w, "FAIL") /\ UNCHANGED sweeps
    <3>1. Written(n, w)
      BY <2>2 DEF Written
    <3>2. worker'[w].at = "FAIL"
      BY <1>1, <2>2, Going
    <3>3. Quiet(w)' /\ Keeps({w})
      BY <1>1, <3>1, <3>2, WrittenKeeps DEF Quiet
    <3>4. Moves(w) /\ Call(w)'
      BY <1>1, <2>2, <3>3, GoesOn
    <3> QED
      BY <1>1, <1>2, <3>1, <3>4, WriteKeeps
  <2>3. ASSUME NEW s, SetRow(w, [Row(w) EXCEPT !.status = "SENT", !.sentAt = s]),
               worker' = [worker EXCEPT ![w].status = "SENT",
                 ![w].at = IF worker[w].found THEN "CONFIRM" ELSE "FIND"]
        PROVE  IInv'
    <3> DEFINE row == [Row(w) EXCEPT !.status = "SENT", !.sentAt = s]
    <3>1. Rewrites(row, Row(w), Row(w).owner)
      BY <1>1, SentWritten
    <3>2. SetRow(w, row)
      BY <2>3
    <3> HIDE DEF row
    <3>3. Written(n, w)
      BY <3>1, <3>2 DEF SetRow, Written, Row, Rewrites
    <3>4. /\ Moves(w)
          /\ worker'[w].at \in {"FIND", "CONFIRM"}
          /\ worker'[w].job = n
          /\ worker'[w].plan = worker[w].plan
      BY <1>1, <2>3 DEF Moves, IsCall
    <3>5. n \in DOMAIN Gram' /\ Row(w)'.plan = Row(w).plan
      BY <1>1, <3>3, <3>4, WrittenKeeps DEF Keeps, Row
    <3>6. Call(w)'
      BY <1>1, <2>1, <3>4, <3>5 DEF Call, At, Follows, ToPlan
    <3> QED
      BY <1>1, <1>2, <3>3, <3>4, <3>6, WriteKeeps
  <2> QED
    BY <1>8, <2>2, <2>3 DEF MarkSent
<1> QED
  BY <1>4, <1>5, <1>6, <1>7, <1>8

LEMMA ConfirmKeeps ==
  ASSUME IInv, NEW w \in Workers, Confirm(w)
  PROVE  IInv'
<1> DEFINE n    == worker[w].job
           row  == ConfirmedRow(Row(w))
           jobs == [sweeps EXCEPT !["GRAM"][n] = row]
<1>1. /\ Shape /\ ~At(w, "IDLE") /\ n \in DOMAIN Gram
      /\ IsJob(Row(w)) /\ IsPlan(Row(w).plan) /\ Persisted(Row(w).plan)
  BY DEF IInv, Shape, Confirm, Call, At, Row
<1>2. UNCHANGED chain
  BY DEF Confirm
<1>3. CASE GoTo(w, "FAIL") /\ UNCHANGED sweeps
  <2>1. Written(n, w)
    BY <1>3 DEF Written
  <2>2. worker'[w].at = "FAIL"
    BY <1>1, <1>3, Going
  <2>3. Quiet(w)' /\ Keeps({w})
    BY <1>1, <2>1, <2>2, WrittenKeeps DEF Quiet
  <2>4. Moves(w) /\ Call(w)'
    BY <1>1, <1>3, <2>3, GoesOn
  <2> QED
    BY <1>1, <1>2, <2>1, <2>4, WriteKeeps
<1>4. CASE sweeps' = AfterConfirm(w) /\ GoTo(w, "RELEASE")
  <2>1. Rewrites(row, Row(w), Nobody)
    BY <1>1, CaseWritten DEF ConfirmedRow
  <2>2. sweeps' = Reconciled(stage, order, jobs)
    BY <1>4 DEF AfterConfirm
  <2> HIDE DEF row
  <2>3. /\ jobs = [a \in Assets |-> jobs[a]]
        /\ jobs["GRAM"] = [Gram EXCEPT ![n] = row]
    BY <1>1 DEF Shape, Gram, Assets
  <2>4. /\ IsSeq(jobs["GRAM"]) /\ DOMAIN jobs["GRAM"] = DOMAIN Gram
        /\ \A k \in DOMAIN Gram : jobs["GRAM"][k] = IF k = n THEN row ELSE Gram[k]
    BY <1>1, <2>3, Replaced DEF Shape
  <2>5. \A k \in DOMAIN jobs["GRAM"] : /\ IsJob(jobs["GRAM"][k])
                                       /\ IsPlan(jobs["GRAM"][k].plan)
                                       /\ Persisted(jobs["GRAM"][k].plan)
    BY <1>1, <2>1, <2>4 DEF Shape, Row, Rewrites
  <2> HIDE DEF jobs
  <2>6. /\ sweeps' = [a \in Assets |-> sweeps'[a]]
        /\ IsSeq(Gram')
        /\ \A k \in DOMAIN Gram' : /\ IsJob(Gram'[k])
                                   /\ IsPlan(Gram'[k].plan)
                                   /\ Persisted(Gram'[k].plan)
        /\ \A k \in DOMAIN jobs["GRAM"] : k \in DOMAIN Gram' /\ Gram'[k] = jobs["GRAM"][k]
    BY <2>2, <2>3, <2>4, <2>5, PlannerAppends
  <2>7. Keeps({w})
    BY <2>1, <2>4, <2>6, NativeAssumption DEF Keeps, Row, Rewrites
  <2>8. worker'[w].at = "RELEASE"
    BY <1>1, <1>4, Going
  <2>9. Quiet(w)'
    BY <2>8 DEF Quiet
  <2>10. Moves(w) /\ Call(w)'
    BY <1>1, <1>4, <2>7, <2>9, GoesOn
  <2>11. Shape'
    BY <1>1, <1>2, <2>6, <2>10 DEF Shape, Moves, chain
  <2> QED
    BY <1>2, <2>7, <2>10, <2>11, ChainKept, PlansKept, {w} \in SUBSET Workers DEF Moves
<1> QED
  BY <1>3, <1>4 DEF Confirm

LEMMA OutsideSteps ==
  ASSUME IInv,
         \/ \E n \in DOMAIN Gram : JobLeaseEnds(n) \/ AdminRetry(n)
         \/ SigningLeaseEnds
  PROVE  IInv'
<1>1. CASE SigningLeaseEnds
  <2>1. /\ UNCHANGED sweeps /\ UNCHANGED chain /\ UNCHANGED worker
    BY <1>1 DEF SigningLeaseEnds
  <2>2. worker' = [v \in Workers |-> worker'[v]]
    BY <2>1 DEF IInv, Shape
  <2> QED
    BY <2>1, <2>2, RowsKept, {} \in SUBSET Workers
<1>2. ASSUME NEW n \in DOMAIN Gram, JobLeaseEnds(n)
      PROVE  IInv'
  <2> DEFINE row == [Gram[n] EXCEPT !.leased = FALSE]
  <2>1. Rewrites(row, Gram[n], Gram[n].owner)
    <3>1. IsJob(Gram[n])
      BY DEF IInv, Shape
    <3> QED
      BY <3>1, LeasedWritten
  <2>2. sweeps' = [sweeps EXCEPT !["GRAM"][n] = row]
    BY <1>2 DEF JobLeaseEnds, Gram
  <2> HIDE DEF row
  <2> QED
    BY <1>2, <2>1, <2>2, OutsideWrite DEF JobLeaseEnds, Rewrites
<1>3. ASSUME NEW n \in DOMAIN Gram, AdminRetry(n)
      PROVE  IInv'
  <2> DEFINE status == Resumed(Gram[n])
             row == [Gram[n] EXCEPT !.status = status, !.owner = Nobody, !.leased = FALSE]
  <2>1. Rewrites(row, Gram[n], Nobody)
    <3>1. IsJob(Gram[n])
      BY DEF IInv, Shape
    <3> HIDE DEF status
    <3> QED
      BY <3>1, StatusWritten
  <2>2. sweeps' = [sweeps EXCEPT !["GRAM"][n] = row]
    BY <1>3 DEF AdminRetry, Gram
  <2> HIDE DEF row
  <2> QED
    BY <1>3, <2>1, <2>2, OutsideWrite DEF AdminRetry, Rewrites
<1> QED
  BY <1>1, <1>2, <1>3
-----------------------------------------------------------------------------
(* The steps that the argument is about.                                    *)

\* The first plan of a job is its only one: no message of the job is around,
\* and no other call has a plan of it or the right to make one.
LEMMA PlanIsMade ==
  ASSUME IInv, NEW w \in Workers, MarkReady(w)
  PROVE  IInv'
<1> DEFINE n   == worker[w].job
           p   == worker[w].plan
           row == [Row(w) EXCEPT !.plan = p]
<1>1. /\ Shape /\ IsCall(worker[w]) /\ Call(w)
      /\ worker = [v \in Workers |-> worker[v]]
      /\ At(w, "READY") /\ n \in DOMAIN Gram
      /\ p.seqno \in Nat /\ IsPlan(p)
      /\ IsJob(Row(w)) /\ IsPlan(Row(w).plan)
  BY DEF IInv, Shape, MarkReady, Call, At, Row, IsCall
<1>2. UNCHANGED chain
  BY DEF MarkReady
<1>3. CASE GoTo(w, "FAIL") /\ UNCHANGED sweeps
  <2>1. Written(n, w)
    BY <1>3 DEF Written
  <2>2. worker'[w].at = "FAIL"
    BY <1>1, <1>3, Going
  <2>3. Quiet(w)' /\ Keeps({w})
    BY <1>1, <2>1, <2>2, WrittenKeeps DEF Quiet
  <2>4. ~At(w, "IDLE")
    BY <1>1 DEF At
  <2>5. Moves(w) /\ Call(w)'
    BY <1>1, <1>3, <2>3, <2>4, GoesOn
  <2> QED
    BY <1>1, <1>2, <2>1, <2>5, WriteKeeps
<1>4. CASE Planning(w) /\ SetRow(w, row) /\ GoTo(w, "SEND")
  <2>1. Row(w).plan = NoPlan /\ Row(w).owner = w
    BY <1>1, <1>4 DEF Planning, Owns, Call, ToPlan, At
  <2>2. p # NoPlan /\ Persisted(p)
    BY <1>1 DEF NoPlan, Persisted
  <2>3. IsJob(row) /\ row.plan = p /\ row.owner = w
    <3> HIDE DEF p
    <3> QED
      BY <1>1, <2>1 DEF IsJob
  <2>4. SetRow(w, row)
    BY <1>4
  <2> HIDE DEF row
  <2>5. /\ sweeps' = [a \in Assets |-> sweeps'[a]]
        /\ Gram' = [Gram EXCEPT ![n] = row]
    BY <1>1, <2>4 DEF SetRow, Shape, Gram, Assets
  <2>6. /\ IsSeq(Gram') /\ DOMAIN Gram' = DOMAIN Gram
        /\ \A k \in DOMAIN Gram : Gram'[k] = IF k = n THEN row ELSE Gram[k]
    BY <1>1, <2>5, Replaced DEF Shape
  <2>7. /\ Moves(w)
        /\ worker'[w].at = "SEND"
        /\ worker'[w].job = n
        /\ worker'[w].plan = p
    BY <1>1, <1>4, Going
  <2>8. Shape'
    BY <1>1, <1>2, <2>2, <2>3, <2>5, <2>6, <2>7 DEF Shape, Moves, chain
  <2>9. Call(w)'
    BY <1>1, <2>2, <2>3, <2>6, <2>7 DEF Call, At, Follows, ToPlan, Row
  <2>10. ASSUME NEW v \in Workers \ {w} PROVE Call(v)'
    <3>1. worker'[v] = worker[v] /\ Call(v)
      BY <2>7 DEF Moves, IInv
    <3>2. CASE At(v, "IDLE")
      BY <3>1, <3>2 DEF Call, At, Follows, ToPlan
    <3>3. CASE ~At(v, "IDLE") /\ worker[v].job # n
      <4>1. /\ worker[v].job \in DOMAIN Gram
            /\ Gram'[worker[v].job] = Gram[worker[v].job]
        BY <2>6, <3>1, <3>3 DEF Call
      <4> QED
        BY <2>6, <3>1, <4>1 DEF Call, At, Follows, ToPlan, Row, Owns
    <3>4. CASE ~At(v, "IDLE") /\ worker[v].job = n
      <4>1. ~Follows(v) /\ ~Follows(v)'
        BY <2>1, <3>1, <3>4 DEF Call, Row, Follows
      <4>2. ~Owns(v)' /\ worker'[v].job \in DOMAIN Gram'
        BY <1>1, <2>3, <2>6, <3>1, <3>4 DEF Owns, Row
      <4> QED
        BY <3>1, <4>1, <4>2 DEF Call, At
    <3> QED
      BY <3>2, <3>3, <3>4
  <2>11. ASSUME NEW x, x \in pending' \cup Elements(sent') PROVE Backed(x)'
    <3>1. Backed(x)
      BY <1>2, <2>11 DEF IInv, chain
    <3>2. x.job # n
      BY <2>1, <3>1 DEF Backed, Row
    <3> QED
      BY <2>6, <3>1, <3>2 DEF Backed
  <2>12. InOrder'
    BY <1>2 DEF IInv, InOrder, chain
  <2> QED
    BY <2>8, <2>9, <2>10, <2>11, <2>12 DEF IInv
<1> QED
  BY <1>3, <1>4 DEF MarkReady

\* Only what the row says is broadcast.
LEMMA SendKeeps ==
  ASSUME IInv, NEW w \in Workers, Send(w) \/ SendFails(w)
  PROVE  IInv'
<1>1. /\ Shape /\ Call(w) /\ At(w, "SEND")
      /\ worker = [v \in Workers |-> worker[v]]
  BY DEF IInv, Shape, Send, SendFails
<1>2. Follows(w) /\ ~At(w, "IDLE") /\ worker[w].job \in DOMAIN Gram
  BY <1>1 DEF Follows, At, Call
<1>3. /\ UNCHANGED sweeps /\ UNCHANGED wallet /\ UNCHANGED sent
      /\ pending' \subseteq pending \cup {Signed(w)}
      /\ GoTo(w, "SENT") \/ GoTo(w, "FAIL")
  BY DEF Send, SendFails
<1>4. Gram' = Gram /\ Keeps({w})
  BY <1>3 DEF Gram, Keeps
<1>5. ASSUME GoTo(w, "SENT") PROVE Moves(w) /\ Call(w)'
  <2>1. Follows(w) /\ "SENT" \in Following
    BY <1>2 DEF Following
  <2> QED
    BY <1>2, <1>4, <1>5, <2>1, GoesOn
<1>6. ASSUME GoTo(w, "FAIL") PROVE Moves(w) /\ Call(w)'
  <2>1. worker'[w].at = "FAIL"
    BY <1>1, <1>6, Going
  <2>2. Quiet(w)'
    BY <2>1 DEF Quiet
  <2> QED
    BY <1>2, <1>4, <1>6, <2>2, GoesOn
<1>7. Moves(w) /\ Call(w)'
  BY <1>3, <1>5, <1>6
<1>8. Shape'
  BY <1>1, <1>3, <1>4, <1>7 DEF Shape, Moves
<1>9. ASSUME NEW v \in Workers \ {w} PROVE Call(v)'
  BY <1>4, <1>7 DEF IInv, Moves, Call, At, Follows, ToPlan, Row, Owns
<1>10. Backed(Signed(w))
  BY <1>1, <1>2 DEF Signed, Message, Backed, Call, Row
<1>11. ASSUME NEW x, x \in pending' \cup Elements(sent') PROVE Backed(x)'
  <2>1. Backed(x)
    BY <1>3, <1>10, <1>11 DEF IInv
  <2> QED
    BY <1>4, <2>1 DEF Backed
<1>12. InOrder'
  BY <1>3 DEF IInv, InOrder
<1> QED
  BY <1>7, <1>8, <1>9, <1>11, <1>12 DEF IInv

\* The wallet takes each seqno once.
LEMMA ExecuteKeeps ==
  ASSUME IInv, NEW m \in pending, Execute(m)
  PROVE  IInv'
<1>1. /\ Shape /\ IsSeq(sent) /\ wallet \in Nat
      /\ Backed(m) /\ InOrder
      /\ \A x \in pending \cup Elements(sent) : Backed(x)
  BY DEF IInv, Shape
<1>2. /\ UNCHANGED sweeps /\ UNCHANGED worker /\ Gram' = Gram
      /\ m.seqno = wallet /\ wallet' = wallet + 1
      /\ pending' \subseteq pending
      /\ sent' = sent \/ sent' = Append(sent, m)
  BY DEF Execute, Gram
<1>3. \A v \in Workers : Call(v)'
  BY <1>2 DEF IInv, Call, At, Follows, ToPlan, Row, Owns
<1>4. CASE sent' = sent
  <2>1. Shape' /\ InOrder'
    BY <1>1, <1>2, <1>4 DEF Shape, InOrder
  <2>2. \A x \in pending' \cup Elements(sent') : Backed(x)'
    BY <1>1, <1>2, <1>4 DEF Backed
  <2> QED
    BY <1>3, <2>1, <2>2 DEF IInv
<1>5. CASE sent' = Append(sent, m)
  <2>1. /\ IsSeq(sent')
        /\ Len(sent) \in Nat /\ DOMAIN sent = 1..Len(sent)
        /\ DOMAIN sent' = 1..(Len(sent) + 1)
        /\ \A k \in DOMAIN sent : sent'[k] = sent[k]
        /\ sent'[Len(sent) + 1] = m
    BY <1>1, <1>5, Appended
  <2>2. Shape'
    BY <1>1, <1>2, <2>1 DEF Shape
  <2>3. Elements(sent') \subseteq Elements(sent) \cup {m}
    <3>1. \A k \in DOMAIN sent' : k \in DOMAIN sent \/ k = Len(sent) + 1
      BY <2>1
    <3> QED
      BY <2>1, <3>1 DEF Elements
  <2>4. \A x \in pending' \cup Elements(sent') : Backed(x)'
    BY <1>1, <1>2, <2>3 DEF Backed
  <2>5. InOrder'
    BY <1>1, <1>2, <2>1 DEF InOrder
  <2> QED
    BY <1>3, <2>2, <2>4, <2>5 DEF IInv
<1> QED
  BY <1>2, <1>4, <1>5
-----------------------------------------------------------------------------
LEMMA InitHolds == Init => IInv
<1> SUFFICES ASSUME Init PROVE IInv
  OBVIOUS
<1>1. /\ sweeps = [a \in Assets |-> <<>>] /\ Gram = <<>>
      /\ worker = [w \in Workers |-> Idle]
      /\ wallet = 0 /\ pending = {} /\ sent = <<>>
  BY DEF Init, LedgerInit, Gram, Assets
<1>2. IsSeq(<<>>) /\ DOMAIN <<>> = {} /\ Elements(<<>>) = {}
  BY DEF IsSeq, Elements
<1>3. Shape
  BY <1>1, <1>2 DEF Shape, IsCall, Idle, IsPlan, NoPlan
<1>4. \A w \in Workers : Call(w)
  BY <1>1 DEF Call, At, Follows, ToPlan, Idle
<1>5. InOrder /\ \A x \in pending \cup Elements(sent) : Backed(x)
  BY <1>1, <1>2 DEF InOrder
<1> QED
  BY <1>3, <1>4, <1>5 DEF IInv

LEMMA StepKeeps == IInv /\ [Next]_vars => IInv'
<1> SUFFICES ASSUME IInv, [Next]_vars PROVE IInv'
  OBVIOUS
<1>1. CASE UNCHANGED vars
  <2>1. /\ UNCHANGED sweeps /\ UNCHANGED chain /\ UNCHANGED worker
    BY <1>1 DEF vars, chain
  <2>2. worker' = [v \in Workers |-> worker'[v]]
    BY <2>1 DEF IInv, Shape
  <2> QED
    BY <2>1, <2>2, RowsKept, {} \in SUBSET Workers
<1>2. CASE Ledger /\ UNCHANGED <<chain, signing, worker, faults>>
  BY <1>2, LedgerKeeps
<1>3. ASSUME NEW w \in Workers, Sweep(w) \/ Disturbs(w) PROVE IInv'
  BY <1>3, StepsWithoutRows, StepsWithRows, ClaimKeeps, ConfirmKeeps, PlanIsMade,
     SendKeeps DEF Sweep, Disturbs
<1>4. CASE LeaseEnds \/ \E n \in DOMAIN Gram : AdminRetry(n)
  BY <1>4, OutsideSteps DEF LeaseEnds
<1>5. ASSUME NEW m \in pending, Execute(m) PROVE IInv'
  BY <1>5, ExecuteKeeps
<1> QED
  BY <1>1, <1>2, <1>3, <1>4, <1>5, UsdtKeeps DEF Next

\* A transfer on the blockchain has the only plan of its job, whose seqno the
\* wallet took once.
LEMMA InvariantSuffices == IInv => SweptOnce /\ PlannedFirst
<1> SUFFICES ASSUME IInv PROVE SweptOnce /\ PlannedFirst
  OBVIOUS
<1>1. ASSUME NEW i \in DOMAIN sent PROVE Backed(sent[i])
  BY DEF IInv, Elements
<1>2. ASSUME NEW i \in DOMAIN sent, NEW j \in DOMAIN sent, sent[i].job = sent[j].job
      PROVE  i = j
  <2>1. sent[i] = sent[j]
    BY <1>1, <1>2 DEF Backed
  <2>2. i \in Nat /\ j \in Nat
    BY LenProperties DEF IInv, Shape, IsSeq
  <2> QED
    BY <2>1, <2>2 DEF IInv, InOrder
<1>3. SweptOnce
  BY <1>2 DEF SweptOnce
<1>4. PlannedFirst
  BY DEF IInv, Backed, PlannedFirst, Elements
<1> QED
  BY <1>3, <1>4

\* No automatic sweep moves coins twice (sweepTonDepositAddress).
THEOREM NoSweepTwice == Spec => []SweptOnce
BY InitHolds, StepKeeps, InvariantSuffices, PTL DEF Spec

\* Nothing is broadcast before its plan is durable, and no plan is replaced by
\* another (markSweepReady).
THEOREM PlansAreDurable == Spec => []PlannedFirst
BY InitHolds, StepKeeps, InvariantSuffices, PTL DEF Spec
-----------------------------------------------------------------------------
(* The amounts: sums over transfers.                                        *)

Fiat   == [t \in Transfers |-> Payment[t].fiat]
Amount == [t \in Transfers |-> Payment[t].amount]

Arrived(st, a) == {t \in Of(a) : st[t] # "ABSENT"}

LEMMA PaymentTypes ==
  /\ IsFiniteSet(Transfers)
  /\ \A t \in Transfers : Fiat[t] \in Nat /\ Fiat[t] > 0 /\ Amount[t] \in Nat /\ Amount[t] > 0
<1>1. /\ IsFiniteSet(Transfers)
      /\ Payment \in [Transfers -> [asset: Assets, amount: Nat \ {0}, fiat: Nat \ {0}]]
  BY SweepAssumption
<1>2. ASSUME NEW t \in Transfers
      PROVE  Fiat[t] \in Nat /\ Fiat[t] > 0 /\ Amount[t] \in Nat /\ Amount[t] > 0
  <2>1. PICK p \in [asset: Assets, amount: Nat \ {0}, fiat: Nat \ {0}] : p = Payment[t]
    BY <1>1
  <2>2. Fiat[t] = p.fiat /\ Amount[t] = p.amount
    BY <2>1 DEF Fiat, Amount
  <2> QED
    BY ONLY <2>1, <2>2
<1> QED
  BY <1>1, <1>2

LEMMA Totals ==
  ASSUME NEW S \in SUBSET Transfers
  PROVE  /\ IsFiniteSet(S)
         /\ FiatOf(S) = SumFunctionOnSet(Fiat, S) /\ FiatOf(S) \in Nat
         /\ AmountOf(S) = SumFunctionOnSet(Amount, S) /\ AmountOf(S) \in Nat
<1>1. IsFiniteSet(S)
  BY PaymentTypes, FS_Subset
<1> DEFINE f == [t \in S |-> Payment[t].fiat]
           m == [t \in S |-> Payment[t].amount]
<1>2. \A t \in S : f[t] = Fiat[t] /\ m[t] = Amount[t]
  BY DEF Fiat, Amount
<1>3. FiatOf(S) = SumFunctionOnSet(f, S) /\ AmountOf(S) = SumFunctionOnSet(m, S)
  BY DEF FiatOf, AmountOf, SumFunction
<1> HIDE DEF f, m
<1>4. /\ SumFunctionOnSet(f, S) = SumFunctionOnSet(Fiat, S)
      /\ SumFunctionOnSet(m, S) = SumFunctionOnSet(Amount, S)
  BY <1>1, <1>2, SumAgrees
<1>5. SumFunctionOnSet(Fiat, S) \in Nat /\ SumFunctionOnSet(Amount, S) \in Nat
  <2>1. \A t \in S : Fiat[t] \in Nat /\ Amount[t] \in Nat
    BY PaymentTypes
  <2> QED
    BY <1>1, <2>1, SumGrows
<1> QED
  BY <1>1, <1>3, <1>4, <1>5

LEMMA TotalsGrow ==
  ASSUME NEW S \in SUBSET Transfers, NEW T \in SUBSET S
  PROVE  FiatOf(T) <= FiatOf(S) /\ AmountOf(T) <= AmountOf(S)
<1>1. \A t \in S : Fiat[t] \in Nat /\ Amount[t] \in Nat
  BY PaymentTypes
<1>2. /\ SumFunctionOnSet(Fiat, T) <= SumFunctionOnSet(Fiat, S)
      /\ SumFunctionOnSet(Amount, T) <= SumFunctionOnSet(Amount, S)
  BY <1>1, Totals, SumGrows
<1>3. T \in SUBSET Transfers
  OBVIOUS
<1> QED
  BY <1>2, <1>3, Totals

LEMMA NothingIsNothing ==
  ASSUME NEW S \in SUBSET Transfers, AmountOf(S) <= 0
  PROVE  S = {} /\ FiatOf(S) = 0
<1>1. S = {}
  <2> SUFFICES ASSUME NEW t \in S PROVE FALSE
    OBVIOUS
  <2>1. {t} \in SUBSET S /\ {t} \in SUBSET Transfers
    OBVIOUS
  <2>2. Amount[t] \in Nat /\ Amount[t] > 0
    BY PaymentTypes
  <2>3. AmountOf({t}) = Amount[t]
    BY <2>1, <2>2, Totals, SumOfOne
  <2>4. AmountOf({t}) <= AmountOf(S) /\ AmountOf(S) \in Nat
    BY <2>1, TotalsGrow, Totals
  <2> QED
    BY <2>2, <2>3, <2>4
<1>2. FiatOf({}) = 0
  BY Totals, SumOfNone
<1> QED
  BY <1>1, <1>2

LEMMA Stagewise ==
  ASSUME NEW st, NEW a
  PROVE  /\ Of(a) \in SUBSET Transfers
         /\ Credited(st, a) \in SUBSET Journaled(st, a)
         /\ Journaled(st, a) \in SUBSET Arrived(st, a)
         /\ Arrived(st, a) \in SUBSET Transfers
         /\ CreditedFiat(st, a) \in Nat
<1>1. /\ Of(a) \in SUBSET Transfers
      /\ Credited(st, a) \in SUBSET Journaled(st, a)
      /\ Journaled(st, a) \in SUBSET Arrived(st, a)
      /\ Arrived(st, a) \in SUBSET Transfers
      /\ Credited(st, a) \in SUBSET Transfers
  BY DEF Of, Credited, Journaled, Arrived
<1>2. CreditedFiat(st, a) \in Nat
  BY <1>1, Totals DEF CreditedFiat
<1> QED
  BY <1>1, <1>2
-----------------------------------------------------------------------------
(* The books of an asset a whose rows are rows, when the transfers are at st *)
(* and the order has a status.                                              *)

\* Each row was queued once the one before was confirmed, for what had been
\* credited by then, and the last place is kept for the sweep of the paid order.
InTurn(st, status, a, rows) ==
  \A n \in DOMAIN rows :
    /\ n < Len(rows) => rows[n].status = "CONFIRMED"
    /\ n <= MaxSweeps
    /\ rows[n].trigger <= CreditedFiat(st, a)
    /\ IF rows[n].reason = "TERMINAL_PAID"
       THEN status = "RECOVERY" \/ (status = "PAID" /\ rows[n].trigger = CreditedFiat(st, a))
       ELSE n < MaxSweeps

\* A queued job of the USDT worker has something to move.
Jettons(st, a, rows) ==
  a = "USDT" =>
    \A n \in DOMAIN rows :
      \/ rows[n].status = "CONFIRMED"
      \/ rows[n].status = "QUEUED" /\ AmountOf(Arrived(st, a)) > SweptAmount(rows)

Books(st, status, a, rows) ==
  rows \in Seq(Rows) /\ InTurn(st, status, a, rows) /\ Jettons(st, a, rows)

\* Nothing of what was credited is forgotten.
Cleared(st, a, rows) ==
  \/ CreditedFiat(st, a) = 0
  \/ /\ rows # <<>>
     /\ \/ rows[Len(rows)].status # "CONFIRMED"
        \/ rows[Len(rows)].trigger = CreditedFiat(st, a)
        \/ AmountOf(Credited(st, a)) - SweptAmount(rows) <= Retained(a, rows)

Settled(st, status, a, rows) ==
  Books(st, status, a, rows) /\ (status = "PAID" /\ MaxSweeps > 0 => Cleared(st, a, rows))

LEMMA RowsAre ==
  ASSUME NEW rows \in Seq(Rows)
  PROVE  /\ Len(rows) \in Nat /\ DOMAIN rows = 1..Len(rows)
         /\ \A n \in DOMAIN rows : rows[n] \in Rows
         /\ rows = <<>> <=> Len(rows) = 0
         /\ rows # <<>> => Len(rows) \in DOMAIN rows
<1>1. /\ Len(rows) \in Nat /\ DOMAIN rows = 1..Len(rows)
      /\ \A n \in 1..Len(rows) : rows[n] \in Rows
  BY LenProperties, ElementOfSeq
<1>2. rows = <<>> <=> Len(rows) = 0
  BY EmptySeq
<1> QED
  BY <1>1, <1>2

LEMMA SweptType ==
  ASSUME NEW rows \in Seq(Rows)
  PROVE  SweptAmount(rows) \in Nat
<1> DEFINE S == Confirmed(rows)
           f == [n \in S |-> rows[n].plan.amount]
<1>1. IsFiniteSet(S)
  <2>1. Len(rows) \in Nat /\ DOMAIN rows = 1..Len(rows)
    BY RowsAre
  <2>2. IsFiniteSet(1..Len(rows))
    BY <2>1, FS_Interval
  <2>3. S \subseteq 1..Len(rows)
    BY <2>1 DEF Confirmed
  <2> QED
    BY <2>2, <2>3, FS_Subset
<1>2. \A n \in S : f[n] \in Nat
  <2>1. \A n \in S : rows[n] \in Rows
    BY RowsAre DEF Confirmed
  <2> QED
    BY <2>1 DEF Rows, Plans, NoPlan
<1>3. SweptAmount(rows) = SumFunctionOnSet(f, S)
  BY DEF SweptAmount, SumFunction
<1> HIDE DEF f, S
<1> QED
  BY <1>1, <1>2, <1>3, SumGrows

LEMMA SweptSame ==
  ASSUME NEW rows, NEW new, Confirmed(new) = Confirmed(rows),
         \A n \in Confirmed(rows) : new[n].plan = rows[n].plan
  PROVE  SweptAmount(new) = SweptAmount(rows)
<1>1. [n \in Confirmed(new) |-> new[n].plan.amount] = [n \in Confirmed(rows) |-> rows[n].plan.amount]
  OBVIOUS
<1> QED
  BY <1>1 DEF SweptAmount

\* A new row leaves the others as they are.
LEMMA Extended ==
  ASSUME NEW rows \in Seq(Rows), NEW r \in Rows, r.status # "CONFIRMED"
  PROVE  /\ Append(rows, r) \in Seq(Rows)
         /\ Len(Append(rows, r)) = Len(rows) + 1
         /\ DOMAIN Append(rows, r) = 1..(Len(rows) + 1)
         /\ \A n \in 1..Len(rows) : Append(rows, r)[n] = rows[n]
         /\ Append(rows, r)[Len(rows) + 1] = r
         /\ SweptAmount(Append(rows, r)) = SweptAmount(rows)
<1>1. PICK new : new = Append(rows, r)
  OBVIOUS
<1>2. /\ new \in Seq(Rows) /\ Len(new) = Len(rows) + 1
      /\ \A n \in 1..Len(rows) : new[n] = rows[n]
      /\ new[Len(rows) + 1] = r
  BY <1>1, AppendProperties
<1>3. /\ Len(rows) \in Nat /\ DOMAIN rows = 1..Len(rows) /\ DOMAIN new = 1..(Len(rows) + 1)
  BY <1>2, RowsAre
<1>4. Confirmed(new) = Confirmed(rows)
  BY <1>2, <1>3 DEF Confirmed
<1>5. \A n \in Confirmed(rows) : new[n].plan = rows[n].plan
  BY <1>2, <1>3 DEF Confirmed
<1>6. SweptAmount(new) = SweptAmount(rows)
  BY <1>4, <1>5, SweptSame
<1> QED
  BY <1>1, <1>2, <1>3, <1>6

\* The decision of the planner for one asset.
AfterPlanning(st, status, a, rows) ==
  IF Due(st, status, a, rows)
  THEN Append(rows, NewSweep(Reason(st, status, a, rows), CreditedFiat(st, a)))
  ELSE rows

LEMMA ReasonIs ==
  ASSUME NEW st, NEW status, NEW a, NEW rows \in Seq(Rows)
  PROVE  /\ Reason(st, status, a, rows) \in TriggerReasons \cup {"NONE"}
         /\ status = "PAID" <=> Reason(st, status, a, rows) = "TERMINAL_PAID"
         /\ status # "PAID" /\ Reason(st, status, a, rows) # "NONE" => Len(rows) < MaxSweeps - 1
<1>1. Len(rows) \in Nat /\ MaxSweeps \in Int
  BY RowsAre, SweepAssumption
<1>2. CASE status = "PAID"
  BY <1>2 DEF Reason, TriggerReasons
<1>3. CASE status # "PAID" /\ Len(rows) >= MaxSweeps - 1
  BY <1>3 DEF Reason, TriggerReasons
<1>4. CASE status # "PAID" /\ ~(Len(rows) >= MaxSweeps - 1)
  <2>1. Reason(st, status, a, rows) \in {"INTERMEDIATE_RATIO", "INTERMEDIATE_VALUE", "NONE"}
    BY <1>4 DEF Reason
  <2> QED
    BY <1>1, <1>4, <2>1 DEF TriggerReasons
<1> QED
  BY <1>2, <1>3, <1>4

\* The planner forgets nothing, and keeps to the order.
LEMMA PlannerSettles ==
  ASSUME NEW st, NEW status, NEW a \in Assets, NEW rows,
         Books(st, status, a, rows)
  PROVE  Settled(st, status, a, AfterPlanning(st, status, a, rows))
<1> DEFINE reason == Reason(st, status, a, rows)
           credited == CreditedFiat(st, a)
<1>1. /\ rows \in Seq(Rows) /\ InTurn(st, status, a, rows) /\ Jettons(st, a, rows)
      /\ Len(rows) \in Nat /\ DOMAIN rows = 1..Len(rows)
      /\ \A n \in DOMAIN rows : rows[n] \in Rows
      /\ rows = <<>> <=> Len(rows) = 0
      /\ rows # <<>> => Len(rows) \in DOMAIN rows
  BY RowsAre DEF Books
<1>2. /\ SweptAmount(rows) \in Nat
      /\ credited \in Nat
      /\ MaxSweeps \in Nat /\ Reserve \in Nat
  BY <1>1, SweptType, Stagewise, SweepAssumption
<1>3. /\ AmountOf(Credited(st, a)) <= AmountOf(Journaled(st, a))
      /\ AmountOf(Journaled(st, a)) <= AmountOf(Arrived(st, a))
      /\ AmountOf(Credited(st, a)) \in Nat
      /\ AmountOf(Journaled(st, a)) \in Nat
      /\ AmountOf(Arrived(st, a)) \in Nat
  <2>1. /\ Credited(st, a) \in SUBSET Transfers
        /\ Journaled(st, a) \in SUBSET Transfers
        /\ Arrived(st, a) \in SUBSET Transfers
        /\ Credited(st, a) \in SUBSET Journaled(st, a)
        /\ Journaled(st, a) \in SUBSET Arrived(st, a)
    BY Stagewise
  <2> QED
    BY <2>1, Totals, TotalsGrow
<1>4. CASE Due(st, status, a, rows)
  <2>1. /\ PreviousIsConfirmed(rows)
        /\ AmountOf(Journaled(st, a)) - SweptAmount(rows) > Retained(a, rows)
        /\ Len(rows) < MaxSweeps
        /\ reason \in TriggerReasons
        /\ status = "PAID" <=> reason = "TERMINAL_PAID"
        /\ status # "PAID" => Len(rows) < MaxSweeps - 1
    BY <1>1, <1>4, ReasonIs DEF Due, LedgerBalance
  <2>2. PICK r : r = NewSweep(reason, credited)
    OBVIOUS
  <2>3. /\ r \in Rows
        /\ r.status = "QUEUED" /\ r.reason = reason /\ r.trigger = credited
    BY <1>2, <2>1, <2>2 DEF NewSweep, Rows, Owners
  <2>4. PICK new : new = Append(rows, r)
    OBVIOUS
  <2>5. /\ new \in Seq(Rows)
        /\ Len(new) = Len(rows) + 1
        /\ DOMAIN new = 1..(Len(rows) + 1)
        /\ \A n \in 1..Len(rows) : new[n] = rows[n]
        /\ new[Len(rows) + 1] = r
        /\ SweptAmount(new) = SweptAmount(rows)
    BY <1>1, <2>3, <2>4, Extended
  <2>6. new = AfterPlanning(st, status, a, rows)
    BY <1>4, <2>2, <2>4 DEF AfterPlanning
  <2> HIDE DEF reason, credited
  <2>7. \A n \in 1..Len(rows) : rows[n].status = "CONFIRMED"
    BY <1>1, <2>1 DEF PreviousIsConfirmed, InTurn
  <2>8. InTurn(st, status, a, new)
    <3>1. ASSUME NEW n \in 1..Len(rows)
          PROVE  /\ new[n].status = "CONFIRMED" /\ n <= MaxSweeps
                 /\ new[n].trigger <= CreditedFiat(st, a)
                 /\ IF new[n].reason = "TERMINAL_PAID"
                    THEN status = "RECOVERY" \/ (status = "PAID" /\ new[n].trigger = CreditedFiat(st, a))
                    ELSE n < MaxSweeps
      BY <1>1, <2>5, <2>7 DEF InTurn
    <3>2. /\ new[Len(rows) + 1].trigger <= CreditedFiat(st, a)
          /\ IF new[Len(rows) + 1].reason = "TERMINAL_PAID"
             THEN status = "PAID" /\ new[Len(rows) + 1].trigger = CreditedFiat(st, a)
             ELSE Len(rows) + 1 < MaxSweeps
      BY <1>1, <1>2, <2>1, <2>3, <2>5 DEF credited
    <3>3. Len(rows) + 1 <= MaxSweeps
      BY <1>1, <1>2, <2>1
    <3>4. \A n \in DOMAIN new : n \in 1..Len(rows) \/ n = Len(rows) + 1
      BY <1>1, <2>5
    <3> QED
      BY <1>1, <2>5, <3>1, <3>2, <3>3, <3>4 DEF InTurn
  <2>9. Jettons(st, a, new)
    <3>1. ASSUME a = "USDT"
          PROVE  AmountOf(Arrived(st, a)) > SweptAmount(new)
      BY <1>2, <1>3, <2>1, <2>5, <3>1 DEF Retained
    <3>2. \A n \in DOMAIN new : n \in 1..Len(rows) \/ n = Len(rows) + 1
      BY <1>1, <2>5
    <3> QED
      BY <2>3, <2>5, <2>7, <3>1, <3>2 DEF Jettons
  <2>10. Cleared(st, a, new)
    <3>1. new # <<>>
      BY <1>1, <2>5, RowsAre
    <3>2. new[Len(new)].status # "CONFIRMED"
      BY <2>3, <2>5
    <3> QED
      BY <3>1, <3>2 DEF Cleared
  <2> QED
    BY <2>5, <2>6, <2>8, <2>9, <2>10 DEF Settled, Books
<1>5. CASE ~Due(st, status, a, rows)
  <2>1. AfterPlanning(st, status, a, rows) = rows
    BY <1>5 DEF AfterPlanning
  <2>2. ASSUME status = "PAID", MaxSweeps > 0
        PROVE  Cleared(st, a, rows)
    <3>1. reason # "NONE"
      BY <1>1, <2>2, ReasonIs
    <3>2. CASE ~PreviousIsConfirmed(rows)
      BY <3>2 DEF PreviousIsConfirmed, Cleared
    <3>3. CASE ~(AmountOf(Journaled(st, a)) - SweptAmount(rows) > Retained(a, rows))
      <4>1. CASE rows = <<>>
        <5>1. SweptAmount(rows) = 0
          <6>1. Confirmed(rows) = {}
            BY <1>1, <4>1 DEF Confirmed
          <6> QED
            BY <6>1, SumOfNone DEF SweptAmount, SumFunction
        <5>2. AmountOf(Credited(st, a)) <= 0
          BY <1>3, <3>3, <4>1, <5>1 DEF Retained
        <5>3. CreditedFiat(st, a) = 0
          BY <5>2, Stagewise, NothingIsNothing DEF CreditedFiat
        <5> QED
          BY <5>3 DEF Cleared
      <4>2. CASE rows # <<>>
        <5>1. Retained(a, rows) \in Nat
          BY <1>2 DEF Retained
        <5>2. AmountOf(Credited(st, a)) - SweptAmount(rows) <= Retained(a, rows)
          BY <1>2, <1>3, <3>3, <5>1
        <5> QED
          BY <4>2, <5>2 DEF Cleared
      <4> QED
        BY <4>1, <4>2
    <3>4. CASE ~(Unswept(st, a, rows) > 0)
      <4>1. CASE rows = <<>>
        BY <1>2, <3>4, <4>1 DEF Unswept, Cleared
      <4>2. CASE rows # <<>>
        <5>1. /\ rows[Len(rows)].trigger <= CreditedFiat(st, a)
              /\ rows[Len(rows)].trigger \in Nat
          BY <1>1, <4>2 DEF InTurn, Rows
        <5>2. rows[Len(rows)].trigger = CreditedFiat(st, a)
          BY <1>2, <3>4, <4>2, <5>1 DEF Unswept
        <5> QED
          BY <4>2, <5>2 DEF Cleared
      <4> QED
        BY <4>1, <4>2
    <3>5. CASE ~(Len(rows) < MaxSweeps)
      <4>1. rows # <<>> /\ Len(rows) \in DOMAIN rows /\ ~(Len(rows) < MaxSweeps)
        BY <1>1, <1>2, <2>2, <3>5
      <4>2. rows[Len(rows)].trigger = CreditedFiat(st, a)
        BY <1>1, <2>2, <4>1 DEF InTurn
      <4> QED
        BY <4>1, <4>2 DEF Cleared
    <3> QED
      BY <1>5, <2>2, <3>1, <3>2, <3>3, <3>4, <3>5 DEF Due, LedgerBalance
  <2> QED
    BY <2>1, <2>2 DEF Settled
<1> QED
  BY <1>4, <1>5

\* A row is written, but neither its trigger nor whether it is confirmed.
Retouched(r, x) ==
  /\ x \in Rows /\ x.reason = r.reason /\ x.trigger = r.trigger
  /\ x.status = "CONFIRMED" <=> r.status = "CONFIRMED"
  /\ r.status = "CONFIRMED" => x.plan = r.plan

LEMMA RowWritten ==
  ASSUME NEW rows \in Seq(Rows), NEW n \in DOMAIN rows, NEW x \in Rows
  PROVE  /\ [rows EXCEPT ![n] = x] \in Seq(Rows)
         /\ Len([rows EXCEPT ![n] = x]) = Len(rows)
         /\ DOMAIN [rows EXCEPT ![n] = x] = DOMAIN rows
         /\ \A k \in DOMAIN rows : [rows EXCEPT ![n] = x][k] = IF k = n THEN x ELSE rows[k]
<1>1. PICK new : new = [rows EXCEPT ![n] = x]
  OBVIOUS
<1>2. /\ Len(rows) \in Nat /\ DOMAIN rows = 1..Len(rows)
      /\ \A k \in DOMAIN rows : rows[k] \in Rows
  BY RowsAre
<1>3. /\ DOMAIN new = DOMAIN rows
      /\ \A k \in DOMAIN rows : new[k] = IF k = n THEN x ELSE rows[k]
  BY <1>1
<1>4. new \in [1..Len(rows) -> Rows]
  BY <1>1, <1>2, <1>3
<1>5. new \in Seq(Rows)
  BY <1>2, <1>4, FunctionIsSeq
<1>6. Len(new) = Len(rows)
  BY <1>2, <1>3, <1>5, RowsAre, LenProperties
<1> QED
  BY <1>1, <1>3, <1>5, <1>6

LEMMA RetouchSettles ==
  ASSUME NEW st, NEW status, NEW rows, Settled(st, status, "GRAM", rows),
         NEW n \in DOMAIN rows, NEW x, Retouched(rows[n], x)
  PROVE  Settled(st, status, "GRAM", [rows EXCEPT ![n] = x])
<1>1. PICK new : new = [rows EXCEPT ![n] = x]
  OBVIOUS
<1>2. /\ rows \in Seq(Rows) /\ InTurn(st, status, "GRAM", rows)
      /\ status = "PAID" /\ MaxSweeps > 0 => Cleared(st, "GRAM", rows)
      /\ x \in Rows
  BY DEF Settled, Books, Retouched
<1>3. /\ new \in Seq(Rows) /\ Len(new) = Len(rows) /\ DOMAIN new = DOMAIN rows
      /\ \A k \in DOMAIN rows : new[k] = IF k = n THEN x ELSE rows[k]
  BY <1>1, <1>2, RowWritten
<1>4. \A k \in DOMAIN rows : Retouched(rows[k], new[k])
  BY <1>2, <1>3, RowsAre DEF Retouched
<1>5. SweptAmount(new) = SweptAmount(rows)
  <2>1. Confirmed(new) = Confirmed(rows) /\ \A k \in Confirmed(rows) : new[k].plan = rows[k].plan
    BY <1>3, <1>4 DEF Confirmed, Retouched
  <2> QED
    BY <2>1, SweptSame
<1>6. InTurn(st, status, "GRAM", new)
  BY <1>2, <1>3, <1>4 DEF InTurn, Retouched
<1>7. Jettons(st, "GRAM", new)
  BY DEF Jettons
<1>8. ASSUME Cleared(st, "GRAM", rows)
      PROVE  Cleared(st, "GRAM", new)
  <2>1. CASE rows = <<>>
    BY <1>8, <2>1 DEF Cleared
  <2>2. CASE rows # <<>>
    <3>1. Len(rows) \in DOMAIN rows /\ new # <<>>
      BY <1>2, <1>3, <2>2, RowsAre
    <3>2. Retouched(rows[Len(rows)], new[Len(new)])
      BY <1>3, <1>4, <3>1
    <3>3. Retained("GRAM", new) = Retained("GRAM", rows)
      BY <2>2, <3>1 DEF Retained
    <3> QED
      BY <1>5, <1>8, <3>1, <3>2, <3>3 DEF Cleared, Retouched
  <2> QED
    BY <2>1, <2>2
<1> QED
  BY <1>1, <1>2, <1>3, <1>6, <1>7, <1>8 DEF Settled, Books

LEMMA ConfirmationBooked ==
  ASSUME NEW st, NEW status, NEW a \in Assets, NEW rows, Books(st, status, a, rows),
         NEW n \in DOMAIN rows, NEW x \in Rows,
         x.status = "CONFIRMED", x.reason = rows[n].reason, x.trigger = rows[n].trigger,
         a = "USDT" => n = Len(rows)
  PROVE  Books(st, status, a, [rows EXCEPT ![n] = x])
<1>1. PICK new : new = [rows EXCEPT ![n] = x]
  OBVIOUS
<1>2. rows \in Seq(Rows) /\ InTurn(st, status, a, rows)
  BY DEF Books
<1>3. /\ new \in Seq(Rows) /\ Len(new) = Len(rows) /\ DOMAIN new = DOMAIN rows
      /\ \A k \in DOMAIN rows : new[k] = IF k = n THEN x ELSE rows[k]
  BY <1>1, <1>2, RowWritten
<1>4. InTurn(st, status, a, new)
  BY <1>2, <1>3 DEF InTurn
<1>5. Jettons(st, a, new)
  <2>1. /\ Len(rows) \in Nat /\ DOMAIN rows = 1..Len(rows)
    BY <1>2, RowsAre
  <2> QED
    BY <1>2, <1>3, <2>1 DEF Jettons, InTurn
<1> QED
  BY <1>1, <1>3, <1>4, <1>5 DEF Books

\* The transfers move on and with them the order.
MovesOn(st, status, st2, status2) ==
  /\ \A a \in Assets : /\ Credited(st, a) \in SUBSET Credited(st2, a)
                       /\ Arrived(st, a) \in SUBSET Arrived(st2, a)
  /\ \/ status2 = "RECOVERY"
     \/ status \in {"PENDING", "PARTIAL"}
     \/ status2 = status /\ \A a \in Assets : Credited(st2, a) = Credited(st, a)

LEMMA MovingOnBooked ==
  ASSUME NEW st, NEW status, NEW st2, NEW status2, MovesOn(st, status, st2, status2),
         NEW a \in Assets, NEW rows, Books(st, status, a, rows)
  PROVE  Books(st2, status2, a, rows)
<1>1. /\ rows \in Seq(Rows) /\ InTurn(st, status, a, rows) /\ Jettons(st, a, rows)
      /\ \A n \in DOMAIN rows : rows[n] \in Rows
  BY RowsAre DEF Books
<1>2. /\ CreditedFiat(st, a) <= CreditedFiat(st2, a)
      /\ CreditedFiat(st, a) \in Nat /\ CreditedFiat(st2, a) \in Nat
  <2>1. Credited(st2, a) \in SUBSET Transfers /\ Credited(st, a) \in SUBSET Credited(st2, a)
    BY DEF Credited, Of, MovesOn
  <2> QED
    BY <2>1, TotalsGrow, Stagewise DEF CreditedFiat
<1>3. /\ AmountOf(Arrived(st, a)) <= AmountOf(Arrived(st2, a))
      /\ AmountOf(Arrived(st, a)) \in Nat /\ AmountOf(Arrived(st2, a)) \in Nat
      /\ SweptAmount(rows) \in Nat
  <2>1. /\ Arrived(st2, a) \in SUBSET Transfers /\ Arrived(st, a) \in SUBSET Transfers
        /\ Arrived(st, a) \in SUBSET Arrived(st2, a)
    BY DEF Arrived, Of, MovesOn
  <2> QED
    BY <1>1, <2>1, TotalsGrow, Totals, SweptType
<1>4. InTurn(st2, status2, a, rows)
  <2> SUFFICES ASSUME NEW n \in DOMAIN rows
               PROVE  /\ n < Len(rows) => rows[n].status = "CONFIRMED"
                      /\ n <= MaxSweeps
                      /\ rows[n].trigger <= CreditedFiat(st2, a)
                      /\ IF rows[n].reason = "TERMINAL_PAID"
                         THEN \/ status2 = "RECOVERY"
                              \/ status2 = "PAID" /\ rows[n].trigger = CreditedFiat(st2, a)
                         ELSE n < MaxSweeps
    BY DEF InTurn
  <2>1. rows[n].trigger \in Nat
    BY <1>1 DEF Rows
  <2>2. CASE status2 = "RECOVERY" \/ status \in {"PENDING", "PARTIAL"}
    BY <1>1, <1>2, <2>1, <2>2 DEF InTurn
  <2>3. CASE status2 = status /\ Credited(st2, a) = Credited(st, a)
    <3>1. CreditedFiat(st2, a) = CreditedFiat(st, a)
      BY <2>3 DEF CreditedFiat
    <3> QED
      BY <1>1, <2>3, <3>1 DEF InTurn
  <2> QED
    BY <2>2, <2>3 DEF MovesOn
<1>5. Jettons(st2, a, rows)
  BY <1>1, <1>3 DEF Jettons
<1> QED
  BY <1>1, <1>4, <1>5 DEF Books
-----------------------------------------------------------------------------
(* Types, and the books of both assets, in every step.                      *)

Calls == [at: Places, job: Nat, status: {"NONE", "READY", "SENT"},
          plan: [amount: Nat, seqno: Nat \cup {-1}], found: BOOLEAN, slow: BOOLEAN]

\* What is about to become a plan moves something.
Earns(c) == c.at \in {"SEQNO", "READY"} => c.plan.amount > 0

Typed ==
  /\ TypeOK
  /\ \A w \in Workers : Earns(worker[w])
  /\ \A a \in Assets : Settled(stage, order, a, sweeps[a])

TypedLedger ==
  /\ stage \in [Transfers -> Stages] /\ order \in OrderStatuses
  /\ sweeps \in [Assets -> Seq(Rows)]
  /\ \A a \in Assets : Settled(stage, order, a, sweeps[a])
TypedChain ==
  /\ wallet \in Nat /\ pending \subseteq Messages /\ sent \in Seq(Messages)
TypedCalls ==
  /\ signing \in [owner: Owners, leased: BOOLEAN]
  /\ worker \in [Workers -> Calls] /\ \A w \in Workers : Earns(worker[w])
  /\ faults \in 0..MaxFaults

LEMMA TypedParts == Typed <=> TypedLedger /\ TypedChain /\ TypedCalls
BY DEF Typed, TypeOK, TypedLedger, TypedChain, TypedCalls, Calls

LEMMA Reconciling ==
  ASSUME NEW st \in [Transfers -> Stages], NEW status \in OrderStatuses, NEW jobs,
         \A a \in Assets : Books(st, status, a, jobs[a]),
         stage' = st, order' = status, sweeps' = Reconciled(st, status, jobs)
  PROVE  TypedLedger'
<1>1. /\ sweeps' = [a \in Assets |-> sweeps'[a]]
      /\ \A a \in Assets : sweeps'[a] = AfterPlanning(st, status, a, jobs[a])
  BY DEF Reconciled, AfterPlanning
<1>2. \A a \in Assets : Settled(st, status, a, sweeps'[a])
  BY <1>1, PlannerSettles
<1>3. \A a \in Assets : sweeps'[a] \in Seq(Rows)
  BY <1>2 DEF Settled, Books
<1>4. sweeps' \in [Assets -> Seq(Rows)]
  BY <1>1, <1>3
<1> QED
  BY <1>2, <1>4 DEF TypedLedger

LEMMA TransferMoves ==
  ASSUME TypedLedger, NEW t \in Transfers, NEW s \in Stages, stage[t] # "CREDITED", s # "ABSENT",
         stage' = [stage EXCEPT ![t] = s], NEW status,
         \/ status = "RECOVERY" \/ order \in {"PENDING", "PARTIAL"}
         \/ status = order /\ s # "CREDITED"
  PROVE  /\ stage' \in [Transfers -> Stages]
         /\ MovesOn(stage, order, stage', status)
<1>1. stage \in [Transfers -> Stages]
  BY DEF TypedLedger
<1>2. PICK st : st = stage'
  OBVIOUS
<1>3. /\ st \in [Transfers -> Stages]
      /\ st[t] = s /\ \A u \in Transfers \ {t} : st[u] = stage[u]
  BY <1>1, <1>2
<1>4. \A a \in Assets : /\ Credited(stage, a) \in SUBSET Credited(st, a)
                        /\ Arrived(stage, a) \in SUBSET Arrived(st, a)
                        /\ s # "CREDITED" => Credited(st, a) = Credited(stage, a)
  BY <1>3 DEF Credited, Arrived, Of
<1> QED
  BY <1>2, <1>3, <1>4 DEF MovesOn

LEMMA LedgerTyped ==
  ASSUME TypedLedger, Ledger
  PROVE  TypedLedger'
<1>1. /\ stage \in [Transfers -> Stages] /\ order \in OrderStatuses
      /\ sweeps \in [Assets -> Seq(Rows)]
      /\ \A a \in Assets : Settled(stage, order, a, sweeps[a])
      /\ \A a \in Assets : Books(stage, order, a, sweeps[a])
  BY DEF TypedLedger, Settled
<1>2. ASSUME NEW t \in Transfers, NEW s \in {"ARRIVED", "JOURNALED", "CREDITED"},
             stage[t] # "CREDITED", stage' = [stage EXCEPT ![t] = s], UNCHANGED sweeps,
             order' = "RECOVERY" \/ (order' = order /\ s # "CREDITED")
      PROVE  TypedLedger'
  <2>1. /\ stage' \in [Transfers -> Stages]
        /\ MovesOn(stage, order, stage', order')
    BY <1>2, TransferMoves DEF Stages
  <2>2. \A a \in Assets : Books(stage', order', a, sweeps[a])
    BY <1>1, <2>1, MovingOnBooked
  <2>3. ASSUME NEW a \in Assets, order' = "PAID", MaxSweeps > 0
        PROVE  Cleared(stage', a, sweeps[a])
    <3>1. order = "PAID" /\ s # "CREDITED" /\ Cleared(stage, a, sweeps[a])
      BY <1>1, <1>2, <2>3 DEF Settled
    <3>2. PICK st : st = stage'
      OBVIOUS
    <3>3. \A u \in Transfers : st[u] = "CREDITED" <=> stage[u] = "CREDITED"
      BY <1>1, <1>2, <3>1, <3>2
    <3>4. Credited(st, a) = Credited(stage, a)
      BY <3>3 DEF Credited, Of
    <3> QED
      BY <3>1, <3>2, <3>4 DEF Cleared, CreditedFiat
  <2>4. order' \in OrderStatuses
    BY <1>1, <1>2 DEF OrderStatuses
  <2> QED
    BY <1>1, <1>2, <2>1, <2>2, <2>3, <2>4 DEF TypedLedger, Settled
<1>3. ASSUME NEW t \in Transfers, Credit(t)
      PROVE  TypedLedger'
  <2>1. /\ stage' = [stage EXCEPT ![t] = "CREDITED"] /\ stage[t] # "CREDITED"
        /\ order \in {"PENDING", "PARTIAL"} /\ order' \in OrderStatuses
        /\ sweeps' = Reconciled(stage', order', sweeps)
    BY <1>3 DEF Credit, OrderStatuses
  <2>2. stage' \in [Transfers -> Stages] /\ MovesOn(stage, order, stage', order')
    BY <2>1, TransferMoves DEF Stages
  <2>3. \A a \in Assets : Books(stage', order', a, sweeps[a])
    BY <1>1, <2>2, MovingOnBooked
  <2> QED
    BY <2>1, <2>2, <2>3, Reconciling
<1>4. CASE GrantDiscount
  <2>1. /\ stage' = stage /\ order = "PARTIAL" /\ order' = "PAID"
        /\ sweeps' = Reconciled(stage', order', sweeps)
    BY <1>4 DEF GrantDiscount
  <2>2. stage' \in [Transfers -> Stages] /\ MovesOn(stage, order, stage', order')
    BY <1>1, <2>1 DEF MovesOn
  <2>3. \A a \in Assets : Books(stage', order', a, sweeps[a])
    BY <1>1, <2>2, MovingOnBooked
  <2>4. order' \in OrderStatuses
    BY <2>1 DEF OrderStatuses
  <2> QED
    BY <2>1, <2>2, <2>3, <2>4, Reconciling
<1>5. ASSUME NEW t \in Transfers, Arrive(t) PROVE TypedLedger'
  <2>1. /\ stage[t] # "CREDITED" /\ stage' = [stage EXCEPT ![t] = "ARRIVED"]
        /\ UNCHANGED sweeps /\ order' = order
    BY <1>5 DEF Arrive
  <2> QED
    BY <2>1, <1>2
<1>6. ASSUME NEW t \in Transfers, Journal(t) PROVE TypedLedger'
  <2>1. /\ stage[t] # "CREDITED" /\ stage' = [stage EXCEPT ![t] = "JOURNALED"]
        /\ UNCHANGED sweeps /\ order' = order
    BY <1>6 DEF Journal
  <2> QED
    BY <2>1, <1>2
<1>7. ASSUME NEW t \in Transfers, CreditToRecovery(t) PROVE TypedLedger'
  <2>1. /\ stage[t] # "CREDITED" /\ stage' = [stage EXCEPT ![t] = "CREDITED"]
        /\ UNCHANGED sweeps /\ order' = "RECOVERY"
    BY <1>7 DEF CreditToRecovery
  <2>2. "CREDITED" \in {"ARRIVED", "JOURNALED", "CREDITED"}
    OBVIOUS
  <2> QED
    BY <2>1, <2>2, <1>2
<1> QED
  BY <1>3, <1>4, <1>5, <1>6, <1>7 DEF Ledger

\* The coins of the wallet.
Spent(s) == SumFunction([i \in DOMAIN s |-> s[i].amount])

LEMMA SpentType ==
  ASSUME NEW s \in Seq(Messages)
  PROVE  /\ Spent(s) \in Nat
         /\ \A m \in Messages : Spent(Append(s, m)) = Spent(s) + m.amount
<1> DEFINE f(q) == [i \in DOMAIN q |-> q[i].amount]
<1>1. ASSUME NEW q \in Seq(Messages)
      PROVE  /\ Len(q) \in Nat /\ DOMAIN q = 1..Len(q) /\ IsFiniteSet(DOMAIN q)
             /\ \A i \in DOMAIN q : f(q)[i] \in Nat /\ q[i] \in Messages
             /\ Spent(q) = SumFunctionOnSet(f(q), DOMAIN q)
  <2>1. /\ Len(q) \in Nat /\ DOMAIN q = 1..Len(q)
        /\ \A i \in 1..Len(q) : q[i] \in Messages
    BY LenProperties, ElementOfSeq
  <2>2. IsFiniteSet(1..Len(q))
    BY <2>1, FS_Interval
  <2>3. \A i \in DOMAIN q : f(q)[i] \in Nat
    BY <2>1 DEF Messages
  <2>4. Spent(q) = SumFunctionOnSet(f(q), DOMAIN q)
    BY DEF Spent, SumFunction
  <2> QED
    BY <2>1, <2>2, <2>3, <2>4
<1>2. Spent(s) \in Nat
  <2> HIDE DEF f
  <2> QED
    BY <1>1, SumGrows
<1>3. ASSUME NEW m \in Messages
      PROVE  Spent(Append(s, m)) = Spent(s) + m.amount
  <2>1. PICK q : q = Append(s, m)
    OBVIOUS
  <2>2. /\ q \in Seq(Messages) /\ Len(q) = Len(s) + 1
        /\ \A i \in 1..Len(s) : q[i] = s[i]
        /\ q[Len(s) + 1] = m
    BY <2>1, AppendProperties
  <2>3. /\ Len(s) \in Nat /\ DOMAIN s = 1..Len(s)
        /\ DOMAIN q = 1..(Len(s) + 1) /\ IsFiniteSet(DOMAIN q) /\ IsFiniteSet(DOMAIN s)
        /\ \A i \in DOMAIN q : f(q)[i] \in Nat
        /\ \A i \in DOMAIN s : f(s)[i] \in Nat
        /\ Spent(q) = SumFunctionOnSet(f(q), DOMAIN q)
        /\ Spent(s) = SumFunctionOnSet(f(s), DOMAIN s)
    BY <1>1, <2>2
  <2>4. f(q)[Len(s) + 1] = m.amount /\ \A i \in DOMAIN s : f(q)[i] = f(s)[i]
    BY <2>2, <2>3
  <2>5. Len(s) + 1 \in DOMAIN q /\ DOMAIN q \ {Len(s) + 1} = DOMAIN s
    BY <2>3
  <2> HIDE DEF f
  <2>6. SumFunctionOnSet(f(q), DOMAIN q) = SumFunctionOnSet(f(q), DOMAIN q \ {Len(s) + 1}) + f(q)[Len(s) + 1]
    BY <2>3, <2>5, SumAdds
  <2>7. SumFunctionOnSet(f(q), DOMAIN s) = SumFunctionOnSet(f(s), DOMAIN s)
    BY <2>3, <2>4, SumAgrees
  <2>8. Spent(q) = Spent(s) + m.amount
    BY <2>3, <2>4, <2>5, <2>6, <2>7
  <2> QED
    BY <2>1, <2>8
<1> QED
  BY <1>2, <1>3

LEMMA BalanceIs ==
  ASSUME sent \in Seq(Messages)
  PROVE  /\ Balance = AmountOf(Arrived(stage, "GRAM")) - Spent(sent)
         /\ Balance \in Int
<1>1. Balance = AmountOf(Arrived(stage, "GRAM")) - Spent(sent)
  BY DEF Balance, Arrived, Spent
<1>2. AmountOf(Arrived(stage, "GRAM")) \in Nat /\ Spent(sent) \in Nat
  BY Totals, Stagewise, SpentType
<1> QED
  BY <1>1, <1>2

LEMMA LedgerStays ==
  ASSUME TypedLedger, UNCHANGED <<stage, order, sweeps>>
  PROVE  TypedLedger'
BY DEF TypedLedger

LEMMA RowTouched ==
  ASSUME TypedLedger, UNCHANGED ledger, NEW n \in DOMAIN Gram, NEW x, Retouched(Gram[n], x),
         sweeps' = [sweeps EXCEPT !["GRAM"][n] = x]
  PROVE  TypedLedger'
<1>1. /\ stage' = stage /\ order' = order
      /\ sweeps \in [Assets -> Seq(Rows)]
      /\ \A a \in Assets : Settled(stage, order, a, sweeps[a])
  BY DEF TypedLedger, ledger
<1>2. PICK rows : rows = [Gram EXCEPT ![n] = x]
  OBVIOUS
<1>3. Settled(stage, order, "GRAM", rows)
  BY <1>1, <1>2, RetouchSettles DEF Gram, Assets
<1>4. sweeps' = [sweeps EXCEPT !["GRAM"] = rows]
  BY <1>2 DEF Gram
<1>5. rows \in Seq(Rows)
  BY <1>3 DEF Settled, Books
<1>6. sweeps' \in [Assets -> Seq(Rows)]
  BY <1>1, <1>4, <1>5
<1>7. \A a \in Assets : Settled(stage, order, a, sweeps'[a])
  BY <1>1, <1>3, <1>4 DEF Assets
<1> QED
  BY <1>1, <1>6, <1>7 DEF TypedLedger

LEMMA JobRow ==
  ASSUME TypedLedger, NEW n \in DOMAIN Gram
  PROVE  /\ Gram[n] \in Rows /\ n \in Nat /\ n > 0
         /\ Gram \in Seq(Rows) /\ n <= Len(Gram)
<1>1. Gram \in Seq(Rows)
  BY DEF TypedLedger, Gram, Assets
<1>2. Len(Gram) \in Nat /\ DOMAIN Gram = 1..Len(Gram) /\ \A k \in DOMAIN Gram : Gram[k] \in Rows
  BY <1>1, RowsAre
<1> QED
  BY <1>1, <1>2

LEMMA FailureTyped ==
  ASSUME TypedLedger, UNCHANGED ledger, NEW w \in Workers, worker[w].job \in DOMAIN Gram, MarkFailed(w)
  PROVE  TypedLedger'
<1> DEFINE n == worker[w].job
<1>1. Gram[n] \in Rows
  BY JobRow
<1>2. CASE UNCHANGED sweeps
  BY <1>2, LedgerStays DEF ledger
<1>3. CASE Row(w).status \in {"READY", "SENT"} /\ SetRow(w, FailedRow(Row(w)))
  <2>1. PICK r \in Rows : r = Gram[n]
    BY <1>1
  <2>2. PICK x : x = FailedRow(r)
    OBVIOUS
  <2>3. Retouched(r, x)
    BY <1>3, <2>1, <2>2 DEF FailedRow, Retouched, Rows, Owners, Row
  <2>4. sweeps' = [sweeps EXCEPT !["GRAM"][n] = x]
    BY <1>3, <2>1, <2>2 DEF SetRow, Row
  <2> QED
    BY <2>1, <2>3, <2>4, RowTouched
<1> QED
  BY <1>2, <1>3 DEF MarkFailed

LEMMA RowsTyped ==
  ASSUME IInv, Typed, NEW w \in Workers,
         Claim(w) \/ Defer(w) \/ MarkReady(w) \/ MarkSent(w) \/ Short(w) \/ Fail(w) \/ Crash(w)
  PROVE  TypedLedger'
<1> DEFINE n == worker[w].job
<1>1. /\ TypedLedger /\ TypedCalls /\ Call(w)
      /\ worker[w] \in Calls /\ Earns(worker[w])
      /\ ~At(w, "IDLE") /\ n \in DOMAIN Gram
      /\ UNCHANGED ledger
  <2>1. TypedLedger /\ TypedCalls /\ Call(w) /\ ~At(w, "IDLE") /\ UNCHANGED ledger
    BY TypedParts DEF IInv, Claim, Defer, MarkReady, MarkSent, Short, Fail, Crash, At
  <2> QED
    BY <2>1 DEF TypedCalls, Call
<1>2. PICK r \in Rows : r = Gram[n] /\ r = Row(w)
  BY <1>1, JobRow DEF Row
<1>3. CASE UNCHANGED sweeps
  BY <1>1, <1>3, LedgerStays DEF ledger
<1>4. ASSUME NEW x, Retouched(r, x), SetRow(w, x)
      PROVE  TypedLedger'
  BY <1>1, <1>2, <1>4, RowTouched DEF SetRow
<1>5. w \in Owners /\ Nobody \in Owners /\ Gone \in Owners /\ \A o : Forgotten(w, o) \in {o, Gone}
  BY DEF Owners, Forgotten
<1>6. CASE Claim(w)
  <2>1. ASSUME r.status \in {"QUEUED", "READY", "SENT", "FAILED"},
               SetRow(w, [r EXCEPT !.status = Resumed(r), !.owner = w, !.leased = TRUE])
        PROVE  TypedLedger'
    <3>1. PICK s : s = Resumed(r)
      OBVIOUS
    <3>2. s \in {"READY", "SENT"}
      BY <2>1, <3>1 DEF Resumed
    <3>3. PICK x : x = [r EXCEPT !.status = s, !.owner = w, !.leased = TRUE]
      OBVIOUS
    <3>4. Retouched(r, x)
      BY <1>5, <2>1, <3>2, <3>3 DEF Retouched, Rows
    <3> QED
      BY <1>4, <2>1, <3>1, <3>3, <3>4
  <2> QED
    BY <1>2, <1>3, <1>6, <2>1 DEF Claim
<1>7. CASE Defer(w)
  <2>1. ASSUME SetRow(w, [r EXCEPT !.owner = Nobody, !.leased = TRUE])
        PROVE  TypedLedger'
    <3>1. Retouched(r, [r EXCEPT !.owner = Nobody, !.leased = TRUE])
      BY <1>5 DEF Retouched, Rows
    <3> QED
      BY <1>4, <2>1, <3>1
  <2> QED
    BY <1>2, <1>3, <1>7, <2>1 DEF Defer
<1>8. CASE MarkReady(w)
  <2>1. ASSUME Planning(w), SetRow(w, [r EXCEPT !.plan = worker[w].plan])
        PROVE  TypedLedger'
    <3>1. PICK p : p = worker[w].plan
      OBVIOUS
    <3>2. p \in Plans
      BY <1>1, <1>8, <3>1 DEF MarkReady, At, Call, Earns, Calls, Plans
    <3>3. Retouched(r, [r EXCEPT !.plan = p])
      BY <1>2, <2>1, <3>2 DEF Retouched, Rows, Planning
    <3> QED
      BY <1>4, <2>1, <3>1, <3>3
  <2> QED
    BY <1>2, <1>3, <1>8, <2>1 DEF MarkReady
<1>9. CASE MarkSent(w)
  <2>1. ASSUME NEW s \in {"EARLY", "LATE"}, Planning(w),
               SetRow(w, [r EXCEPT !.status = "SENT", !.sentAt = s])
        PROVE  TypedLedger'
    <3>1. Retouched(r, [r EXCEPT !.status = "SENT", !.sentAt = s])
      BY <1>2, <2>1 DEF Retouched, Rows, Planning
    <3> QED
      BY <1>4, <2>1, <3>1
  <2>2. SentAt(w) \subseteq {"EARLY", "LATE"}
    BY DEF SentAt
  <2> QED
    BY <1>2, <1>3, <1>9, <2>1, <2>2 DEF MarkSent
<1>10. CASE Short(w) \/ Fail(w)
  BY <1>1, <1>10, FailureTyped DEF Short, Fail
<1>11. CASE Crash(w)
  <2>1. PICK x : x = [r EXCEPT !.owner = Forgotten(w, @)]
    OBVIOUS
  <2>2. Retouched(r, x)
    BY <1>5, <2>1 DEF Retouched, Rows
  <2>3. SetRow(w, x)
    BY <1>2, <1>11, <2>1 DEF Crash
  <2> QED
    BY <1>4, <2>2, <2>3
<1> QED
  BY <1>6, <1>7, <1>8, <1>9, <1>10, <1>11

LEMMA OutsideTyped ==
  ASSUME TypedLedger, NEW n \in DOMAIN Gram, JobLeaseEnds(n) \/ AdminRetry(n)
  PROVE  TypedLedger'
<1>1. PICK r \in Rows : r = Gram[n]
  BY JobRow
<1>2. CASE JobLeaseEnds(n)
  <2>1. PICK x : x = [r EXCEPT !.leased = FALSE]
    OBVIOUS
  <2>2. Retouched(r, x)
    BY <2>1 DEF Retouched, Rows
  <2>3. sweeps' = [sweeps EXCEPT !["GRAM"][n] = x]
    BY <1>1, <1>2, <2>1 DEF JobLeaseEnds, Gram
  <2> QED
    BY <1>1, <1>2, <2>2, <2>3, RowTouched DEF JobLeaseEnds
<1>3. CASE AdminRetry(n)
  <2>1. PICK s : s = Resumed(r)
    OBVIOUS
  <2>2. s \in {"READY", "SENT"} /\ r.status # "CONFIRMED"
    BY <1>1, <1>3, <2>1 DEF AdminRetry, Resumed
  <2>3. PICK x : x = [r EXCEPT !.status = s, !.owner = Nobody, !.leased = FALSE]
    OBVIOUS
  <2>4. Retouched(r, x)
    BY <2>2, <2>3 DEF Retouched, Rows, Owners
  <2>5. sweeps' = [sweeps EXCEPT !["GRAM"][n] = x]
    BY <1>1, <1>3, <2>1, <2>3 DEF AdminRetry, Gram
  <2> QED
    BY <1>1, <1>3, <2>4, <2>5, RowTouched DEF AdminRetry
<1> QED
  BY <1>2, <1>3

LEMMA ConfirmTyped ==
  ASSUME IInv, Typed, NEW w \in Workers, Confirm(w)
  PROVE  TypedLedger'
<1> DEFINE n == worker[w].job
<1>1. /\ TypedLedger /\ n \in DOMAIN Gram /\ UNCHANGED ledger
      /\ stage \in [Transfers -> Stages] /\ order \in OrderStatuses
      /\ sweeps \in [Assets -> Seq(Rows)]
      /\ \A a \in Assets : Books(stage, order, a, sweeps[a])
  BY TypedParts DEF IInv, Confirm, Call, At, TypedLedger, Settled
<1>2. PICK r \in Rows : r = Gram[n] /\ r = Row(w)
  BY <1>1, JobRow DEF Row
<1>3. CASE UNCHANGED sweeps
  BY <1>1, <1>3, LedgerStays DEF ledger
<1>4. CASE sweeps' = AfterConfirm(w)
  <2>1. PICK x : x = ConfirmedRow(r)
    OBVIOUS
  <2>2. /\ x \in Rows /\ x.status = "CONFIRMED"
        /\ x.reason = r.reason /\ x.trigger = r.trigger
    BY <2>1 DEF ConfirmedRow, Rows, Owners
  <2>3. PICK rows : rows = [Gram EXCEPT ![n] = x]
    OBVIOUS
  <2>4. Books(stage, order, "GRAM", rows)
    BY <1>1, <1>2, <2>2, <2>3, ConfirmationBooked DEF Gram, Assets
  <2>5. PICK jobs : jobs = [sweeps EXCEPT !["GRAM"][n] = x]
    OBVIOUS
  <2>6. jobs = [sweeps EXCEPT !["GRAM"] = rows]
    BY <2>3, <2>5 DEF Gram
  <2>7. \A a \in Assets : Books(stage, order, a, jobs[a])
    BY <1>1, <2>4, <2>6 DEF Assets
  <2>8. sweeps' = Reconciled(stage, order, jobs)
    BY <1>2, <1>4, <2>1, <2>5 DEF AfterConfirm
  <2> QED
    BY <1>1, <2>7, <2>8, Reconciling DEF ledger
<1> QED
  BY <1>3, <1>4 DEF Confirm

LEMMA UsdtTyped ==
  ASSUME Typed, UsdtSweep
  PROVE  TypedLedger'
<1>1. /\ stage \in [Transfers -> Stages] /\ order \in OrderStatuses
      /\ sweeps \in [Assets -> Seq(Rows)]
      /\ \A a \in Assets : Books(stage, order, a, sweeps[a])
      /\ UNCHANGED <<stage, order>>
  BY TypedParts DEF TypedLedger, Settled, UsdtSweep, ConfirmUsdt
<1>2. PICK rows : rows = sweeps["USDT"]
  OBVIOUS
<1>3. PICK n : n = Len(rows)
  OBVIOUS
<1>4. /\ rows \in Seq(Rows) /\ rows # <<>> /\ rows[n].status = "QUEUED"
      /\ n \in DOMAIN rows /\ rows[n] \in Rows
      /\ Books(stage, order, "USDT", rows)
  BY <1>1, <1>2, <1>3, RowsAre DEF UsdtSweep, ConfirmUsdt, Assets
<1>5. PICK left : left = AmountOf(Arrived(stage, "USDT")) - SweptAmount(rows)
  OBVIOUS
<1>6. left \in Nat \ {0}
  <2>1. AmountOf(Arrived(stage, "USDT")) > SweptAmount(rows)
    BY <1>4 DEF Books, Jettons
  <2>2. AmountOf(Arrived(stage, "USDT")) \in Nat /\ SweptAmount(rows) \in Nat
    BY <1>4, Totals, Stagewise, SweptType
  <2> QED
    BY <1>5, <2>1, <2>2
<1>7. PICK r \in Rows : r = rows[n]
  BY <1>4
<1>8. PICK x : x = [r EXCEPT !.status = "CONFIRMED", !.plan = [amount |-> left, seqno |-> 0]]
  OBVIOUS
<1>9. /\ x \in Rows /\ x.status = "CONFIRMED"
      /\ x.reason = r.reason /\ x.trigger = r.trigger
  <2>1. [amount |-> left, seqno |-> 0] \in Plans
    BY <1>6 DEF Plans
  <2>2. PICK p \in Plans : p = [amount |-> left, seqno |-> 0]
    BY <2>1
  <2>3. x = [r EXCEPT !.status = "CONFIRMED", !.plan = p]
    BY <1>8, <2>2
  <2> QED
    BY <2>3 DEF Rows
<1>10. PICK after : after = [rows EXCEPT ![n] = x]
  OBVIOUS
<1>11. Books(stage, order, "USDT", after)
  BY <1>3, <1>4, <1>7, <1>9, <1>10, ConfirmationBooked DEF Assets
<1>12. PICK jobs : jobs = [sweeps EXCEPT !["USDT"][n] = x]
  OBVIOUS
<1>13. jobs = [sweeps EXCEPT !["USDT"] = after]
  BY <1>2, <1>10, <1>12
<1>14. \A a \in Assets : Books(stage, order, a, jobs[a])
  BY <1>1, <1>11, <1>13 DEF Assets
<1>15. sweeps' = Reconciled(stage, order, jobs)
  BY <1>2, <1>3, <1>5, <1>7, <1>8, <1>12 DEF UsdtSweep, ConfirmUsdt, Arrived
<1> QED
  BY <1>1, <1>14, <1>15, Reconciling

\* Only w moves, and its call keeps its types.
CallMoves(w) ==
  \E c \in Calls : Earns(c) /\ worker' = [worker EXCEPT ![w] = c]

LEMMA CallMoved ==
  ASSUME TypedCalls, NEW w \in Workers, CallMoves(w),
         signing' \in [owner: Owners, leased: BOOLEAN], faults' \in 0..MaxFaults
  PROVE  TypedCalls'
BY DEF TypedCalls, CallMoves

LEMMA IdleCall == Idle \in Calls /\ Earns(Idle)
BY DEF Idle, Calls, Places, NoPlan, Earns

LEMMA CallWent ==
  ASSUME TypedCalls, NEW w \in Workers, NEW place \in Places \ {"SEQNO", "READY"}, GoTo(w, place)
  PROVE  CallMoves(w)
<1>1. PICK c \in Calls : c = worker[w]
  BY DEF TypedCalls
<1>2. PICK d : d = [c EXCEPT !.at = place]
  OBVIOUS
<1>3. d \in Calls /\ Earns(d)
  BY <1>2 DEF Calls, Earns
<1>4. worker' = [worker EXCEPT ![w] = d]
  BY <1>1, <1>2 DEF GoTo
<1> QED
  BY <1>3, <1>4 DEF CallMoves

LEMMA CallEnded ==
  ASSUME TypedCalls, NEW w \in Workers, EndCall(w)
  PROVE  CallMoves(w)
BY IdleCall DEF EndCall, CallMoves

LEMMA StepsTyped ==
  ASSUME IInv, Typed, NEW w \in Workers, Sweep(w) \/ Disturbs(w)
  PROVE  CallMoves(w)
<1>1. /\ TypedLedger /\ TypedCalls /\ TypedChain /\ Call(w)
      /\ worker \in [Workers -> Calls] /\ Earns(worker[w])
  BY TypedParts DEF IInv, TypedCalls
<1>2. PICK c \in Calls : c = worker[w] /\ Earns(c)
  BY <1>1
<1>3. ASSUME NEW d, worker' = [worker EXCEPT ![w] = d], d \in Calls, Earns(d)
      PROVE  CallMoves(w)
  BY <1>3 DEF CallMoves
<1>4. ASSUME NEW place \in {"LISTED", "ACQUIRE", "FIND", "SEQNO_PASSED", "BALANCE", "SEND", "SENT",
                            "CONFIRM", "RELEASE", "DEFER", "SHORT", "FAIL"}, GoTo(w, place)
      PROVE  CallMoves(w)
  <2>1. place \in Places \ {"SEQNO", "READY"}
    BY DEF Places
  <2> QED
    BY <1>1, <1>4, <2>1, CallWent
<1>5. CASE List(w)
  <2>1. PICK n \in DOMAIN Gram :
          worker' = [worker EXCEPT ![w] = [Idle EXCEPT !.at = "LISTED", !.job = n]]
    BY <1>5 DEF List
  <2>2. n \in Nat
    BY <1>1, JobRow
  <2>3. PICK d : d = [Idle EXCEPT !.at = "LISTED", !.job = n]
    OBVIOUS
  <2>4. d \in Calls /\ Earns(d)
    BY <2>2, <2>3, IdleCall DEF Calls, Places, Earns
  <2> QED
    BY <1>3, <2>1, <2>3, <2>4
<1>6. CASE Claim(w)
  <2>1. CASE EndCall(w)
    BY <1>1, <2>1, CallEnded
  <2>2. CASE /\ Row(w).status \in {"QUEUED", "READY", "SENT", "FAILED"}
             /\ worker' = [worker EXCEPT ![w].at = "ACQUIRE", ![w].status = Resumed(Row(w)),
                                         ![w].plan = Row(w).plan]
    <3>1. Row(w) \in Rows
      BY <1>1, <1>6, JobRow DEF Claim, At, Call, Row
    <3>2. PICK s \in {"READY", "SENT"} : s = Resumed(Row(w))
      BY <2>2 DEF Resumed
    <3>3. PICK p : p = Row(w).plan
      OBVIOUS
    <3>4. p \in [amount: Nat, seqno: Nat \cup {-1}]
      BY <3>1, <3>3 DEF Rows, Plans, NoPlan
    <3>5. PICK d : d = [c EXCEPT !.at = "ACQUIRE", !.status = s, !.plan = p]
      OBVIOUS
    <3>6. d \in Calls /\ Earns(d)
      BY <3>4, <3>5 DEF Calls, Places, Earns
    <3>7. worker' = [worker EXCEPT ![w] = d]
      BY <1>2, <2>2, <3>2, <3>3, <3>5
    <3> QED
      BY <1>3, <3>6, <3>7
  <2> QED
    BY <1>6, <2>1, <2>2 DEF Claim
<1>7. CASE Acquire(w)
  BY <1>4, <1>7 DEF Acquire
<1>8. CASE Defer(w) \/ Release(w) \/ Fail(w) \/ Crash(w)
  BY <1>1, <1>8, CallEnded DEF Defer, Release, Fail, Crash
<1>9. CASE Find(w)
  <2>1. CASE \E place \in {"FAIL", "SEQNO_PASSED", "DEFER"} : GoTo(w, place)
    BY <1>4, <2>1
  <2>2. CASE worker' = [worker EXCEPT ![w].found = TRUE,
               ![w].at = IF worker[w].status = "READY" THEN "SENT" ELSE "CONFIRM"]
    <3>1. PICK place \in {"SENT", "CONFIRM"} :
            place = IF worker[w].status = "READY" THEN "SENT" ELSE "CONFIRM"
      OBVIOUS
    <3>2. PICK d : d = [c EXCEPT !.found = TRUE, !.at = place]
      OBVIOUS
    <3>3. d \in Calls /\ Earns(d)
      BY <3>2 DEF Calls, Places, Earns
    <3>4. worker' = [worker EXCEPT ![w] = d]
      BY <1>2, <2>2, <3>1, <3>2
    <3> QED
      BY <1>3, <3>3, <3>4
  <2> QED
    BY <1>9, <2>1, <2>2 DEF Find
<1>10. CASE SeqnoPassed(w) \/ Send(w) \/ SendFails(w) \/ Short(w) \/ Throws(w)
  BY <1>4, <1>10 DEF SeqnoPassed, Send, SendFails, Short, Throws
<1>11. CASE ReadBalance(w)
  <2>1. CASE GoTo(w, "FAIL") \/ GoTo(w, "SHORT")
    BY <1>4, <2>1
  <2>2. ASSUME NEW amount \in Int, NEW place \in {"SEND", "SEQNO"}, ~(amount < MinSweep),
               worker' = [worker EXCEPT ![w].plan.amount = amount, ![w].at = place]
        PROVE  CallMoves(w)
    <3>1. amount \in Nat /\ amount > 0
      BY <2>2, NativeAssumption
    <3>2. PICK p \in [amount: Nat, seqno: Nat \cup {-1}] : p = c.plan
      BY DEF Calls
    <3>3. PICK q : q = [p EXCEPT !.amount = amount]
      OBVIOUS
    <3>4. q \in [amount: Nat, seqno: Nat \cup {-1}] /\ q.amount = amount
      BY <3>1, <3>3
    <3>5. PICK d : d = [c EXCEPT !.plan = q, !.at = place]
      OBVIOUS
    <3>6. d \in Calls /\ Earns(d)
      BY <3>1, <3>4, <3>5 DEF Calls, Places, Earns
    <3>7. worker' = [worker EXCEPT ![w] = d]
      BY <1>2, <2>2, <3>2, <3>3, <3>5
    <3> QED
      BY <1>3, <3>6, <3>7
  <2>3. Balance - Reserve \in Int /\ worker[w].plan.amount \in Int
    BY <1>1, <1>2, BalanceIs, SweepAssumption DEF TypedChain, Calls
  <2> QED
    BY <1>11, <2>1, <2>2, <2>3 DEF ReadBalance, AfterBalance
<1>12. CASE ReadSeqno(w)
  <2>1. PICK p \in [amount: Nat, seqno: Nat \cup {-1}] : p = c.plan
    BY DEF Calls
  <2>2. PICK q : q = [p EXCEPT !.seqno = wallet]
    OBVIOUS
  <2>3. q \in [amount: Nat, seqno: Nat \cup {-1}] /\ q.amount = p.amount
    BY <1>1, <2>2 DEF TypedChain
  <2>4. p.amount > 0
    BY <1>2, <1>12, <2>1 DEF ReadSeqno, At, Earns
  <2>5. PICK d : d = [c EXCEPT !.at = "READY", !.plan = q]
    OBVIOUS
  <2>6. d \in Calls /\ Earns(d)
    BY <2>3, <2>4, <2>5 DEF Calls, Places, Earns
  <2>7. worker' = [worker EXCEPT ![w] = d]
    BY <1>2, <1>12, <2>1, <2>2, <2>5 DEF ReadSeqno
  <2> QED
    BY <1>3, <2>6, <2>7
<1>13. CASE MarkReady(w) \/ Confirm(w)
  BY <1>4, <1>13 DEF MarkReady, Confirm
<1>14. CASE MarkSent(w)
  <2>1. CASE GoTo(w, "FAIL")
    BY <1>4, <2>1
  <2>2. CASE worker' = [worker EXCEPT ![w].status = "SENT",
                 ![w].at = IF worker[w].found THEN "CONFIRM" ELSE "FIND"]
    <3>1. PICK place \in {"CONFIRM", "FIND"} :
            place = IF worker[w].found THEN "CONFIRM" ELSE "FIND"
      OBVIOUS
    <3>2. PICK d : d = [c EXCEPT !.status = "SENT", !.at = place]
      OBVIOUS
    <3>3. d \in Calls /\ Earns(d)
      BY <3>2 DEF Calls, Places, Earns
    <3>4. worker' = [worker EXCEPT ![w] = d]
      BY <1>2, <2>2, <3>1, <3>2
    <3> QED
      BY <1>3, <3>3, <3>4
  <2> QED
    BY <1>14, <2>1, <2>2 DEF MarkSent
<1>15. CASE Slow(w)
  <2>1. PICK d : d = [c EXCEPT !.slow = TRUE]
    OBVIOUS
  <2>2. d \in Calls /\ Earns(d)
    BY <1>2, <2>1 DEF Calls, Earns
  <2>3. worker' = [worker EXCEPT ![w] = d]
    BY <1>2, <1>15, <2>1 DEF Slow
  <2> QED
    BY <1>3, <2>2, <2>3
<1> QED
  BY <1>5, <1>6, <1>7, <1>8, <1>9, <1>10, <1>11, <1>12, <1>13, <1>14, <1>15 DEF Sweep, Disturbs

\* What a call has broadcast is the plan of its job's row.
LEMMA SignedTyped ==
  ASSUME IInv, TypedLedger, NEW w \in Workers, At(w, "SEND")
  PROVE  Signed(w) \in Messages
<1>1. /\ worker[w].job \in DOMAIN Gram
      /\ worker[w].plan = Gram[worker[w].job].plan /\ worker[w].plan # NoPlan
  BY DEF IInv, Call, At, Follows, Row
<1>2. /\ Gram[worker[w].job] \in Rows
      /\ worker[w].job \in Nat \ {0}
  BY <1>1, JobRow
<1>3. worker[w].plan \in Plans
  BY <1>1, <1>2 DEF Rows
<1> QED
  BY <1>2, <1>3 DEF Signed, Message, Messages, Jobs, Plans

LEMMA SweepTyped ==
  ASSUME IInv, Typed, NEW w \in Workers, Sweep(w) \/ Disturbs(w)
  PROVE  Typed'
<1>1. /\ TypedLedger /\ TypedChain /\ TypedCalls
      /\ signing \in [owner: Owners, leased: BOOLEAN] /\ faults \in 0..MaxFaults
  BY TypedParts DEF TypedCalls
<1>2. TypedLedger'
  <2>1. CASE \/ Claim(w) \/ Defer(w) \/ MarkReady(w) \/ MarkSent(w) \/ Short(w) \/ Fail(w) \/ Crash(w)
    BY <2>1, RowsTyped
  <2>2. CASE Confirm(w)
    BY <2>2, ConfirmTyped
  <2>3. CASE UNCHANGED <<stage, order, sweeps>>
    BY <1>1, <2>3, LedgerStays
  <2> QED
    BY <2>1, <2>2, <2>3 DEF Sweep, Disturbs, List, Acquire, Find, SeqnoPassed, ReadBalance,
       ReadSeqno, Send, Release, SendFails, Throws, Slow, ledger
<1>3. TypedChain'
  <2>1. CASE UNCHANGED chain
    BY <1>1, <2>1 DEF TypedChain, chain
  <2>2. CASE Send(w) \/ SendFails(w)
    <3>1. Signed(w) \in Messages
      BY <1>1, <2>2, SignedTyped DEF Send, SendFails
    <3> QED
      BY <1>1, <2>2, <3>1 DEF TypedChain, Send, SendFails
  <2> QED
    BY <2>1, <2>2 DEF Sweep, Disturbs, List, Claim, Acquire, Defer, Find, SeqnoPassed, ReadBalance,
       ReadSeqno, MarkReady, MarkSent, Confirm, Release, Short, Fail, Throws, Crash, Slow
<1>4. signing' \in [owner: Owners, leased: BOOLEAN]
  <2>1. \A o \in Owners : Forgotten(w, o) \in Owners
    BY DEF Forgotten, Owners
  <2>2. CASE UNCHANGED signing
    BY <1>1, <2>2
  <2>3. CASE signing' \in {[owner |-> w, leased |-> TRUE], [owner |-> Nobody, leased |-> FALSE]}
    <3>1. w \in Owners /\ Nobody \in Owners
      BY DEF Owners
    <3>2. /\ [owner |-> w, leased |-> TRUE] \in [owner: Owners, leased: BOOLEAN]
          /\ [owner |-> Nobody, leased |-> FALSE] \in [owner: Owners, leased: BOOLEAN]
      BY <3>1
    <3> QED
      BY <2>3, <3>2, Zenon
  <2>4. CASE signing' = [signing EXCEPT !.owner = Forgotten(w, @)]
    BY <1>1, <2>1, <2>4
  <2> QED
    BY <2>2, <2>3, <2>4 DEF Sweep, Disturbs, List, Claim, Acquire, Defer, Find, SeqnoPassed,
       ReadBalance, ReadSeqno, MarkReady, Send, MarkSent, Confirm, Release, Short, Fail, SendFails,
       Throws, Crash, Slow
<1>5. faults' \in 0..MaxFaults
  <2>1. CASE UNCHANGED faults
    BY <1>1, <2>1
  <2>2. CASE Fault
    BY <1>1, <2>2, NativeAssumption DEF Fault
  <2> QED
    BY <2>1, <2>2 DEF Sweep, Disturbs, List, Claim, Acquire, Defer, Find, SeqnoPassed,
       ReadBalance, ReadSeqno, MarkReady, Send, MarkSent, Confirm, Release, Short, Fail, SendFails,
       Throws, Crash, Slow
<1>6. TypedCalls'
  BY <1>1, <1>4, <1>5, StepsTyped, CallMoved
<1> QED
  BY <1>2, <1>3, <1>6, TypedParts, PTL

LEMMA EnvironmentTyped ==
  ASSUME IInv, Typed,
         \/ Ledger /\ UNCHANGED <<chain, signing, worker, faults>>
         \/ LeaseEnds
         \/ \E n \in DOMAIN Gram : AdminRetry(n)
         \/ \E m \in pending : Execute(m)
         \/ UsdtSweep
         \/ UNCHANGED vars
  PROVE  Typed'
<1>1. TypedLedger /\ TypedChain /\ TypedCalls
  BY TypedParts
<1>2. TypedLedger'
  <2>1. CASE Ledger
    BY <1>1, <2>1, LedgerTyped
  <2>2. CASE \E n \in DOMAIN Gram : JobLeaseEnds(n) \/ AdminRetry(n)
    BY <1>1, <2>2, OutsideTyped
  <2>3. CASE UsdtSweep
    BY <2>3, UsdtTyped
  <2>4. CASE UNCHANGED <<stage, order, sweeps>>
    BY <1>1, <2>4, LedgerStays
  <2> QED
    BY <2>1, <2>2, <2>3, <2>4 DEF LeaseEnds, SigningLeaseEnds, Execute, ledger, vars
<1>3. TypedChain'
  <2>1. CASE UNCHANGED chain
    BY <1>1, <2>1 DEF TypedChain, chain
  <2>2. ASSUME NEW m \in pending, Execute(m)
        PROVE  TypedChain'
    <3>1. m \in Messages /\ sent \in Seq(Messages)
      BY <1>1 DEF TypedChain
    <3>2. Append(sent, m) \in Seq(Messages)
      BY <3>1, AppendProperties
    <3> QED
      BY <1>1, <2>2, <3>1, <3>2 DEF TypedChain, Execute
  <2>3. CASE UsdtSweep
    BY <1>1, <2>3 DEF TypedChain, UsdtSweep
  <2> QED
    BY <2>1, <2>2, <2>3 DEF LeaseEnds, SigningLeaseEnds, JobLeaseEnds, AdminRetry, vars, chain
<1>4. TypedCalls'
  <2>1. UNCHANGED <<worker, faults>>
    BY DEF LeaseEnds, SigningLeaseEnds, JobLeaseEnds, AdminRetry, Execute, UsdtSweep, vars
  <2>2. signing' = signing \/ signing' = [signing EXCEPT !.leased = FALSE]
    BY DEF LeaseEnds, SigningLeaseEnds, JobLeaseEnds, AdminRetry, Execute, UsdtSweep, vars
  <2> QED
    BY <1>1, <2>1, <2>2 DEF TypedCalls
<1> QED
  BY <1>2, <1>3, <1>4, TypedParts, PTL

LEMMA TypedInit == Init => Typed
<1> SUFFICES ASSUME Init PROVE Typed
  OBVIOUS
<1>1. /\ stage = [t \in Transfers |-> "ABSENT"] /\ order = "PENDING"
      /\ sweeps = [a \in Assets |-> <<>>]
  BY DEF Init, LedgerInit
<1>2. <<>> \in Seq(Rows) /\ DOMAIN <<>> = {}
  BY EmptySeq
<1>3. \A a \in Assets : Settled(stage, order, a, <<>>)
  BY <1>1, <1>2 DEF Settled, Books, InTurn, Jettons
<1>4. TypedLedger
  BY <1>1, <1>2, <1>3 DEF TypedLedger, Stages, OrderStatuses
<1>5. TypedChain
  BY EmptySeq DEF Init, TypedChain
<1>6. TypedCalls
  BY IdleCall, NativeAssumption DEF Init, TypedCalls, Owners
<1> QED
  BY <1>4, <1>5, <1>6, TypedParts

LEMMA TypedStep == IInv /\ Typed /\ [Next]_vars => Typed'
BY SweepTyped, EnvironmentTyped DEF Next

LEMMA TypedHolds == Spec => [](IInv /\ Typed)
BY InitHolds, StepKeeps, TypedInit, TypedStep, PTL DEF Spec

LEMMA TypedSuffices == Typed => TypeOK /\ PaidOrderIsSwept
<1> SUFFICES ASSUME Typed PROVE PaidOrderIsSwept
  BY DEF Typed
<1>1. ASSUME order = "PAID", MaxSweeps > 0, NEW a \in Assets
      PROVE  Cleared(stage, a, sweeps[a])
  BY <1>1 DEF Typed, Settled
<1> QED
  BY <1>1 DEF PaidOrderIsSwept, Cleared

\* Rows, messages and calls keep their types; a plan always moves something, and so
\* does the USDT worker, which finds what it was queued for (markSweepReady).
THEOREM SweepRowsAreLegal == Spec => []TypeOK
BY TypedHolds, TypedSuffices, PTL

\* A paid order is swept: a credit accepted while the last sweep is under way is
\* made up for by its confirmation, and one sweep is left for that
\* (reconcileAutomaticAssetSweeps).
THEOREM CreditsAreSwept == Spec => []PaidOrderIsSwept
BY TypedHolds, TypedSuffices, PTL
-----------------------------------------------------------------------------
(* The coins that the plans count on.                                       *)

\* A confirmed transfer is on the blockchain; a planned one that is not finds
\* its coins in the wallet.
RowCovered(n) ==
  /\ Gram[n].status = "CONFIRMED" => IsOnChain(n)
  /\ Gram[n].plan # NoPlan /\ ~IsOnChain(n) => Gram[n].plan.amount + Reserve <= Balance

\* So does the plan that a call is about to write; what it has found is there.
CallCovered(w) ==
  /\ worker[w].found \/ At(w, "CONFIRM") => IsOnChain(worker[w].job)
  /\ worker[w].at \in {"SEQNO", "READY"} /\ Row(w).plan = NoPlan
       => worker[w].plan.amount + Reserve <= Balance

Covered ==
  /\ \A n \in DOMAIN Gram : RowCovered(n)
  /\ \A w \in Workers : CallCovered(w)

\* Jobs are confirmed once they are on the blockchain, and get plans that are
\* covered.
RowsGrow ==
  /\ \A k \in DOMAIN Gram :
       /\ k \in DOMAIN Gram'
       /\ \/ Gram'[k].plan = Gram[k].plan
          \/ Gram'[k].plan # NoPlan /\ Gram'[k].plan.amount + Reserve <= Balance
       /\ Gram'[k].status = "CONFIRMED" => Gram[k].status = "CONFIRMED" \/ IsOnChain(k)
  /\ \A k \in DOMAIN Gram' \ DOMAIN Gram : Gram'[k].plan = NoPlan /\ Gram'[k].status # "CONFIRMED"

Coins(st, s) == AmountOf(Arrived(st, "GRAM")) - Spent(s)

LEMMA CoinsGrow ==
  ASSUME NEW s \in Seq(Messages), NEW st, NEW later, Arrived(st, "GRAM") \in SUBSET Arrived(later, "GRAM")
  PROVE  /\ Coins(st, s) \in Int /\ Coins(later, s) \in Int
         /\ Coins(st, s) <= Coins(later, s)
<1>1. /\ AmountOf(Arrived(st, "GRAM")) \in Nat /\ AmountOf(Arrived(later, "GRAM")) \in Nat
      /\ AmountOf(Arrived(st, "GRAM")) <= AmountOf(Arrived(later, "GRAM"))
      /\ Spent(s) \in Nat
  BY Stagewise, Totals, TotalsGrow, SpentType
<1> QED
  BY <1>1 DEF Coins

\* The sums, out of sight.
LEMMA BalanceGrows ==
  ASSUME TypedChain, UNCHANGED sent, Arrived(stage, "GRAM") \in SUBSET Arrived(stage', "GRAM")
  PROVE  /\ Balance \in Int /\ Balance' \in Int
         /\ Balance <= Balance'
<1>1. Balance = Coins(stage, sent) /\ Balance' = Coins(stage', sent')
  BY DEF Balance, Coins, Arrived, Spent
<1> QED
  BY <1>1, CoinsGrow DEF TypedChain

LEMMA CoverStays ==
  ASSUME IInv, Typed, Covered, RowsGrow, UNCHANGED sent,
         Arrived(stage, "GRAM") \in SUBSET Arrived(stage', "GRAM"), TypedLedger', TypedCalls',
         NEW W \in SUBSET Workers,
         \A v \in Workers \ W : worker'[v] = worker[v],
         \A v \in W : CallCovered(v)'
  PROVE  Covered'
<1>1. /\ Balance \in Int /\ Balance' \in Int /\ Balance <= Balance'
      /\ Reserve \in Int
  BY BalanceGrows, TypedParts, SweepAssumption
<1>2. \A n : IsOnChain(n)' <=> IsOnChain(n)
  BY DEF IsOnChain
<1>3. ASSUME NEW n \in DOMAIN Gram' PROVE RowCovered(n)'
  <2>1. CASE n \in DOMAIN Gram
    <3>1. RowCovered(n)
      BY <2>1 DEF Covered
    <3>2. CASE Gram'[n].plan = Gram[n].plan
      <4>1. Gram[n].plan # NoPlan => Gram[n].plan.amount \in Int
        BY <2>1, TypedParts, JobRow DEF Rows, Plans
      <4> QED
        BY <1>1, <1>2, <2>1, <3>1, <3>2, <4>1 DEF RowsGrow, RowCovered
    <3>3. CASE Gram'[n].plan # NoPlan /\ Gram'[n].plan.amount + Reserve <= Balance
      <4>1. Gram'[n].plan.amount \in Int
        <5>1. Gram' \in Seq(Rows)
          BY DEF TypedLedger, Gram, Assets
        <5>2. Gram'[n] \in Rows
          BY <5>1, RowsAre
        <5> QED
          BY <3>3, <5>2 DEF Rows, Plans
      <4> QED
        BY <1>1, <1>2, <2>1, <3>1, <3>3, <4>1 DEF RowsGrow, RowCovered
    <3> QED
      BY <2>1, <3>2, <3>3 DEF RowsGrow
  <2>2. CASE n \notin DOMAIN Gram
    BY <2>2 DEF RowsGrow, RowCovered
  <2> QED
    BY <2>1, <2>2
<1>4. ASSUME NEW v \in Workers \ W PROVE CallCovered(v)'
  <2>1. worker'[v] = worker[v] /\ CallCovered(v) /\ Call(v)
    BY DEF Covered, IInv
  <2>2. worker[v].at \in {"SEQNO", "READY"} => /\ worker[v].job \in DOMAIN Gram
                                                /\ worker[v].plan.amount \in Int
    BY <2>1, TypedParts DEF Call, At, TypedCalls, Calls
  <2>3. worker[v].at \in {"SEQNO", "READY"} /\ Row(v)'.plan = NoPlan => Row(v).plan = NoPlan
    BY <2>1, <2>2 DEF RowsGrow, Row
  <2> QED
    BY <1>1, <1>2, <2>1, <2>2, <2>3 DEF CallCovered, At
<1> QED
  BY <1>3, <1>4 DEF Covered

LEMMA RowsStay ==
  ASSUME UNCHANGED sweeps
  PROVE  RowsGrow
BY DEF RowsGrow, Gram

LEMMA RowChanges ==
  ASSUME TypedLedger, NEW n \in DOMAIN Gram, NEW x,
         \/ x.plan = Gram[n].plan
         \/ x.plan # NoPlan /\ x.plan.amount + Reserve <= Balance,
         x.status = "CONFIRMED" => Gram[n].status = "CONFIRMED" \/ IsOnChain(n),
         sweeps' = [sweeps EXCEPT !["GRAM"][n] = x]
  PROVE  RowsGrow
<1>1. sweeps \in [Assets -> Seq(Rows)]
  BY DEF TypedLedger
<1>2. Gram' = [Gram EXCEPT ![n] = x]
  BY <1>1 DEF Gram, Assets
<1> QED
  BY <1>2 DEF RowsGrow

LEMMA PlannerGrows ==
  ASSUME NEW st, NEW status, NEW jobs, jobs["GRAM"] \in Seq(Rows),
         sweeps' = Reconciled(st, status, jobs),
         DOMAIN jobs["GRAM"] = DOMAIN Gram,
         NEW n, NEW x, jobs["GRAM"] = Gram \/ jobs["GRAM"] = [Gram EXCEPT ![n] = x],
         n \in DOMAIN Gram =>
           x.plan = Gram[n].plan /\ (x.status = "CONFIRMED" => IsOnChain(n))
  PROVE  RowsGrow
<1>1. PICK rows \in Seq(Rows) : rows = jobs["GRAM"]
  OBVIOUS
<1>2. PICK new : new = NewSweep(Reason(st, status, "GRAM", rows), CreditedFiat(st, "GRAM"))
  OBVIOUS
<1>3. new.plan = NoPlan /\ new.status = "QUEUED"
  BY <1>2 DEF NewSweep
<1>4. Gram' = rows \/ Gram' = Append(rows, new)
  BY <1>1, <1>2 DEF Reconciled, Gram, Assets
<1>5. /\ DOMAIN rows = 1..Len(rows) /\ Len(rows) \in Nat
      /\ DOMAIN Append(rows, new) = 1..(Len(rows) + 1)
      /\ \A k \in DOMAIN rows : Append(rows, new)[k] = rows[k]
      /\ Append(rows, new)[Len(rows) + 1] = new
  BY RowsAre
<1>6. /\ \A k \in DOMAIN rows : k \in DOMAIN Gram' /\ Gram'[k] = rows[k]
      /\ \A k \in DOMAIN Gram' \ DOMAIN rows : Gram'[k] = new
  BY <1>4, <1>5
<1>7. \A k \in DOMAIN Gram : rows[k] = Gram[k] \/ (k = n /\ rows[k] = x)
  BY <1>1
<1> QED
  BY <1>1, <1>3, <1>6, <1>7 DEF RowsGrow

\* What a call has found has been sent, and it plans with what it has read.
LEMMA CallsCovered ==
  ASSUME IInv, Typed, Covered, NEW w \in Workers, Sweep(w) \/ Disturbs(w)
  PROVE  CallCovered(w)'
<1>1. /\ TypedCalls /\ TypedChain /\ CallCovered(w) /\ Call(w)
      /\ worker \in [Workers -> Calls] /\ worker[w] \in Calls
  BY TypedParts DEF Covered, IInv, TypedCalls
<1>2. UNCHANGED sent /\ \A n : IsOnChain(n)' <=> IsOnChain(n)
  <2>1. UNCHANGED sent
    BY DEF Sweep, Disturbs, List, Claim, Acquire, Defer, Find, SeqnoPassed, ReadBalance, ReadSeqno,
       MarkReady, Send, MarkSent, Confirm, Release, Short, Fail, SendFails, Throws, Crash, Slow, chain
  <2> QED
    BY <2>1 DEF IsOnChain
<1>3. ASSUME NEW d, worker' = [worker EXCEPT ![w] = d],
             d.found \/ d.at = "CONFIRM" => IsOnChain(d.job), d.at \notin {"SEQNO", "READY"}
      PROVE  CallCovered(w)'
  BY <1>1, <1>2, <1>3 DEF CallCovered, At
<1>4. ASSUME NEW place, GoTo(w, place), place \notin {"SEQNO", "READY", "CONFIRM"}
      PROVE  CallCovered(w)'
  BY <1>1, <1>2, <1>4 DEF CallCovered, At, GoTo, Calls
<1>5. ASSUME EndCall(w) PROVE CallCovered(w)'
  BY <1>3, <1>5 DEF EndCall, Idle
<1>6. CASE List(w)
  <2>1. PICK n : worker' = [worker EXCEPT ![w] = [Idle EXCEPT !.at = "LISTED", !.job = n]]
    BY <1>6 DEF List
  <2> QED
    BY <1>3, <2>1 DEF Idle
<1>7. CASE Claim(w)
  <2>1. ASSUME worker' = [worker EXCEPT ![w].at = "ACQUIRE", ![w].status = Resumed(Row(w)),
                                        ![w].plan = Row(w).plan]
        PROVE  CallCovered(w)'
    <3>1. PICK s, p : s = Resumed(Row(w)) /\ p = Row(w).plan
      OBVIOUS
    <3>2. PICK d : d = [worker[w] EXCEPT !.at = "ACQUIRE", !.status = s, !.plan = p]
      OBVIOUS
    <3>3. d.at = "ACQUIRE" /\ d.found = worker[w].found /\ d.job = worker[w].job
      BY <1>1, <3>2 DEF Calls
    <3>4. worker' = [worker EXCEPT ![w] = d]
      BY <1>1, <2>1, <3>1, <3>2
    <3> QED
      BY <1>1, <1>3, <3>3, <3>4 DEF CallCovered
  <2> QED
    BY <1>5, <1>7, <2>1 DEF Claim
<1>8. CASE Find(w)
  <2>1. ASSUME Cardinality(Matches(w)) = 1,
               worker' = [worker EXCEPT ![w].found = TRUE,
                 ![w].at = IF worker[w].status = "READY" THEN "SENT" ELSE "CONFIRM"]
        PROVE  CallCovered(w)'
    <3>1. Matches(w) # {}
      BY <2>1, FS_EmptySet
    <3>2. IsOnChain(worker[w].job)
      BY <3>1 DEF Matches, IsOnChain
    <3>3. PICK place \in {"SENT", "CONFIRM"} :
            place = IF worker[w].status = "READY" THEN "SENT" ELSE "CONFIRM"
      OBVIOUS
    <3>4. PICK d : d = [worker[w] EXCEPT !.found = TRUE, !.at = place]
      OBVIOUS
    <3>5. d.job = worker[w].job /\ d.at = place
      BY <1>1, <3>4 DEF Calls
    <3>6. worker' = [worker EXCEPT ![w] = d]
      BY <1>1, <2>1, <3>3, <3>4
    <3> QED
      BY <1>3, <3>2, <3>3, <3>5, <3>6
  <2> QED
    BY <1>4, <1>8, <2>1 DEF Find
<1>9. CASE ReadBalance(w)
  <2>1. CASE GoTo(w, "FAIL") \/ GoTo(w, "SHORT")
    BY <1>4, <2>1
  <2>2. ASSUME NEW amount \in Int, NEW place \in {"SEND", "SEQNO"},
               place = "SEQNO" => amount = Balance - Reserve,
               worker' = [worker EXCEPT ![w].plan.amount = amount, ![w].at = place]
        PROVE  CallCovered(w)'
    <3>1. Balance' = Balance /\ Balance \in Int /\ Reserve \in Int
      <4>1. Balance' = Balance
        BY <1>9 DEF ReadBalance, Balance, ledger, chain
      <4>2. sent \in Seq(Messages) /\ Reserve \in Int
        BY <1>1, SweepAssumption DEF TypedChain
      <4> QED
        BY <4>1, <4>2, BalanceIs
    <3>2. /\ worker'[w].at = place /\ worker'[w].plan.amount = amount
          /\ worker'[w].found = worker[w].found /\ worker'[w].job = worker[w].job
      BY <1>1, <2>2 DEF Calls
    <3> QED
      BY <1>1, <1>2, <2>2, <3>1, <3>2 DEF CallCovered, At
  <2>3. Balance - Reserve \in Int /\ worker[w].plan.amount \in Int
    BY <1>1, BalanceIs, SweepAssumption DEF TypedChain, Calls
  <2> QED
    BY <1>9, <2>1, <2>2, <2>3 DEF ReadBalance, AfterBalance
<1>10. CASE ReadSeqno(w)
  <2>1. Balance' = Balance /\ Gram' = Gram /\ At(w, "SEQNO")
    BY <1>10 DEF ReadSeqno, Balance, ledger, chain, Gram
  <2>2. /\ worker'[w].at = "READY" /\ worker'[w].plan.amount = worker[w].plan.amount
        /\ worker'[w].found = worker[w].found /\ worker'[w].job = worker[w].job
    BY <1>1, <1>10 DEF Calls, ReadSeqno
  <2> QED
    BY <1>1, <1>2, <2>1, <2>2 DEF CallCovered, At, Row
<1>11. CASE MarkSent(w)
  <2>1. ASSUME worker' = [worker EXCEPT ![w].status = "SENT",
                 ![w].at = IF worker[w].found THEN "CONFIRM" ELSE "FIND"]
        PROVE  CallCovered(w)'
    <3>1. PICK place : place = IF worker[w].found THEN "CONFIRM" ELSE "FIND"
      OBVIOUS
    <3>2. PICK d : d = [worker[w] EXCEPT !.status = "SENT", !.at = place]
      OBVIOUS
    <3>3. d.job = worker[w].job /\ d.at = place /\ d.found = worker[w].found
      BY <1>1, <3>2 DEF Calls
    <3>4. worker' = [worker EXCEPT ![w] = d]
      BY <1>1, <2>1, <3>1, <3>2
    <3>5. d.found \/ d.at = "CONFIRM" => IsOnChain(d.job)
      BY <1>1, <3>1, <3>3 DEF CallCovered
    <3> QED
      BY <1>3, <3>1, <3>3, <3>4, <3>5
  <2> QED
    BY <1>4, <1>11, <2>1 DEF MarkSent
<1>12. CASE Slow(w)
  <2>1. Balance' = Balance /\ Gram' = Gram
    BY <1>12 DEF Slow, Balance, ledger, chain, Gram
  <2>2. /\ worker'[w].at = worker[w].at /\ worker'[w].plan = worker[w].plan
        /\ worker'[w].found = worker[w].found /\ worker'[w].job = worker[w].job
    BY <1>1, <1>12 DEF Calls, Slow
  <2> QED
    BY <1>1, <1>2, <2>1, <2>2 DEF CallCovered, At, Row
<1>13. CASE \/ Acquire(w) \/ SeqnoPassed(w) \/ MarkReady(w) \/ Send(w) \/ Confirm(w) \/ Short(w)
            \/ SendFails(w) \/ Throws(w)
  BY <1>4, <1>13 DEF Acquire, SeqnoPassed, MarkReady, Send, Confirm, Short, SendFails, Throws
<1>14. CASE Defer(w) \/ Release(w) \/ Fail(w) \/ Crash(w)
  BY <1>5, <1>14 DEF Defer, Release, Fail, Crash
<1> QED
  BY <1>6, <1>7, <1>8, <1>9, <1>10, <1>11, <1>12, <1>13, <1>14 DEF Sweep, Disturbs

LEMMA SweepGrows ==
  ASSUME IInv, Typed, Covered, NEW w \in Workers, Sweep(w) \/ Disturbs(w)
  PROVE  RowsGrow
<1> DEFINE n == worker[w].job
<1>1. TypedLedger /\ TypedCalls /\ Call(w) /\ CallCovered(w) /\ worker[w] \in Calls
  BY TypedParts DEF IInv, Covered, TypedCalls
<1>2. ASSUME UNCHANGED sweeps PROVE RowsGrow
  BY <1>2, RowsStay
<1>3. SUFFICES ASSUME ~At(w, "IDLE"), n \in DOMAIN Gram, sweeps' # sweeps
               PROVE  RowsGrow
  BY <1>1, <1>2 DEF Call, At, Sweep, Disturbs, List, Claim, Acquire, Defer, Find, SeqnoPassed,
     ReadBalance, ReadSeqno, MarkReady, Send, MarkSent, Confirm, Release, Short, Fail, SendFails,
     Throws, Crash, Slow
<1>4. PICK r \in Rows : r = Gram[n] /\ r = Row(w)
  BY <1>1, <1>3, JobRow DEF Row
<1>5. ASSUME NEW x, SetRow(w, x), x.plan = r.plan, x.status # "CONFIRMED" \/ r.status = "CONFIRMED"
      PROVE  RowsGrow
  BY <1>1, <1>3, <1>4, <1>5, RowChanges DEF SetRow
<1>6. CASE Claim(w)
  <2>1. PICK s : s = Resumed(r)
    OBVIOUS
  <2>2. r.status \in {"QUEUED", "READY", "SENT", "FAILED"} /\ s # "CONFIRMED"
    BY <1>3, <1>4, <1>6, <2>1 DEF Claim, Resumed
  <2>3. PICK x : x = [r EXCEPT !.status = s, !.owner = w, !.leased = TRUE]
    OBVIOUS
  <2>4. x.plan = r.plan /\ x.status # "CONFIRMED"
    BY <2>2, <2>3 DEF Rows
  <2>5. SetRow(w, x)
    BY <1>3, <1>4, <1>6, <2>1, <2>3 DEF Claim
  <2> QED
    BY <1>5, <2>4, <2>5
<1>7. CASE Defer(w)
  <2>1. PICK x : x = [r EXCEPT !.owner = Nobody, !.leased = TRUE]
    OBVIOUS
  <2>2. x.plan = r.plan /\ x.status = r.status
    BY <2>1 DEF Rows
  <2>3. SetRow(w, x)
    BY <1>3, <1>4, <1>7, <2>1 DEF Defer
  <2> QED
    BY <1>5, <2>2, <2>3
<1>8. CASE MarkReady(w)
  <2>1. PICK p : p = worker[w].plan
    OBVIOUS
  <2>2. Planning(w) /\ SetRow(w, [r EXCEPT !.plan = p]) /\ At(w, "READY")
    BY <1>3, <1>4, <1>8, <2>1 DEF MarkReady
  <2>3. Row(w).plan = NoPlan /\ p.seqno \in Nat
    BY <1>1, <2>1, <2>2 DEF Planning, Call, ToPlan, At
  <2>4. p # NoPlan /\ p.amount + Reserve <= Balance
    BY <1>1, <2>1, <2>2, <2>3 DEF CallCovered, At, NoPlan
  <2>5. PICK x : x = [r EXCEPT !.plan = p]
    OBVIOUS
  <2>6. x.plan = p /\ x.status = r.status
    BY <2>5 DEF Rows
  <2>7. sweeps' = [sweeps EXCEPT !["GRAM"][n] = x]
    BY <2>2, <2>5 DEF SetRow
  <2> QED
    BY <1>1, <1>3, <1>4, <2>4, <2>6, <2>7, RowChanges
<1>9. CASE MarkSent(w)
  <2>1. PICK s : SetRow(w, [r EXCEPT !.status = "SENT", !.sentAt = s])
    BY <1>3, <1>4, <1>9 DEF MarkSent
  <2>2. PICK x : x = [r EXCEPT !.status = "SENT", !.sentAt = s]
    OBVIOUS
  <2>3. x.plan = r.plan /\ x.status = "SENT"
    BY <2>2 DEF Rows
  <2> QED
    BY <1>5, <2>1, <2>2, <2>3
<1>10. CASE Short(w) \/ Fail(w)
  <2>1. PICK x : x = FailedRow(r)
    OBVIOUS
  <2>2. x.plan = r.plan /\ x.status = "FAILED"
    BY <2>1 DEF Rows, FailedRow
  <2>3. SetRow(w, x)
    BY <1>3, <1>4, <1>10, <2>1 DEF Short, Fail, MarkFailed
  <2> QED
    BY <1>5, <2>2, <2>3
<1>11. CASE Crash(w)
  <2>1. PICK x : x = [r EXCEPT !.owner = Forgotten(w, @)]
    OBVIOUS
  <2>2. x.plan = r.plan /\ x.status = r.status
    BY <2>1 DEF Rows
  <2>3. SetRow(w, x)
    BY <1>4, <1>11, <2>1 DEF Crash
  <2> QED
    BY <1>5, <2>2, <2>3
<1>12. CASE Confirm(w)
  <2>1. IsOnChain(n)
    BY <1>1, <1>12 DEF Confirm, CallCovered
  <2>2. PICK x : x = ConfirmedRow(r)
    OBVIOUS
  <2>3. x.plan = r.plan
    BY <2>2 DEF Rows, ConfirmedRow
  <2>4. PICK jobs : jobs = [sweeps EXCEPT !["GRAM"][n] = x]
    OBVIOUS
  <2>5. sweeps' = Reconciled(stage, order, jobs)
    BY <1>3, <1>4, <1>12, <2>2, <2>4 DEF Confirm, AfterConfirm
  <2>6. jobs["GRAM"] = [Gram EXCEPT ![n] = x]
    BY <1>1, <2>4 DEF TypedLedger, Gram, Assets
  <2>7. x \in Rows
    BY <2>2 DEF Rows, ConfirmedRow, Owners
  <2>8. jobs["GRAM"] \in Seq(Rows) /\ DOMAIN jobs["GRAM"] = DOMAIN Gram
    BY <1>1, <1>3, <2>6, <2>7, JobRow, RowWritten
  <2>9. n \in DOMAIN Gram => x.plan = Gram[n].plan /\ (x.status = "CONFIRMED" => IsOnChain(n))
    BY <1>4, <2>1, <2>3
  <2> QED
    BY ONLY <2>5, <2>6, <2>8, <2>9, PlannerGrows
<1> QED
  BY <1>3, <1>6, <1>7, <1>8, <1>9, <1>10, <1>11, <1>12 DEF Sweep, Disturbs, List, Acquire, Find,
     SeqnoPassed, ReadBalance, ReadSeqno, Send, Release, SendFails, Throws, Slow

\* Only the last job has not been confirmed.
LEMMA LastJob ==
  ASSUME Typed, NEW n \in DOMAIN Gram, Gram[n].status # "CONFIRMED"
  PROVE  n = Len(Gram)
<1>1. TypedLedger
  BY TypedParts
<1>2. InTurn(stage, order, "GRAM", Gram)
  BY <1>1 DEF TypedLedger, Settled, Books, Gram, Assets
<1>3. n \in Nat /\ n <= Len(Gram) /\ Len(Gram) \in Nat
  BY <1>1, JobRow, RowsAre
<1> QED
  BY <1>2, <1>3 DEF InTurn

\* A transfer that the wallet would accept is that of the last job, which is not
\* on the blockchain yet.
LEMMA Acceptable ==
  ASSUME IInv, Typed, Covered, NEW m \in pending, m.seqno = wallet
  PROVE  /\ m.job \in DOMAIN Gram /\ ~IsOnChain(m.job) /\ m.job = Len(Gram)
         /\ Gram[m.job].plan # NoPlan /\ m.amount = Gram[m.job].plan.amount
<1>1. /\ Backed(m) /\ InOrder /\ wallet \in Nat
      /\ \A i \in DOMAIN sent : Backed(sent[i])
  BY DEF IInv, Shape, Elements
<1>2. /\ m.job \in DOMAIN Gram /\ Gram[m.job].plan # NoPlan
      /\ m = Message(m.job, Gram[m.job].plan)
  BY <1>1 DEF Backed
<1>3. m.amount = Gram[m.job].plan.amount /\ m.seqno = Gram[m.job].plan.seqno
  BY <1>2 DEF Message
<1>4. ~IsOnChain(m.job)
  <2> SUFFICES ASSUME NEW i \in DOMAIN sent, sent[i].job = m.job PROVE FALSE
    BY DEF IsOnChain
  <2>1. sent[i].seqno = Gram[m.job].plan.seqno
    BY <1>1 DEF Backed, Message
  <2>2. sent[i].seqno \in Nat /\ sent[i].seqno < wallet
    BY <1>1 DEF InOrder
  <2> QED
    BY <1>1, <1>3, <2>1, <2>2
<1>5. Gram[m.job].status # "CONFIRMED"
  BY <1>2, <1>4 DEF Covered, RowCovered
<1> QED
  BY <1>2, <1>3, <1>4, <1>5, LastJob

LEMMA ReserveIsCovered ==
  ASSUME IInv, Typed, Covered
  PROVE  ReserveKept
<1> SUFFICES ASSUME NEW m \in pending, m.seqno = wallet PROVE m.amount + Reserve <= Balance
  BY DEF ReserveKept
<1>1. /\ m.job \in DOMAIN Gram /\ ~IsOnChain(m.job)
      /\ Gram[m.job].plan # NoPlan /\ m.amount = Gram[m.job].plan.amount
  BY Acceptable
<1> QED
  BY <1>1 DEF Covered, RowCovered

\* It takes the coins of its own plan, and nobody else has one.
LEMMA ExecuteCovered ==
  ASSUME IInv, Typed, Covered, NEW m \in pending, Execute(m)
  PROVE  Covered'
<1>1. /\ m.seqno = wallet /\ UNCHANGED <<stage, sweeps, worker>> /\ Gram' = Gram
      /\ sent' = sent \/ sent' = Append(sent, m)
  BY DEF Execute, ledger, Gram
<1>2. /\ m.job \in DOMAIN Gram /\ ~IsOnChain(m.job) /\ m.job = Len(Gram)
      /\ Gram[m.job].plan # NoPlan
  BY <1>1, Acceptable
<1>3. ASSUME NEW n \in DOMAIN Gram, n # m.job
      PROVE  Gram[n].status = "CONFIRMED" /\ IsOnChain(n)
  BY <1>2, <1>3, LastJob DEF Covered, RowCovered
<1>4. CASE sent' = sent
  BY <1>1, <1>4 DEF Covered, RowCovered, CallCovered, IsOnChain, Balance, At, Row
<1>5. CASE sent' = Append(sent, m)
  <2>1. /\ Len(sent) \in Nat /\ DOMAIN sent = 1..Len(sent)
        /\ DOMAIN sent' = 1..(Len(sent) + 1)
        /\ \A k \in DOMAIN sent : sent'[k] = sent[k]
        /\ sent'[Len(sent) + 1] = m
    BY <1>5, Appended DEF IInv, Shape
  <2>2. /\ \A n : IsOnChain(n) => IsOnChain(n)'
        /\ IsOnChain(m.job)'
    BY <2>1 DEF IsOnChain
  <2>3. \A n \in DOMAIN Gram' : RowCovered(n)'
    BY <1>1, <1>3, <2>2 DEF RowCovered
  <2>4. ASSUME NEW w \in Workers PROVE CallCovered(w)'
    <3>1. CallCovered(w) /\ Call(w) /\ worker'[w] = worker[w]
      BY <1>1 DEF Covered, IInv
    <3>2. Row(w).plan # NoPlan \/ worker[w].at \notin {"SEQNO", "READY"}
      <4>1. SUFFICES ASSUME worker[w].at \in {"SEQNO", "READY"}, Row(w).plan = NoPlan
                     PROVE  FALSE
        OBVIOUS
      <4>2. worker[w].job \in DOMAIN Gram /\ worker[w].job # m.job
        BY <1>2, <3>1, <4>1 DEF Call, At, Row
      <4>3. PICK i \in DOMAIN sent : sent[i].job = worker[w].job
        BY <1>3, <4>2 DEF IsOnChain
      <4>4. Backed(sent[i])
        BY DEF IInv, Elements
      <4> QED
        BY <4>1, <4>3, <4>4 DEF Backed, Row
    <3> QED
      BY <1>1, <2>2, <3>1, <3>2 DEF CallCovered, At, Row
  <2> QED
    BY <2>3, <2>4 DEF Covered
<1> QED
  BY <1>1, <1>4, <1>5

LEMMA ArrivalsStay ==
  ASSUME stage \in [Transfers -> Stages], [Next]_vars
  PROVE  Arrived(stage, "GRAM") \in SUBSET Arrived(stage', "GRAM")
<1>1. CASE stage' = stage
  BY <1>1
<1>2. ASSUME NEW t \in Transfers, Arrive(t) \/ Journal(t) \/ Credit(t) \/ CreditToRecovery(t)
      PROVE  Arrived(stage, "GRAM") \in SUBSET Arrived(stage', "GRAM")
  <2>1. PICK s \in {"ARRIVED", "JOURNALED", "CREDITED"} : stage' = [stage EXCEPT ![t] = s]
    BY <1>2 DEF Arrive, Journal, Credit, CreditToRecovery
  <2> QED
    BY <2>1 DEF Arrived, Of
<1> QED
  BY <1>1, <1>2 DEF Next, Ledger, GrantDiscount, Sweep, Disturbs, List, Claim, Acquire, Defer, Find,
     SeqnoPassed, ReadBalance, ReadSeqno, MarkReady, Send, MarkSent, Confirm, Release, Short, Fail,
     SendFails, Throws, Crash, Slow, LeaseEnds, SigningLeaseEnds, JobLeaseEnds, AdminRetry, Execute,
     UsdtSweep, ConfirmUsdt, ledger, vars

LEMMA EnvironmentGrows ==
  ASSUME Typed,
         \/ Ledger
         \/ LeaseEnds
         \/ \E n \in DOMAIN Gram : AdminRetry(n)
         \/ UsdtSweep
         \/ UNCHANGED vars
  PROVE  RowsGrow
<1>1. TypedLedger /\ sweeps \in [Assets -> Seq(Rows)] /\ Gram \in Seq(Rows)
  BY TypedParts DEF TypedLedger, Gram, Assets
<1>2. ASSUME UNCHANGED sweeps PROVE RowsGrow
  BY <1>2, RowsStay
<1>3. ASSUME NEW st, NEW status, sweeps' = Reconciled(st, status, sweeps) PROVE RowsGrow
  <2>1. sweeps["GRAM"] = Gram /\ 0 \notin DOMAIN Gram
    BY <1>1, RowsAre DEF Gram
  <2>2. PICK n : n \notin DOMAIN Gram
    BY <2>1
  <2> QED
    BY <1>1, <1>3, <2>1, <2>2, PlannerGrows
<1>4. CASE Ledger
  BY <1>2, <1>3, <1>4 DEF Ledger, Arrive, Journal, Credit, CreditToRecovery, GrantDiscount
<1>5. CASE UsdtSweep
  <2>1. PICK x, n : sweeps' = Reconciled(stage, order, [sweeps EXCEPT !["USDT"][n] = x])
    BY <1>5 DEF UsdtSweep, ConfirmUsdt
  <2>2. PICK jobs : jobs = [sweeps EXCEPT !["USDT"][n] = x]
    OBVIOUS
  <2>3. jobs["GRAM"] = Gram
    BY <1>1, <2>2 DEF Gram, Assets
  <2>4. 0 \notin DOMAIN Gram
    BY <1>1, RowsAre
  <2> QED
    BY <1>1, <2>1, <2>2, <2>3, <2>4, PlannerGrows
<1>6. ASSUME NEW n \in DOMAIN Gram, JobLeaseEnds(n) \/ AdminRetry(n) PROVE RowsGrow
  <2>1. PICK r \in Rows : r = Gram[n]
    BY <1>1, JobRow
  <2>2. CASE JobLeaseEnds(n)
    <3>1. PICK x : x = [r EXCEPT !.leased = FALSE]
      OBVIOUS
    <3>2. x.plan = r.plan /\ x.status = r.status
      BY <3>1 DEF Rows
    <3>3. sweeps' = [sweeps EXCEPT !["GRAM"][n] = x]
      BY <2>1, <2>2, <3>1 DEF JobLeaseEnds, Gram
    <3> QED
      BY <1>1, <2>1, <3>2, <3>3, RowChanges
  <2>3. CASE AdminRetry(n)
    <3>1. PICK s : s = Resumed(r)
      OBVIOUS
    <3>2. PICK x : x = [r EXCEPT !.status = s, !.owner = Nobody, !.leased = FALSE]
      OBVIOUS
    <3>3. x.plan = r.plan /\ x.status # "CONFIRMED"
      BY <2>1, <2>3, <3>1, <3>2 DEF Rows, Resumed, AdminRetry
    <3>4. sweeps' = [sweeps EXCEPT !["GRAM"][n] = x]
      BY <2>1, <2>3, <3>1, <3>2 DEF AdminRetry, Gram
    <3> QED
      BY <1>1, <2>1, <3>3, <3>4, RowChanges
  <2> QED
    BY <1>6, <2>2, <2>3
<1> QED
  BY <1>2, <1>4, <1>5, <1>6 DEF LeaseEnds, SigningLeaseEnds, vars

LEMMA CoveredInit == Init => Covered
<1> SUFFICES ASSUME Init PROVE Covered
  OBVIOUS
<1>1. DOMAIN Gram = {} /\ \A w \in Workers : worker[w] = Idle
  BY DEF Init, LedgerInit, Gram, Assets
<1> QED
  BY <1>1 DEF Covered, CallCovered, Idle, At

LEMMA CoveredStep == IInv /\ Typed /\ Covered /\ Typed' /\ [Next]_vars => Covered'
<1> SUFFICES ASSUME IInv, Typed, Covered, Typed', [Next]_vars PROVE Covered'
  OBVIOUS
<1>1. /\ TypedLedger' /\ TypedCalls'
      /\ Arrived(stage, "GRAM") \in SUBSET Arrived(stage', "GRAM")
  <2>1. (TypedLedger /\ TypedCalls)'
    BY TypedParts, PTL
  <2> QED
    BY <2>1, TypedParts, ArrivalsStay DEF TypedLedger
<1>2. ASSUME NEW w \in Workers, Sweep(w) \/ Disturbs(w) PROVE Covered'
  <2>1. UNCHANGED sent /\ worker \in [Workers -> Calls]
    BY <1>2, TypedParts DEF TypedCalls, Sweep, Disturbs, List, Claim, Acquire, Defer, Find,
       SeqnoPassed, ReadBalance, ReadSeqno, MarkReady, Send, MarkSent, Confirm, Release, Short, Fail,
       SendFails, Throws, Crash, Slow, chain
  <2>2. \A v \in Workers \ {w} : worker'[v] = worker[v]
    BY <1>2, <2>1, StepsTyped DEF CallMoves
  <2> QED
    BY <1>1, <1>2, <2>1, <2>2, CallsCovered, SweepGrows, CoverStays, {w} \in SUBSET Workers
<1>3. ASSUME NEW m \in pending, Execute(m) PROVE Covered'
  BY <1>3, ExecuteCovered
<1>4. CASE \/ Ledger /\ UNCHANGED <<chain, signing, worker, faults>>
           \/ LeaseEnds
           \/ \E n \in DOMAIN Gram : AdminRetry(n)
           \/ UsdtSweep
           \/ UNCHANGED vars
  <2>1. UNCHANGED <<sent, worker>>
    BY <1>4 DEF LeaseEnds, SigningLeaseEnds, JobLeaseEnds, AdminRetry, UsdtSweep, vars, chain
  <2>2. RowsGrow
    BY <1>4, EnvironmentGrows
  <2> QED
    BY <1>1, <2>1, <2>2, CoverStays, {} \in SUBSET Workers
<1> QED
  BY <1>2, <1>3, <1>4 DEF Next

\* A plan finds the coins it was made for, and leaves the reserve, whenever the
\* wallet accepts it: jobs are planned one at a time, and only the one before
\* could have taken them (reconcileAutomaticAssetSweeps, sweepTonDepositAddress).
THEOREM ReserveStays == Spec => []ReserveKept
<1>1. Spec => [](IInv /\ Typed /\ Covered)
  BY TypedHolds, CoveredInit, CoveredStep, PTL DEF Spec
<1> QED
  BY <1>1, ReserveIsCovered, PTL
=============================================================================
