---------------------------- MODULE SweepPromise ----------------------------
(***************************************************************************)
(* What a sweep worker promises of a job, apart from how it gets there:    *)
(* the job moves its coins at most once, it is confirmed only after it has *)
(* moved them and then for good, and it does not stay open for ever: what  *)
(* cannot be confirmed fails and is handed to an operator.                 *)
(***************************************************************************)
EXTENDS Naturals

CONSTANT Jobs

VARIABLES
  moves,    \* moves[j]: how many transfers the blockchain has of job j
  outcome   \* outcome[j]: ABSENT, OPEN, FAILED or CONFIRMED

Init ==
  /\ moves = [j \in Jobs |-> 0]
  /\ outcome \in [Jobs -> {"ABSENT", "OPEN"}]

Queue(j) ==
  /\ outcome[j] = "ABSENT"
  /\ outcome' = [outcome EXCEPT ![j] = "OPEN"]
  /\ UNCHANGED moves

Move(j) ==
  /\ moves[j] = 0
  /\ moves' = [moves EXCEPT ![j] = 1]
  /\ UNCHANGED outcome

\* A confirmation may open the deposit's next job.
Confirm(j) ==
  /\ outcome[j] = "OPEN" /\ moves[j] = 1
  /\ \/ outcome' = [outcome EXCEPT ![j] = "CONFIRMED"]
     \/ \E k \in Jobs : outcome[k] = "ABSENT"
                     /\ outcome' = [outcome EXCEPT ![j] = "CONFIRMED", ![k] = "OPEN"]
  /\ UNCHANGED moves

Fail(j) ==
  /\ outcome[j] = "OPEN"
  /\ outcome' = [outcome EXCEPT ![j] = "FAILED"]
  /\ UNCHANGED moves

Retry(j) ==
  /\ outcome[j] = "FAILED"
  /\ outcome' = [outcome EXCEPT ![j] = "OPEN"]
  /\ UNCHANGED moves

Next == \E j \in Jobs : Queue(j) \/ Move(j) \/ Confirm(j) \/ Fail(j) \/ Retry(j)

Safety == Init /\ [][Next]_<<moves, outcome>>

Spec ==
  /\ Safety
  /\ \A j \in Jobs : WF_<<moves, outcome>>(Confirm(j) \/ Fail(j))
=============================================================================
