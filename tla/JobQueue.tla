------------------------------ MODULE JobQueue ------------------------------
(***************************************************************************)
(* What the job queue and its worker promise together, without saying how: *)
(* a job is queued, executed by one coroutine at a time, and settled once. *)
(* An execution that dies or is abandoned puts the job back in the queue;  *)
(* an execution may outlive the settlement of its job (a rescan, a         *)
(* verification, the unwinding of a cancelled coroutine).                  *)
(***************************************************************************)
CONSTANT Jobs

VARIABLES
  stage,   \* where each job is
  busy     \* the jobs a coroutine is executing or about to execute

Stages == {"none", "queued", "running", "settled"}

TypeOK == stage \in [Jobs -> Stages] /\ busy \subseteq Jobs

Init == stage = [j \in Jobs |-> "none"] /\ busy = {}

Submit(j) ==
  /\ stage[j] = "none"
  /\ stage' = [stage EXCEPT ![j] = "queued"]
  /\ UNCHANGED busy

\* Only a queued job that nothing executes any more is taken up.
Begin(j) ==
  /\ stage[j] = "queued" /\ j \notin busy
  /\ stage' = [stage EXCEPT ![j] = "running"]
  /\ busy' = busy \cup {j}

Settle(j) ==
  /\ stage[j] \in {"queued", "running"}
  /\ stage' = [stage EXCEPT ![j] = "settled"]
  /\ busy' \in {busy, busy \ {j}}

Vacate(S) ==
  /\ S # {}
  /\ busy' = busy \ S
  /\ UNCHANGED stage

\* Jobs whose execution is gone return to the queue, others never do.
Requeue(S) ==
  /\ S # {} /\ S \cap busy = {}
  /\ \A j \in S : stage[j] = "running"
  /\ stage' = [j \in Jobs |-> IF j \in S THEN "queued" ELSE stage[j]]
  /\ UNCHANGED busy

Next ==
  \/ \E j \in Jobs : Submit(j) \/ Begin(j) \/ Settle(j)
  \/ \E S \in SUBSET Jobs : Vacate(S) \/ Requeue(S)

Spec == Init /\ [][Next]_<<stage, busy>>
=============================================================================
