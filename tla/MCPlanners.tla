----------------------------- MODULE MCPlanners -----------------------------
(* The planner of subtitle tasks and that of audio tasks, one run for both: *)
(* a behaviour is a behaviour of one, the other rests.                      *)
EXTENDS MCTaskPlanner, AudioTask

VARIABLE part

PlannersInit ==
  /\ part \in {"subtitles", "audio"} /\ Init /\ ApInit
  /\ part = "audio" => given = CHOOSE g \in Cases : TRUE

PlannersNext ==
  /\ UNCHANGED part
  /\ \/ part = "subtitles" /\ Next /\ UNCHANGED apVars
     \/ part = "audio" /\ ApNext /\ UNCHANGED vars

PlannersSpec ==
  PlannersInit /\ [][PlannersNext]_<<part, vars, apVars>> /\ Fairness /\ ApFair
-----------------------------------------------------------------------------
\* Whatever fails, crashes or is cancelled job by job, a task that the planner
\* owes a move is moved, be it to a failure the user sees.
TasksAdvance == ProcessingAdvances /\ ApAdvances
=============================================================================
