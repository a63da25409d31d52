--------------------------- MODULE MCTaskPlanner ---------------------------
(* Instances of TaskPlanner for TLC.                                       *)
EXTENDS TaskPlanner, TLC

\* A source inside the media; a source Bazarr must search for, else the audio.
Inside == [embedded |-> TRUE, requestable |-> FALSE, transcribable |-> FALSE,
           cached |-> FALSE, manual |-> TRUE]
Elsewhere == [embedded |-> FALSE, requestable |-> TRUE, transcribable |-> TRUE,
              cached |-> FALSE, manual |-> FALSE]
SafetyCases == {Inside, Elsewhere}
LiveCases == {Inside, Elsewhere, [Elsewhere EXCEPT !.manual = TRUE]}

PlannerSymmetry == Permutations(Planners)
=============================================================================
