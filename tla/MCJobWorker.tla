---------------------------- MODULE MCJobWorker ----------------------------
(* Small instances of JobWorker for TLC.                                   *)
EXTENDS JobWorker, TLC

OneKind == [j \in Jobs |-> "translate"]
ByParity == [j \in Jobs |-> IF j % 2 = 1 THEN "translate" ELSE "extract"]
NoManual == {}
LastManual == {j \in Jobs : \A i \in Jobs : i <= j}
One == [k \in Kinds |-> 1]
Two == [k \in Kinds |-> 2]
RunSymmetry == Permutations(Runs)
=============================================================================
