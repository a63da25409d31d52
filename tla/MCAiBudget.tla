----------------------------- MODULE MCAiBudget -----------------------------
(* Small instances of AiBudget for TLC.                                    *)
EXTENDS AiBudget, TLC

CONSTANTS big, small, free, manual

\* paid_first: the expensive model, then the cheap one, then the free one.
PaidFirst == [m \in Models |-> CASE m = big -> 1 [] m = small -> 2 [] OTHER -> 3]
Prices == [m \in Models |-> CASE m = big -> 2 [] m = small -> 1 [] OTHER -> 0]
\* Automatic jobs differ in nothing but their name.
AutomaticJobs == Permutations(Jobs \ {manual})
=============================================================================
