SPECIFICATION Spec
CONSTANTS
  Jobs = {1, 2}
  Kinds = {"translate"}
  KindOf <- OneKind
  Manual <- LastManual
  Limit <- Two
  Runs = {r1, r2}
  Threads = {t1}
  Ops = {"cancel"}
  MaxRestarts = 1
  None = None
INVARIANT NoDoubleRun
PROPERTIES FinishedStaysFinished ImplementsJobQueue
CHECK_DEADLOCK FALSE
SYMMETRY RunSymmetry
