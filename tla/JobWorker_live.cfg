SPECIFICATION FairSpec
CONSTANTS
  Jobs = {1, 2}
  Kinds = {"translate"}
  KindOf <- OneKind
  Manual <- LastManual
  Limit <- One
  Runs = {r1}
  Threads = {t1}
  Ops = {"cancel"}
  MaxRestarts = 1
  None = None
PROPERTIES EveryRunEnds EveryJobServed
CHECK_DEADLOCK FALSE
