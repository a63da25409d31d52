SPECIFICATION Spec
CONSTANTS
  Jobs = {1}
  Kinds = {"translate"}
  KindOf <- OneKind
  Manual <- NoManual
  Limit <- Two
  Runs = {r1, r2, r3}
  Threads = {t1}
  Ops = {"cancel", "cancelTask", "pause", "resume"}
  MaxRestarts = 1
  None = None
INVARIANT SlotLimit
CHECK_DEADLOCK FALSE
SYMMETRY RunSymmetry
