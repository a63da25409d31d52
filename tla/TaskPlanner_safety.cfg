SPECIFICATION Spec
CONSTANTS
  Planners = {p1, p2}
  Cases <- SafetyCases
  VerifyMax = 1
  EnqueueMax = 1
  Sources = {FALSE}
  Events = {"cancel", "cooldown", "cancelJob"}
  MaxJobs = 3
  MaxFutile = 1
  MaxRetries = 1
  None = None
INVARIANTS OneOpenJobPerKind CompletedIsListed
PROPERTIES NothingRedone CancelledStays
SYMMETRY PlannerSymmetry
CHECK_DEADLOCK FALSE
