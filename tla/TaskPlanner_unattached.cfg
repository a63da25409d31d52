SPECIFICATION Spec
CONSTANTS
  Planners = {p1}
  Cases <- LiveCases
  VerifyMax = 2
  EnqueueMax = 2
  Sources = {FALSE}
  Events = {"cancel"}
  MaxJobs = 2
  MaxFutile = 1
  MaxRetries = 0
  None = None
PROPERTY CancelStopsExecutions
CHECK_DEADLOCK FALSE
