SPECIFICATION PlannersSpec
CONSTANTS
  Planners = {p1}
  Cases <- LiveCases
  VerifyMax = 2
  EnqueueMax = 2
  Sources = {TRUE, FALSE}
  Events = {"target", "source", "cooldown", "cancelJob"}
  MaxJobs = 8
  MaxFutile = 2
  MaxRetries = 1
  ApTasks = 2
  ApJobs = 2
  None = None
 
PROPERTY TasksAdvance
CHECK_DEADLOCK FALSE
