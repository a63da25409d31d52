SPECIFICATION Spec
CONSTANTS
  Jobs = {auto1, auto2, manual}
  Manual = {manual}
  Override = TRUE
  Models = {big, small}
  Rank <- PaidFirst
  Paid = {big, small}
  Estimate <- Prices
  Cost <- Prices
  Limit = 2
  LastMonth = 2
  MaxRows = 3
  MaxCrashes = 1
  None = None
  big = big
  small = small
  free = free
  manual = manual
INVARIANTS BudgetRespected HoldKept
SYMMETRY AutomaticJobs
CHECK_DEADLOCK FALSE
