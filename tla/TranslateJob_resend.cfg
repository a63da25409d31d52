SPECIFICATION Spec
CONSTANTS
  NCues = 3
  BatchSize = 2
  CrowdLimit = 2
  BatchModels = {2}
  Candidates = 2
  InTask = FALSE
  MaxRestarts = 1
INVARIANT NothingResent
CHECK_DEADLOCK FALSE
