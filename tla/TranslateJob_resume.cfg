SPECIFICATION FairSpec
CONSTANTS
  NCues = 3
  BatchSize = 2
  CrowdLimit = 2
  BatchModels = {2}
  Candidates = 3
  InTask = FALSE
  MaxRestarts = 1
INVARIANTS WrittenComplete CompletedDelivered ResumeSkipsDone RequestsBounded
PROPERTIES CancelRespected JobEnds
CHECK_DEADLOCK FALSE
