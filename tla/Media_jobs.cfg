SPECIFICATION MediaSpec
CONSTANTS
  ExAttempts = 2
  ExCues = 2
  SepMedia <- MediaSome
  DubRuns = 2
  DubCues = 2
  DubRecycles = {0, 1}
  TrJobs = 2
  TrChunks = 2
  TrSegments = 2
  VlChars = {"a"}
  VlCues = 3
  VlLabel <- MediaLabel
  VlRefs = 1
  VlRuns = {1, 2}
INVARIANTS MediaTypeOK  SepSafe 
PROPERTIES  DubDelivers TrSafe VlDubCovered MediaEnds
CHECK_DEADLOCK FALSE
