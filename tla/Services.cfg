SPECIFICATION ServicesSpec
CONSTANTS
  UsJobs = {1, 2}
  UsCalls = 1
  UsItems = 2
  UsFaults = 2
  PoModels = {"a", "b"}
  PoFreeNamed = {"a"}
  PoMaxPrio = 2
  CaCallers = {1, 2}
  OpRequests = {1, 2}
  OpMaxTurns = 2
  OpCalls = 2
  OpPosts = 2
  StLengths = {9, 14}
  StUtterances = 2
  StWords = 3
  StChunk = 7
  StOverlap = 2
  StSpeech = 3
  StLine = 5
  StLines = 2
  StRate = 2
  StSecond = 1
  StMin = 2
  StMax = 5
  StGap = 1
  StSlack = 1
  StLong = 3
  StSizes = {1, 3, 7}
  StPauses = {0, 3}
  StSpans = {1, 2}
  EvStreams = {"s1", "s2"}
  EvPublishers = {"loop", "thread"}
  EvMax = 2
INVARIANTS ServicesSafe UsOnce    CaFetchedOnce
PROPERTIES  PoStrategyKept
CHECK_DEADLOCK FALSE
