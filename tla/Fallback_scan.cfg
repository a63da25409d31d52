SPECIFICATION FairSpec
CONSTANTS
  MaxRows = 3
  MaxRetries = 1
  Grace = 1
  Cooldown = 1
  MaxPolls = 2
  MaxCalls = 1
  Starts <- FirstTitles
  MaxEvents = 1
  Users = {"create", "retry", "cancel", "sync", "toggle", "clear"}
  None = None
INVARIANT FallbackSafe
PROPERTIES NoFutileTranslation Settles
CHECK_DEADLOCK FALSE
