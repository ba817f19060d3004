SPECIFICATION Spec
CONSTANTS
  Modes = {"declared"}
  MaxGen <- MCTokens
  MaxParent = 1
  MaxTokens <- MCTokens
  MaxSessions = 1
  MaxShares = 2
  MaxFaults = 1
  QueueCap = 3
  CacheCap = 1
  KeptJobs = 2
  ActiveJobs = 2
PROPERTY
  AcceptedFirst
CHECK_DEADLOCK FALSE
