SPECIFICATION Spec
CONSTANTS
  Modes = {"declared"}
  MaxGen <- MCGen
  MaxParent = 1
  MaxTokens <- MCP2PoolTokens
  MaxSessions = 2
  MaxShares = 2
  MaxFaults = 1
  QueueCap = 3
  CacheCap = 1
  KeptJobs = 2
  ActiveJobs = 2
PROPERTY
  AlwaysAccepted
CHECK_DEADLOCK FALSE
