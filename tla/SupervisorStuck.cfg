SPECIFICATION FairSpec
CONSTANTS
  Gpus = {g1}
  Rigs = FALSE
  QueueCap = 1
  DiskFails = TRUE
  MaxGen = 1
  MaxFound = 1
  MaxFaults = 1
PROPERTY HeldResolves
