SPECIFICATION FairSpec
CONSTANTS
  Gpus = {g1}
  Rigs = FALSE
  QueueCap = 1
  DiskFails = TRUE
  MaxGen = 2
  MaxFound = 2
  MaxFaults = 1
PROPERTY WinnersHandled
PROPERTY MiningResumes
PROPERTY ShutdownEnds
