SPECIFICATION Spec
CONSTANTS
  Gpus = {g1}
  Rigs = FALSE
  QueueCap = 1
  DiskFails = FALSE
  MaxGen = 1
  MaxFound = 1
  MaxFaults = 0
PROPERTY PayoutKeepsWinners
