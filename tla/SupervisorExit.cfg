SPECIFICATION Spec
CONSTANTS
  Gpus = {g1}
  Rigs = FALSE
  QueueCap = 1
  DiskFails = FALSE
  MaxGen = 2
  MaxFound = 2
  MaxFaults = 0
INVARIANT ShutdownKeepsWinners
