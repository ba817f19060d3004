SPECIFICATION Spec
CONSTANTS
  Gpus = {g1, g2}
  Rigs = TRUE
  QueueCap = 1
  DiskFails = TRUE
  MaxGen = 2
  MaxFound = 2
  MaxFaults = 1
SYMMETRY Symmetric
INVARIANT TypeOK
INVARIANT WinnersAccounted
INVARIANT HeldWhilePending
INVARIANT JournalIsOwned
PROPERTY JobKeptWhileClaiming
