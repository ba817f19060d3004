SPECIFICATION FairSpec
CONSTANTS
  Coords = {1, 2}
  MaxWinners = 1
  MaxQueued = 1
  LinkCap = 1
  MaxHeight = 1
  MaxTx = 2
  MaxJobs = 2
  MaxWindows = 1
  MaxFaults = 1
INVARIANTS TypeOK ProofIsKept
PROPERTY Delivered
CHECK_DEADLOCK FALSE
