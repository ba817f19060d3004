SPECIFICATION FairSpec
CONSTANTS
  Claims = {1}
  Rivals = {}
  Genesis = g
  None = None
  LineageSteps = 1
  MaxFaults = 1
PROPERTY JournalResolves
