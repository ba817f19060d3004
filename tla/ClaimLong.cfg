SPECIFICATION FairSpec
CONSTANTS
  Claims = {1}
  Rivals = {3, 4}
  Genesis = g
  None = None
  LineageSteps = 1
  MaxFaults = 1
PROPERTY AlwaysResolves
