SPECIFICATION Spec
CONSTANTS
  Claims = {1, 2}
  Rivals = {}
  Genesis = g
  None = None
  LineageSteps = 1
  MaxFaults = 0
PROPERTY KeepsSuccessor
