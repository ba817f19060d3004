SPECIFICATION Spec
CONSTANTS
  g1 = g1
  g2 = g2
  j1 = j1
  j2 = j2
  j3 = j3
  Gpus <- OneGpu
  Jobs <- ThreeJobs
  FirstJob = j1
  Refused <- NoneRefused
  MaxCalls = 2
  MaxFaults = 2
INVARIANTS NeverAnOldJob
CHECK_DEADLOCK FALSE
