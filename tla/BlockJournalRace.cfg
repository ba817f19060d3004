SPECIFICATION Spec
CONSTANTS
  d1 = d1
  d2 = d2
  b1 = b1
  b2 = b2
  b3 = b3
  Node = node
  NoOne = nobody
  NoBlock = noblock
  Devices <- MCDevices
  Blocks <- MCBlocks
  ParentOf <- MCParentOf
  MaxPending = 1
  MaxReceipts = 1
  RecentParents = 1
SYMMETRY DeviceSymmetry
INVARIANT
  AckedParentIsSaved
