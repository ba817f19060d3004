SPECIFICATION FairSpec
CONSTANTS
  Sources = 2
  Modes = {"own", "declared", "p2pool"}
  MaxTip = 1
  MaxEvents <- MCEvents
INVARIANTS SameWork
PROPERTIES PublishesNewest WorkReturns
CHECK_DEADLOCK FALSE
