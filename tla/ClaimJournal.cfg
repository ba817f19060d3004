SPECIFICATION FairSpec
CONSTANTS
  Claims = {1, 2}
  Rivals = {3, 4}
  Genesis = g
  None = None
  LineageSteps = 1
  MaxFaults = 1
INVARIANT TypeOK
INVARIANT SentIsMarked
INVARIANT BroadcastOnce
INVARIANT NoOrphanMarker
INVARIANT ConfirmedIsAccepted
INVARIANT MinesAcceptedBaton
PROPERTY ResolvedBeforeForgotten
PROPERTY AcceptedResolves
