CONSTANTS
  Coins <- MCCoins
  Servers = {a, b}
  MaxQuotes = 1
  MaxClaims = 1
  MaxFaults = 2
  MarkFails = FALSE
SPECIFICATION FairSpec
PROPERTY SendResolves
INVARIANTS
  AbandonedIsDead
  ClaimXorSend
CHECK_DEADLOCK FALSE
