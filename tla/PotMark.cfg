CONSTANTS
  Coins <- MCCoins
  Servers = {a, b}
  MaxQuotes = 1
  MaxClaims = 1
  MaxFaults = 2
  MarkFails = TRUE
SPECIFICATION Spec
INVARIANTS
  AbandonedIsDead
CHECK_DEADLOCK FALSE
