CONSTANTS
  Coins <- MCCoins
  Servers = {a, b}
  MaxQuotes = 1
  MaxClaims = 1
  MaxFaults = 1
  MarkFails = FALSE
SPECIFICATION Spec
INVARIANTS
  NeverBoth
CHECK_DEADLOCK FALSE
