CONSTANTS
  Coins <- MCCoins
  Servers = {a, b}
  MaxQuotes = 2
  MaxClaims = 0
  MaxFaults = 0
  MarkFails = FALSE
SPECIFICATION Spec
INVARIANTS
  ApprovedWasShown
