SPECIFICATION FairSpec
CONSTANTS
  r1 = r1
  r2 = r2
  Nobody = Nobody
  Setups <- MCSetups
  Order <- MCOrder
  Player = {p1, p2}
  Bids = {1, 2}
  Total = 3
  Slots = 2
  MinBid = 1
  Increment = 1
  NominationTicks = 1
  ResetTicks = 1
  WindowTicks = 1
  LongestLot = 2
  MaxActivePerTeam = 2
  BudgetQueryRuns = TRUE
  MaxLots = 2
  MaxRequests = 2
  MaxCrashes = 1
CHECK_DEADLOCK FALSE
INVARIANTS
  SpentWithinBudget
PROPERTIES
  FastWinnerPaysWithinBid
  
