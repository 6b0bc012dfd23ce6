SPECIFICATION Spec
CONSTANTS
  f1 = f1
  f2 = f2
  d1 = d1
  d2 = d2
  None = None
  Roster = {1, 2}
  Player = {f1, f2, d1, d2}
  Offers <- MCOffers
  Bids = {2}
  Adds <- MCAdds
  Drops <- MCDrops
  InitRows <- MCRows
  InitBudget = 2
  InitPrio <- MCPrio
  MaxSize = 2
  MaxClaims = 3
  MaxHour = 2
  MaxAsked = 1
INVARIANTS
  BudgetsBalance
  OutbidByBetter
PROPERTIES
  DecidedOnce
  WinsAreReal
