SPECIFICATION FairSpec
CONSTANTS
  r1 = r1
  r2 = r2
  Nobody = Nobody
  Roster = {r1, r2}
  Player <- MCPlayers
  Order <- MCOrder
  Rounds = 2
  Snake = TRUE
  Managed = {r1}
  Tradable = {3}
  Overnight = TRUE
ACTION_CONSTRAINT NextFree
INVARIANTS
  CounterMatchesBoard
  ClockRuns
PROPERTIES
  KeepsBoard
  
