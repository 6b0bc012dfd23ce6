SPECIFICATION FairSpec
CONSTANTS
  a1 = a1
  b1 = b1
  c1 = c1
  r1 = r1
  r2 = r2
  p1 = p1
  p2 = p2
  Nobody = Nobody
  Trade = {a1, b1, c1}
  Roster = {r1, r2}
  Player = {p1, p2}
  Voter = {v1}
  Tx = {x1, x2}
  MaxSize = 1
  VetoThreshold = 1
  Items <- MCItems
  Requests <- MCRequests
  InitStatus <- MCInitStatus
  InitOwner <- MCInitOwner
INVARIANTS
  VetoStops
PROPERTIES
  
  PendingEnds
