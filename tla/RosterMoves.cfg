SPECIFICATION Spec
CONSTANTS
  r1 = r1
  r2 = r2
  p1 = p1
  p2 = p2
  p3 = p3
  None = None
  Roster = {r1, r2}
  Player = {p1, p2, p3}
  Tx = {t1, t2, t3}
  MaxSize = 2
  InitRows <- MCInitRows
  Ops <- MCOps
SYMMETRY Symmetry
INVARIANTS
  OwnersFromDifferentLocks
PROPERTIES
  TradesDeliver
