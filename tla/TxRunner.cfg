SPECIFICATION RequestsSpec
CONSTANTS
  Caller = {c1, c2}
  Client = {k1, k2}
  Event = {e1}
  MaxNested = 1
  NamespaceWidth = 100000000
  WantSets <- MCWantSets
  Attempts = 3
  NoRow = NoRow
INVARIANTS
  BodiesExclusive
  NoWaitCycle
  EventsFollowOutcome
  NothingLeaks
  OnceUnlessDisturbed
  ReplayedSuccessIsReal
PROPERTIES
  CallsEnd
CHECK_DEADLOCK FALSE
