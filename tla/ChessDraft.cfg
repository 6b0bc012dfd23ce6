SPECIFICATION Spec
CONSTANTS
    r1 = r1
    r2 = r2
    rookie = rookie
    None = None
    Roster = {r1, r2}
    Slot <- OneRound
    Teams = 2
    Player <- Players
    Asset = {rookie}
    FirstOwner <- RookieOwner
    Tradable = {2}
    Queueable = {1, 2}
    Budget = 2
    MinPick = 1
    Stale = FALSE
    MaxElapsed = 2
    MaxClock = 3
    MaxQueue = 2
INVARIANTS
    OneBoard
    
PROPERTIES
    OnlyTheClockPays
CHECK_DEADLOCK FALSE
