SPECIFICATION Spec
CONSTANTS
    r1 = r1
    None = None
    Roster = {r1}
    Player <- Players
    Position <- Positions
    Game <- Games
    FirstSquad <- Squads
    RosterConfig <- Config
    Line <- Lines
    Projection <- Projections
    Whole = 2
    Moves = 1
    Wanted = {"RB", "FLEX", "BN"}

    
PROPERTIES
    BestLineup
VIEW WithoutPoints
ACTION_CONSTRAINT InOrder
CHECK_DEADLOCK FALSE
