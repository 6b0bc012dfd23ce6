SPECIFICATION FairSpec
CONSTANTS
    u1 = u1
    u2 = u2
    u3 = u3
    None = None
    User = {u1, u2, u3}
    Founder = u1
    FirstId = 5
    Totals = {2, 3}
    Public = TRUE
    Weeks = 3
    Played = {1}
    Points = {0, 1}
    NflWeeks = 3
    Year = 2024
    ResetYears = {2025}
    RowStatuses = {"pre_draft", "in_season"}
    Budgets <- Mixes

    
PROPERTIES
    
    
    
    WeekFollowsNfl
CHECK_DEADLOCK FALSE
