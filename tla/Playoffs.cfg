CONSTANTS
    p1 = p1
    p2 = p2
    Null = Null
    Requests <- Pool
    PlayoffTeams = 6
    ConsolationTeams = 4
    EnableThirdPlace = TRUE
    WeeksByRound <- TwoWeekRounds6
    StartWeek = 1
    Outcomes <- EitherSide
    MaxFinalizers = 1
    MaxBrackets = 2
SPECIFICATION FairBracketSpec
INVARIANT OneGameAWeek
INVARIANT GamesHaveBracket
 
 
CHECK_DEADLOCK FALSE
