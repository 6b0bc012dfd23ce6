SPECIFICATION FairSetupSpec
CONSTANTS
    Rosters = {1, 2, 3}
    Structures <- AllStructures
    Kinds <- RookieDraft
    Policies = {"AUTO_RANDOM_SLOT", "PUSH_BACK_ONE", "PUSH_TO_END"}
    RoundChoices = {1, 2}
    RookieChoices <- Rookies
    Future = {1}
    MaxDrafts = 3
    Budgets <- Mixes
INVARIANTS
    DerbyInOrder

    
    
CHECK_DEADLOCK FALSE
