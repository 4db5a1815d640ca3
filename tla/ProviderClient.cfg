SPECIFICATION FairSpec
CONSTANTS
    c1 = c1
    c2 = c2
    Callers <- MCCallers
    MaxRetries = 2
    MaxErrors = 3
INVARIANTS
    OutcomeExplained
    BackoffDoubles
PROPERTIES
    EveryTurnEnds
