SPECIFICATION FairSpec
CONSTANTS
    FailStreak = 1
    SlowMs = 2
    Forever = 9
    Snapshot <- MCSnapshot
    Tags <- MCTags
    RouteDef <- Routes
    Override = {{"anon"}}
    Status = {200, 503}
    Latency = {1, 3}
    MaxHardAttempts = 2
    StartDown = {}
    MaxElsewhere = 1
    None = None
CHECK_DEADLOCK FALSE
INVARIANTS
    ParallelWithinLimit
    AttemptBudget
    ExhaustedMeansTried
PROPERTIES
    RecordsOnlyWhileRunning
    OnlyBodiesHoldTheAnswer
