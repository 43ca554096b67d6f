SPECIFICATION HealthPlansSpec
CONSTANTS
    FailStreak = 2
    SlowMs = 4
    Forever = 9
    Snapshot <- MCSnapshot
    Route <- MCRoute
    TagSet <- MCTagSet
    Standing <- MCStanding
    Hash = {0, 1}
    MaxTurn = 4
    w1 = w1
    w2 = w2
    Worker = {w1, w2}
    Sample = {0, 1, 4, 6}
    BanLengths = {0, 2}
    MaxBan = 2
    LastInstant = 2
    MaxOps = 3
SYMMETRY WorkerSym
CHECK_DEADLOCK FALSE
INVARIANTS
    AvgWithinSamples
    SlowNeedsEvidence
    BanWithinHorizon
    PlanIsFull
    BetterTierFirst
    ReserveAfterAllOthers
    RoundRobinIsFair
    FallbackIsTheRest
