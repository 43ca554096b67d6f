SPECIFICATION FairSpec
CONSTANTS
    FailStreak = 1
    SlowMs = 2
    Forever = 9
    p1 = p1
    p2 = p2
    r1 = r1
    t1 = t1
    t2 = t2
    Route = {r1}
    Proxy = {p1, p2}
    Pairs <- OneRoutePairs
    List <- TwoProxies
    Classify = {r1}
    Interval = 2
    BanMs = 4
    Cap = 1
    Task = {t1, t2}
    Horizon = 3
    MaxEvents = 2
    None = None
CHECK_DEADLOCK FALSE
INVARIANTS
    ProbesFollowTheInterval
    PermitsAreConserved
PROPERTIES
    RouteWalkEnds
    ReachableIsRestored
