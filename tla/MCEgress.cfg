SPECIFICATION EgressSpec
CONSTANTS
    N = 2
    Task = {t1, t2}
    Threshold = 1
    Cooldown = 2
    Interval = 3
    Replies <- MCReplies
    MaxTime = 3
    MaxRequests = 2
    a1 = a1
    a2 = a2
    a3 = a3
    Addr = {a1, a2, a3}
    MaxAttempts = 4
    None = None
    Bytes = 2
    Bits = 2
CHECK_DEADLOCK FALSE
INVARIANTS
    AllFailedMeansAllAsked
    CoolingMeansRotated
    TunnelBeginsBehindTheReply
    SourcesAreTheSubnet
    GivesUpOnlyAtTheEnd
PROPERTIES
    NewnymsAreSpaced
    OnlySilenceHoldsARequest
