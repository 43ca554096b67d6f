SPECIFICATION Spec
CONSTANTS
    Proxy = {"a", "b", "c"}
    Pools <- MCPools
    Excluded = {"c"}
    Size = 4
    Offset = 0
    MaxChunk = 3
    Buffer = 1
    MaxElsewhere = 2
CHECK_DEADLOCK FALSE
INVARIANT ExcludedIsNeverAsked
