SPECIFICATION Spec
CONSTANTS
    Proxy = {"a", "b", "c"}
    Pools <- MCPools
    Excluded = {}
    Size = 4
    Offset = 1
    MaxChunk = 3
    Buffer = 1
    MaxElsewhere = 2
CHECK_DEADLOCK FALSE
INVARIANT ResumesWhereItBroke
