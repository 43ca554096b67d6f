SPECIFICATION FairSpec
CONSTANTS
    t1 = t1
    t2 = t2
    Task = {t1, t2}
    Target <- MCTarget
    NoRequest = NoRequest
    N = 2
    U16 = 1000
    U32 = 8
    BadRegex = BadRegex
    NoProbe = NoProbe
    Tables <- MCTables
    Absent = Absent
    MaxWrites = 1
    MaxFailures = 0
INVARIANTS
    OneTaskPerVm
    FirstMatchWins
    RoutesAreRead
PROPERTIES
    CallsReturn
    RoutesAreApplied
