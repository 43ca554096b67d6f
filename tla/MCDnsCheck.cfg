SPECIFICATION Spec
CONSTANTS
    t1 = t1
    t2 = t2
    h1 = h1
    h2 = h2
    h3 = h3
    ip = ip
    Task = {t1, t2}
    Host = {h1, h2, h3}
    Literal = {ip}
    FoundTtl = 2
    MissingTtl = 1
    MaxHosts = 1
    Horizon = 3
    MaxChanges = 2
    None = None
SYMMETRY Sym
INVARIANTS
    RefusedOnlyIfMissing
    PassedOnlyIfFound
    TableIsBounded
