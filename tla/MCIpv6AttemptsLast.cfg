SPECIFICATION AttemptsSpec
CONSTANTS
    a1 = a1
    a2 = a2
    a3 = a3
    Addr = {a1, a2, a3}
    MaxAttempts = 4
    None = None
    Bytes = 2
    Bits = 2
CHECK_DEADLOCK FALSE
INVARIANT FailedAttemptsGive502
