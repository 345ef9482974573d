SPECIFICATION LimitingSpec
CONSTANTS
    p1 = p1
    p2 = p2
    g1 = g1
    g2 = g2
    g3 = g3
    Procs = {p1, p2}
    Callers = {g1, g2, g3}
    ProcOf <- MCProcOf
    Offset <- MCSkew
    FirstCount <- MCCounts
    Window = 4
    Limit = 2
    MaxDelay = 1
    MaxSkew = 1
    MaxNow = 4
    MaxCalls = 3
    Goroutines = {g1, g2}
    Period = 3
    MaxClock = 8
    MaxReservations = 4
INVARIANTS
    TypeOK
    WindowRespected
    RateRespected
    RetryAfterSuffices
CHECK_DEADLOCK FALSE
SYMMETRY GoroutineSymmetry
