SPECIFICATION LimiterSpec
CONSTANTS
    c1 = c1
    c2 = c2
    c3 = c3
    Clients = {c1, c2, c3}
    Burst = 3
    Rate = 2
    IdleTime = 2
    MaxBuckets = 2
    MaxCost = 2
    MaxClock = 4
SYMMETRY Perms
INVARIANTS
    BurstBound
PROPERTY
    KeepsBuckets
CHECK_DEADLOCK FALSE
