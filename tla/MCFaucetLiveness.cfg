SPECIFICATION FairSpec
CONSTANTS
    a1 = a1
    a2 = a2
    w1 = w1
    w2 = w2
    Ids = {1, 2}
    Addresses = {a1, a2}
    IPs = {i1}
    Reserve = 1
    Budget = 2
    Cooldown = 2
    IPDailyClaims = 2
    QueueLimit = 2
    DayLength = 2
    MaxTime = 0
    Outside = Outside
    Confirmations = 2
    MaxReorgs = 1
    MaxReorgDepth = 1
    MaxDrops = 0
    MaxOutside = 0
    Outcomes = {TRUE}
    Workers = {w1}
    NoWorker = NoWorker
    MaxCrashes = 1
PROPERTIES
    EveryClaimSettles
CHECK_DEADLOCK FALSE
