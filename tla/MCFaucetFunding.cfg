SPECIFICATION FundSpec
CONSTANTS
    w1 = w1
    w2 = w2
    Ids = {1, 2}
    Addresses = {faucet}
    IPs = {local}
    Reserve = 1
    Budget = 1
    Cooldown = 1
    IPDailyClaims = 1
    QueueLimit = 1
    DayLength = 1
    MaxTime = 0
    Outside = Outside
    Confirmations = 2
    MaxReorgs = 1
    MaxReorgDepth = 1
    MaxDrops = 1
    MaxOutside = 1
    Outcomes = {TRUE}
    Workers = {w1, w2}
    MaxRuns = 3
SYMMETRY Perms
INVARIANTS
    PaidAtMostOnce
    NotOvertaken
PROPERTIES
    KeepsRefillPromise
CHECK_DEADLOCK FALSE
