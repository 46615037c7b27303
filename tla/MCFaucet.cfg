SPECIFICATION Spec
CONSTANTS
    a1 = a1
    a2 = a2
    w1 = w1
    w2 = w2
    Ids = {1, 2}
    Addresses = {a1, a2}
    IPs = {i1}
    Reserve = 1
    Budget = 2
    Cooldown = 2
    IPDailyClaims = 2
    QueueLimit = 2
    DayLength = 2
    MaxTime = 1
    Outside = Outside
    Confirmations = 2
    MaxReorgs = 1
    MaxReorgDepth = 1
    MaxDrops = 1
    MaxOutside = 0
    Outcomes = {TRUE}
    Workers = {w1, w2}
    NoWorker = NoWorker
    MaxCrashes = 1
SYMMETRY Perms
INVARIANTS
    JournalBeforeBroadcast
    PaidAtMostOnce
    SettledWasDeepUnlessRaced
PROPERTY
    KeepsPromise
    ServesLedger
CHECK_DEADLOCK FALSE
