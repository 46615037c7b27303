SPECIFICATION LedgerSpec
CONSTANTS
    a1 = a1
    a2 = a2
    i1 = i1
    i2 = i2
    Ids = {1, 2, 3}
    Addresses = {a1, a2}
    IPs = {i1, i2}
    Reserve = 2
    Budget = 5
    Cooldown = 2
    IPDailyClaims = 1
    QueueLimit = 2
    DayLength = 2
    MaxTime = 5
SYMMETRY Perms
INVARIANTS
    BudgetHolds
    EveryDayWithinBudget
    AddressSpacing
    IPWindow
PROPERTY
    ChargeOnlyGrows
CHECK_DEADLOCK FALSE
