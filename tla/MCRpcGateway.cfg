SPECIFICATION Spec
CONSTANTS
    r1 = r1
    r2 = r2
    c1 = c1
    Clients = {c1}
    Burst = 3
    Rate = 1
    IdleTime = 3
    MaxBuckets = 1
    MaxCost = 2
    MaxClock = 3
    Requests = {r1, r2}
    NoRequest = NoRequest
    HasWriter = TRUE
    Batches <- AllBatches
    MaxBatch = 2
    Slots = 2
    CacheTime = 2
    Deadline = 1
    ReadTime = 1
    MaxSwitches = 2
SYMMETRY Perms
INVARIANTS
    WritesReachTheNetwork
    ReadsAreRecent
    AllOrNothing
    DeliveredOnceInOrder
    ForwardedWasPaid
    NobodyIsStuck
CHECK_DEADLOCK FALSE
