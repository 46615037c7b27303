SPECIFICATION Spec
CONSTANTS
    o1 = o1
    o2 = o2
    o3 = o3
    v1 = v1
    v2 = v2
    NoOne = NoOne
    None = None
    Installers = {o1, o2, o3}
    Ids = {v1, v2}
    ExplorerIds = {v2}
    Pinned <- MCPinned
    MaxFaults = 2
    MaxReruns = 1
INVARIANTS
    CommandRuns
PROPERTIES
    KeepsInstallation
    AttemptsSettle
CHECK_DEADLOCK FALSE
