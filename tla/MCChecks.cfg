SPECIFICATION Spec
CONSTANTS
    n1 = n1
    n2 = n2
    x = x
    y = y
    None = None
    Nodes = {n1, n2}
    Clients <- MCClients
    NodeOf <- MCNodeOf
    Branches = {x, y}
    Minings <- MCMinings
    Settings <- MCSettings
    OtherPaths = {"lan"}
    Depth = 1
    Window = 2
    MaxHeight = 2
    MaxSwitches = 3
INVARIANTS
    PassedIsCoherent
    PassedIsFresh
    GenesisOnlyIsTrue
    CheckedIsCoherent
CHECK_DEADLOCK FALSE
