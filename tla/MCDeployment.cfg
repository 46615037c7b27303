SPECIFICATION Spec
CONSTANTS
    p1 = p1
    p2 = p2
    r1 = r1
    r2 = r2
    n1 = n1
    n2 = n2
    NoOne = NoOne
    None = None
    Operators = {p1, p2}
    Roots = {r1, r2}
    Nets = {n1, n2}
    Answers <- MCAnswers
    Example <- MCExample
    Edited <- MCEdited
    MaxSaves = 2
    MaxMinted = 2
    MaxAside = 1
SYMMETRY Perms
INVARIANTS
    DatabaseMatches
    CredentialsKept
    RunningIsPrepared
PROPERTIES
    SavesKept
CHECK_DEADLOCK FALSE
