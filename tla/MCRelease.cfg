SPECIFICATION Spec
CONSTANTS
    p1 = p1
    p2 = p2
    a = a
    b = b
    None = None
    Publishers = {p1}
    Versions = {1, 2, 3}
    Histories <- MCHistories
    Texts = {"new", "reworded"}
    Reports <- MCReports
    Enforcement = "report-only"
    MaxMeddling = 1
INVARIANTS
    NothingSkipped
    AnnouncedOnce
    SuccessMeansApproved
    BoundaryStands
    PublishedWasScanned
CHECK_DEADLOCK FALSE
