SPECIFICATION Spec
CONSTANTS
    a = a
    b = b
    m1 = m1
    m2 = m2
    Devices = {a}
    Ids = {m1}
    None = None
    DAY = 2
    INTERVAL = 2
    KEEP = 2
    SUMMARY_KEEP = 2
    PAGE = 2
    Delay = 1
    Duration = 1
    MaxTime = 6
    MaxPages = 1
    MaxFaults = 1
    MaxMoves = 1
INVARIANTS
    TypeOK
    SummariesCount
    SamplesSpaced
PROPERTIES
    SummarisedBeforeDeleted
CHECK_DEADLOCK FALSE
