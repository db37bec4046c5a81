SPECIFICATION Spec
CONSTANTS
    a = a
    b = b
    m1 = m1
    m2 = m2
    Devices = {a, b}
    Ids = {m1, m2}
    None = None
    DAY = 2
    INTERVAL = 2
    KEEP = 2
    SUMMARY_KEEP = 2
    PAGE = 2
    Delay = 1
    Duration = 1
    MaxTime = 2
    MaxPages = 0
    MaxFaults = 0
    MaxMoves = 2
INVARIANTS
    MeasuredByDevice
CHECK_DEADLOCK FALSE
