SPECIFICATION Spec
CONSTANTS
    Requests = {q1, q2}
    Devices = {d1, d2}
    q1 = q1
    q2 = q2
    d1 = d1
    d2 = d2
    Mixes <- MCMixes
    None = None
    MaxDrops = 1
    MaxStrays = 1
INVARIANTS
    TypeOK
    AuditAgrees
    TableIsCalls
PROPERTIES
    PromiseKept
    CallsEnd
CHECK_DEADLOCK FALSE
