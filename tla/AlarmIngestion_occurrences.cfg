SPECIFICATION Spec
CONSTANTS
    Keys = {overload}
    Requests = {q1}
    None = None
    MaxBoots = 2
    MaxCount = 3
    MaxDisturbances = 1
INVARIANTS
    TypeOK
PROPERTIES
    RowsFaithful
    Followed
CHECK_DEADLOCK FALSE
