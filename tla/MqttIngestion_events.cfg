SPECIFICATION IngestionSpec
CONSTANTS
    None = None
    QUEUE_SIZE = 2
    MaxConnections = 3
    MaxChanges = 3
    MaxReports = 1
INVARIANTS
    IngestionTypeOK
    EventsAreChanges
PROPERTIES
    WorkerEnds
    StatusRebuilt
CHECK_DEADLOCK FALSE
