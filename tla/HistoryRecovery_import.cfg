SPECIFICATION Spec
CONSTANTS
    None = None
    HISTORY_PAGE_LIMIT = 2
    HISTORY_MAX_PAGES_PER_RUN = 2
    MaxRecords = 5
    MaxOutages = 1
    MaxFailures = 1
    MaxRestarts = 1
INVARIANTS
    TypeOK
    AckFollowsCommit
PROPERTIES
    ImplementsImport
    BacklogImported
CHECK_DEADLOCK FALSE
