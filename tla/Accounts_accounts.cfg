SPECIFICATION Spec
CONSTANTS
    Requests = {r1, r2, r3, r4, r5}
    None = None
    TTL = 2
    COOLDOWN = 1
    SEND_WINDOW = 3
    MAX_SENDS = 2
    FAILED_WINDOW = 2
    MAX_FAILED = 2
    MaxTime = 3
    MaxCodes = 3
    MaxSessions = 5
SYMMETRY Symmetry
INVARIANTS
    TypeOK
    CodeWasMailed
    GuessesBounded
    TokensUsedOnce
CHECK_DEADLOCK FALSE
