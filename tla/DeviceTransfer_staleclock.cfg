SPECIFICATION Spec
CONSTANTS
    Users = {u1, u2, u3}
    Requests = {q1, q2}
    Workers = {w1}
    MqttIds = {m1}
    None = None
    CHALLENGE_LIFETIME = 3
    TRANSFER_DELAY = 2
    DEVICE_MEMBER_LIMIT = 0
    LockWait = 1
    CommandTimeout = 0
    SampleTimes = {}
    Adopters = {}
    MaxTime = 7
    MaxChallenges = 2
    MaxTransfers = 2
    MaxGeneration = 2
SYMMETRY Symmetry
INVARIANTS
    ArchiveConsistent
CHECK_DEADLOCK FALSE
