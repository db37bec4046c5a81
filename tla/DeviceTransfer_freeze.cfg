SPECIFICATION Spec
CONSTANTS
    Users = {u1, u2}
    Requests = {q1, q2}
    Workers = {w1, w2}
    MqttIds = {m1, m2}
    None = None
    CHALLENGE_LIFETIME = 2
    TRANSFER_DELAY = 3
    DEVICE_MEMBER_LIMIT = 1
    LockWait = 1
    CommandTimeout = 1
    SampleTimes = {2, 4, 5}
    Adopters = {u1, u2}
    MaxTime = 7
    MaxChallenges = 1
    MaxTransfers = 1
    MaxGeneration = 1
SYMMETRY Symmetry
INVARIANTS
    EpochsDisjoint
    AlarmConfigurationOfOwner
PROPERTIES
    FrozenWhilePending
    ImplementsEpochs
CHECK_DEADLOCK FALSE
