SPECIFICATION Spec
CONSTANTS
    Users = {alice, bob}
    Requests = {r1, r2, r3}
    MqttIds = {m1, m2}
    Nonces = {1, 2}
    None = None
    TTL = 3
    WINDOW = 1
    LockWait = 1
    MaxTime = 5
SYMMETRY Symmetry
INVARIANTS
    TypeOK
    SingleUse
    AnswersAgree
CHECK_DEADLOCK FALSE
