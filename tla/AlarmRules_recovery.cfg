SPECIFICATION MCSpec
CONSTANTS
    Indexes = {0, 1}
    Values = {factory, custom}
    Factory = factory
    Requests = {q1, q2}
    Recovery = recovery
    None = None
    MaxBoots = 2
    MaxSets = 2
    MaxDisturbances = 1
INVARIANTS
    TypeOK
    
PROPERTIES
    
    Reconciled
CHECK_DEADLOCK FALSE
