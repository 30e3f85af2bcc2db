SPECIFICATION Spec
CONSTANTS
    ArSize = 8
    NofPerSlot = 2
    PoolMaxIdle = 4
    Requested <- AnyRequests
    Tries = 16
    MaxGap = 3
INVARIANTS
    Expired
PROPERTIES
    IdleTimeGrantedWithinTurn
