SPECIFICATION Spec
CONSTANTS
    t1 = t1
    t2 = t2
    Threads <- TwoThreads
    Ids <- CollidingIds
    ArSize = 4
    NofMutex = 2
    NofPerSlot = 1
    MaxIdle = 2
    Tries = 2
    NoTransaction = NoTransaction
    NoThread = NoThread
    RefsExhaustible = FALSE
    CopyAtomic = TRUE
SYMMETRY ThreadSymmetry
INVARIANTS
    TypeOK
    ExclusiveOwner
    
    
    
PROPERTIES
    ImplementsRegistry
