SPECIFICATION Spec
CONSTANTS
    MaxResults = 2
    MaxDelegates = 3
INVARIANTS TypeOK CountExact AnsweredInTime SuccessMeansAccepted
PROPERTIES LoadEnds
CHECK_DEADLOCK FALSE
