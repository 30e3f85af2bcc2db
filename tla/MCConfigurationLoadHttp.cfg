SPECIFICATION Spec
CONSTANTS
    MaxResults = 2
    MaxDelegates = 3
INVARIANTS SuccessMeansServed
CHECK_DEADLOCK FALSE
