SPECIFICATION Spec
CONSTANTS
    j1 = j1
    j2 = j2
    j3 = j3
    Jobs <- TwoJobs
    NumberOfRequests = 2
    PipeSize = 2
    Restarts = 0
INVARIANTS TypeOK JobsAccounted
PROPERTIES StopAnswersActive KeepsTicking ImplementsQueue
CHECK_DEADLOCK FALSE
