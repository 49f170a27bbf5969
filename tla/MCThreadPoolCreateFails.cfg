\* pthread_create may fail: its result is ignored by lis_worker_start.
CONSTANTS
    MaxThreads = 2
    MaxTotal = 2
    MaxDispatches = 1
    CreateMayFail = TRUE
SPECIFICATION Spec
PROPERTY EveryIndexRuns
CHECK_DEADLOCK FALSE
