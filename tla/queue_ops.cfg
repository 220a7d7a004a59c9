\* Every operation, resumeJob included, on two jobs.
SPECIFICATION QueueSpec
CONSTANTS
    Jobs = {j1, j2}
    NumStages = 2
    ClientRequests = {}
    NoClientRequest = none
    MaxQueueSize = 2
    MaxRetries = 1
    MaxRetryCount = 1
    Orderings <- AllOrderings
INVARIANTS
    TypeOK
    SingleVideoLock
    ScheduleOnlyWhileQueued
PROPERTIES
    LifecycleSpec
