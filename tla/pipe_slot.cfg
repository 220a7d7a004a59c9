\* Submissions, retries and pressure only: the lock protects the pipelines
\* and the queue drains.
SPECIFICATION FairSpec
CONSTANTS
    Jobs = {j1,j2,j3}
    Runs = {r1,r2}
    NumStages = 1
    ClientRequests = {c1}
    Episodes = {}
    NoClientRequest = none
    NoJob = nojob
    MaxQueueSize = 2
    MaxRetries = 1
    MaxRetryCount = 0
    Orderings = {}
    CancelAllowed = FALSE
    EvictionAllowed = FALSE
    MaxCrashes = 0
    MaxImmediates = 1
CHECK_DEADLOCK FALSE
INVARIANTS
    PTypeOK
    AtMostOnePipeline
    NoStrandedQueue
PROPERTIES
    QueueDrains
