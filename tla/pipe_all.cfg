\* Resumes, evictions, overlapping pipelines, one crash and restart.
SPECIFICATION Spec
CONSTANTS
    Jobs = {j1,j2}
    Runs = {r1,r2}
    NumStages = 1
    ClientRequests = {e1}
    Episodes = {e1}
    NoClientRequest = none
    NoJob = nojob
    MaxQueueSize = 2
    MaxRetries = 1
    MaxRetryCount = 1
    Orderings = {}
    CancelAllowed = FALSE
    EvictionAllowed = TRUE
    MaxCrashes = 1
    MaxImmediates = 1
CHECK_DEADLOCK FALSE
INVARIANTS
    RunningHasPipelineInLife
PROPERTIES
    LifecycleSpec
