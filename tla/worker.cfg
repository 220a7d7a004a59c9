\* One job, two overlapping pipelines; an add that fails, stalls, a death of
\* the process, cancellation, resume and eviction; the episode route may
\* submit the job too.
SPECIFICATION WFairSpec
CONSTANTS
    Jobs = {j1}
    NumStages = 1
    ClientRequests = {e1}
    NoClientRequest = none
    MaxQueueSize = 1
    MaxRetries = 1
    MaxRetryCount = 1
    Orderings <- IdOrderings
    Runs = {r1, r2}
    NoJob = nojob
    Episodes = {e1}
    CancelAllowed = TRUE
    EvictionAllowed = TRUE
    MaxCrashes = 1
    MaxImmediates = 2
    NoRun = norun
CHECK_DEADLOCK FALSE
INVARIANTS
    WTypeOK
    NoJobForgotten
PROPERTIES
    DeliveredJobsEnd
