\* A job that is cancelled before BullMQ delivers it.
SPECIFICATION WSpec
CONSTANTS
    Jobs = {j1}
    NumStages = 1
    ClientRequests = {e1}
    NoClientRequest = none
    MaxQueueSize = 1
    MaxRetries = 1
    MaxRetryCount = 0
    Orderings <- IdOrderings
    Runs = {r1, r2}
    NoJob = nojob
    Episodes = {e1}
    CancelAllowed = TRUE
    EvictionAllowed = TRUE
    MaxCrashes = 1
    MaxImmediates = 2
    NoRun = norun
CHECK_DEADLOCK FALSE
PROPERTIES
    CancelledStaysCancelled
