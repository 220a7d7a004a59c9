\* Cancellations, reorderings and the death of the process; no resume.
SPECIFICATION FairSpec
CONSTANTS
    Jobs = {j1,j2}
    Runs = {r1,r2}
    NumStages = 2
    ClientRequests = {}
    Episodes = {}
    NoClientRequest = none
    NoJob = nojob
    MaxQueueSize = 2
    MaxRetries = 1
    MaxRetryCount = 0
    Orderings <- PairOrderings
    CancelAllowed = TRUE
    EvictionAllowed = FALSE
    MaxCrashes = 1
    MaxImmediates = 2
CHECK_DEADLOCK FALSE
INVARIANTS
    NoUnhandledRejection
PROPERTIES
    CancelledRunEntersNoStage
    CancelStops
