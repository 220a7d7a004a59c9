\* Three jobs of any kind, the server's one worker, one restart.
SPECIFICATION FairSpec
CONSTANTS
    NumJobs = 3
    Workers = {w1}
    NoJob = nojob
    Window = 2
    MaxCrashes = 1
INVARIANTS
    TypeOK
    CopiesAgree
    RunningIsOwned
    PlainJobRunsOnce
PROPERTIES
    QueuedSettles
