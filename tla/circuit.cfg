\* A model with an alias, under two composer requests and a service.
SPECIFICATION FairSpec
CONSTANTS
    Tags = {t1, t2}
    Models = {m1}
    resolveCanonicalTag <- Aliases
    Requests = {r1, r2}
    Services = {s1}
    NoTag = notag
    Threshold = 2
    ComposerThreshold = 2
    MaxAttempts = 2
INVARIANTS
    TypeOK
    ClosedBelowThreshold
PROPERTIES
    MovesOnStreaks
    LateErrorKeepsCountdown
    RequestAnswered
