\* One series of two episodes, two model calls at once, one restart.
SPECIFICATION FairSpec
CONSTANTS
    SeriesIds = {s1}
    Episodes <- TwoEpisodes
    PreEpisodes <- FirstEpisode
    Calls = {c1, c2}
    NoSeries = noseries
    NoEpisode = noepisode
    PlanReruns = {1}
    EpisodeReruns = {1, 4}
    MaxCrashes = 1
CHECK_DEADLOCK FALSE
INVARIANTS
    TypeOK
    OnePlannerCall
    OnePassPerEpisode
    CompleteIsCoherent
PROPERTIES
    SeriesLifecycleSpec
    PassesEnd
