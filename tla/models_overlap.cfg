\* Two callers, failures and speculative loads.
SPECIFICATION FairSpec
CONSTANTS
    forge = forge
    oracle = oracle
    pilot = pilot
    Callers = {c1, c2}
    Models <- Sevens
    Seven <- Sevens
    Size <- SevenSizes
    NoModel = nomodel
    NoCaller = nocaller
    Reserve = 1
    RamCritical = 1
    RamLow = 2
    RamPrewarm = 3
    RamDefault = 3
    LowRamMode = FALSE
    RamLevels = {2, 3}
    PsMayFail = TRUE
    EvictionMayFail = TRUE
    MayTimeOut = TRUE
    SetModes = {}
    Predicted = {forge}
INVARIANTS
    ActiveSevenIsActive
    AwaitedEvictionRuns
PROPERTIES
    RequestsGranted
