\* Two callers whose probes and evictions succeed load two 7B models.
SPECIFICATION Spec
CONSTANTS
    forge = forge
    oracle = oracle
    pilot = pilot
    Callers = {c1, c2}
    Models <- AllModels
    Seven <- Sevens
    Size <- Sizes
    NoModel = nomodel
    NoCaller = nocaller
    Reserve = 1
    RamCritical = 1
    RamLow = 2
    RamPrewarm = 3
    RamDefault = 3
    LowRamMode = FALSE
    RamLevels = {0, 1, 3}
    PsMayFail = FALSE
    EvictionMayFail = FALSE
    MayTimeOut = FALSE
    SetModes = {"evolver"}
    Predicted = {}
INVARIANT
    Single7BResident
