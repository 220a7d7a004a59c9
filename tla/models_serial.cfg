\* One caller at a time, probes and evictions that succeed.
SPECIFICATION Spec
CONSTANTS
    forge = forge
    oracle = oracle
    pilot = pilot
    Callers = {c1}
    Models <- AllModels
    Seven <- Sevens
    Size <- Sizes
    NoModel = nomodel
    NoCaller = nocaller
    Reserve = 1
    RamCritical = 1
    RamLow = 2
    RamPrewarm = 3
    RamDefault = 3
    LowRamMode = FALSE
    RamLevels = {0, 1, 3}
    PsMayFail = FALSE
    EvictionMayFail = FALSE
    MayTimeOut = FALSE
    SetModes = {"evolver"}
    Predicted = {}
SYMMETRY Symmetry
INVARIANTS
    TypeOK
    Single7BResident
    HeadroomBeforeLoad
