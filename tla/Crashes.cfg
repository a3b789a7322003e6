SPECIFICATION Spec
CONSTANTS
    Clis = {c1, c2}
    Sups = {s1, s2}
    Apps = {a1, a2}
    NoSup = NoSup
    NoApp = NoApp
    Stranger = Stranger
    NoRecord = NoRecord
    Commands = {"stop"}
    Policy = "always"
    Crashes = TRUE
    Autostart = TRUE
    SaveErrors = TRUE
    Patient = FALSE
SYMMETRY Symmetry
INVARIANTS
    TypeOK
    RecordPairsOwnApp
    OneAppPerSupervisor
    StopEndsItsTarget
