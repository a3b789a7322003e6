SPECIFICATION Spec
CONSTANTS
    Clis = {c1, c2}
    Sups = {s1, s2}
    Apps = {a1, a2}
    NoSup = NoSup
    NoApp = NoApp
    Stranger = Stranger
    NoRecord = NoRecord
    Commands = {"deploy", "stop"}
    Policy = "never"
    Crashes = FALSE
    Autostart = FALSE
    SaveErrors = FALSE
    Patient = TRUE
SYMMETRY Symmetry
INVARIANTS
    RecordPairsOwnApp
    StopKillsOnlyItsOwn
    StopEndsItsTarget
