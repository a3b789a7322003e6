SPECIFICATION Spec
CONSTANTS
    Clis = {c1}
    Sups = {s1, s2}
    Apps = {a1, a2}
    NoSup = NoSup
    NoApp = NoApp
    Stranger = Stranger
    NoRecord = NoRecord
    Commands = {"deploy", "stop", "restart"}
    Policy = "on-failure"
    Crashes = TRUE
    Autostart = FALSE
    SaveErrors = FALSE
    Patient = TRUE
INVARIANTS
    StopEndsRecordedApp
