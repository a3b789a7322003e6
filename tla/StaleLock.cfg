SPECIFICATION Spec
CONSTANTS
    Procs = {p1, p2, p3}
    NoProc = NoProc
    Crashes = TRUE
    Patient = TRUE
CHECK_DEADLOCK FALSE
INVARIANTS
    Serialized
