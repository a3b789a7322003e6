SPECIFICATION FairSpec
CONSTANTS
    Procs = {p1, p2}
    NoProc = NoProc
    Crashes = TRUE
    Patient = TRUE
CHECK_DEADLOCK FALSE
INVARIANTS
    Serialized
PROPERTIES
    WholeStays
    NobodyWaitsForEver
