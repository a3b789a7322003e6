SPECIFICATION FairSpec
CONSTANTS
    Ops = {o1, o2}
    Files = {f1, f2}
    Versions = {v1, v2}
    Absent = Absent
    NoDir = NoDir
    NoOp = NoOp
    Serial = TRUE
    Crashes = FALSE
    Errors = TRUE
PROPERTIES
    ImplementsAtomicData
    ServiceComesBack
