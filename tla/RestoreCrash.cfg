SPECIFICATION Spec
CONSTANTS
    Ops = {o1, o2}
    Files = {f1, f2}
    Versions = {v1, v2}
    Absent = Absent
    NoDir = NoDir
    NoOp = NoOp
    Serial = TRUE
    Crashes = TRUE
    Errors = FALSE
PROPERTIES
    NeverStartsBesideItsData
