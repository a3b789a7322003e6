SPECIFICATION Spec
CONSTANTS
    Ops = {o1, o2, o3}
    Files = {f1}
    Versions = {v1, v2}
    Absent = Absent
    NoDir = NoDir
    NoOp = NoOp
    Serial = FALSE
    Crashes = TRUE
    Errors = TRUE
SYMMETRY Symmetry
INVARIANTS
    TypeOK
    IndexedIsStored
PROPERTIES
    SetAsideIsNeverLost
