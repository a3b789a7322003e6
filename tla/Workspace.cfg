SPECIFICATION Spec
CONSTANTS
    t1 = t1
    t2 = t2
    p1 = p1
    p2 = p2
    s = s
    Terminals = {t1, t2}
    Projects = {p1, p2}
    Names = {s}
    None = None
    Commands <- MCCommands
    Scripts <- MCScripts
    MaxFaults = 1
    LastPort = 2
    LastFile = 2
CHECK_DEADLOCK FALSE
INVARIANTS
    TypeOK
    SecretsOpen
    PrintedKeysRecover
    RecoveryIsHeld
    PortsDiffer
    AutostartIsInstalled
    ListedIsStored
    RollbackCanBeUndone
    RollbackRestores
    NothingIsLost
