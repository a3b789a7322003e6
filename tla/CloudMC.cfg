SPECIFICATION FairSpec
CONSTANTS
    User = User
    Agents = {a1, a2}
    Clients = {a1, a2, User}
    NoAgent = NoAgent
    Ids = {b1}
    NoId = NoId
    MaxFaults = 1
    Commands = 3
    Interval = 1
    MaxBackoff = 3
    MaxFailures = 6
CHECK_DEADLOCK FALSE
INVARIANTS
    TypeOK
    AnswersAreTrue
    StoredIsListed
    BackupOkIsListed
    AgentsAreAccountedFor
    StoppedMeansStopped
    AppDoesNotWaitForCloud
PROPERTIES
    StatusArrives
