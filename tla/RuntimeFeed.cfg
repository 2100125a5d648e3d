SPECIFICATION Spec
CONSTANTS
    s1 = s1
    s2 = s2
    scout = scout
    writer = writer
    log1 = log1
    log2 = log2
    noStation = noStation
    noWorker = noWorker
    Steps <- MCSteps
    Stations <- MCStations
    Registered <- MCRegistered
    NoStation = noStation
    NoWorker = noWorker
    Feeds <- MCFeeds
    Threads <- MCThreads
    MaxAgents = 1
    MaxTasks = 3
    MaxKills = 1
    MaxReads = 1
    MaxCommands = 1
INVARIANTS
    TypeOK
    QueueAccounted
    BusyHasTask
    QuietMeansClean
PROPERTIES
    DronesLand
\* The logs may end and the operator may leave.
CHECK_DEADLOCK FALSE
