\* The three servers, one console, a run killed and launched again on its log.
SPECIFICATION Spec
CONSTANTS
    scout = scout
    judge = judge
    c1 = c1
    noStream = noStream
    Stations <- MCStations
    Streams <- MCStreams
    NoStream = noStream
    Modes <- MCModes
    Beginnings <- MCBeginnings
    HistoryCap = 8
    MaxLines = 6
    MaxVisits = 2
INVARIANTS
    TypeOK
    EachOnce
    TrueToLog
    WatchCounts
PROPERTIES
    CatchesUp
    FreesUp
\* The run may end, and no console come any more.
CHECK_DEADLOCK FALSE
