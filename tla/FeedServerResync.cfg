SPECIFICATION Spec
CONSTANTS
    QueueSize = 1
    MaxEvents = 5
    MaxFetches = 2
    MaxConnects = 1
    FetchesMayFail = FALSE
INVARIANTS
    Converges
\* The collector may have nothing left to say.
CHECK_DEADLOCK FALSE
