SPECIFICATION Spec
CONSTANTS
    QueueSize = 1
    MaxEvents = 5
    MaxFetches = 2
    MaxConnects = 2
    FetchesMayFail = TRUE
INVARIANTS
    TypeOK
    LosslessConverges
    DropsAreNoticed
\* The collector may have nothing left to say.
CHECK_DEADLOCK FALSE
