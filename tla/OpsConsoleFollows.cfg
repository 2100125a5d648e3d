\* Does a console of bridge.py follow its feed?
SPECIFICATION Spec
CONSTANTS
    scout = scout
    judge = judge
    c1 = c1
    noStream = noStream
    Stations <- MCStations
    Streams <- MCStreams
    NoStream = noStream
    Modes <- MCBridge
    Beginnings <- MCBeginnings
    HistoryCap = 8
    MaxLines = 6
    MaxVisits = 2
INVARIANTS
    ConsoleFollows
\* The run may end, and no console come any more.
CHECK_DEADLOCK FALSE
