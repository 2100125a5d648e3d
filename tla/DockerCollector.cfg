SPECIFICATION Spec
CONSTANTS
    c1 = c1
    Containers <- MCContainers
    MaxChanges = 5
    MaxRev = 2
INVARIANTS
    TypeOK
    ExistingIsShown
    GoneIsGone
PROPERTIES
    RunningIsShown
\* With the poll thread dead and no more events nothing happens.
CHECK_DEADLOCK FALSE
