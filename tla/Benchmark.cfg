SPECIFICATION Spec
CONSTANTS
    NJobs = 2
    MaxSteps = 2
    StepCalls <- MCStepCalls
    MaxLaunches = 2
INVARIANTS
    TypeOK
    LogStopsAtFailure
    FeedWellBracketed
    LogLeadsStreams
    RecordsAgree
PROPERTIES
    FailureReachesDisk
    KeepsContract
\* The last launch leaves a process that has exited.
CHECK_DEADLOCK FALSE
