\* A candidate directory written by two launches, killed anywhere, against each of
\* three finished baselines.
SPECIFICATION Spec
CONSTANTS
    Stations <- MCStations
    Plans <- MCPlans
    Results <- MCResults
    Outputs <- MCOutputs
    Gradings <- MCGradings
    TypeOf <- MCTypeOf
    Baselines <- MCBaselines
    MaxLaunches = 2
INVARIANTS
    TypeOK
    HardLossesOnly
    ReadersAgree
    OverlayAgrees
\* The last launch is over.
CHECK_DEADLOCK FALSE
