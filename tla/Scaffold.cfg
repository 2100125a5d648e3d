\* Two scaffolds at a time, killed anywhere, then a third.
SPECIFICATION Spec
CONSTANTS
    entry = entry
    technical = technical
    compliance = compliance
    strategist = strategist
    scout = scout
    judge = judge
    domain = domain
    core = core
    p1 = p1
    p2 = p2
    noCrew = noCrew
    Agents <- MCAgents
    Entry = entry
    NoCrew = noCrew
    Roles <- MCRoles
    Shipped <- MCShipped
    OtherKeys = {judge}
    CommandLines <- MCCommandLines
    Processes <- MCProcesses
    MaxRuns = 3
SYMMETRY MCSymmetry
INVARIANTS
    TypeOK
    RegistryHolds
    AloneIsComplete
\* No further agent is added.
CHECK_DEADLOCK FALSE
