SPECIFICATION Spec
CONSTANTS
    search = search
    lookup = lookup
    sendMail = sendMail
    deleteAll = deleteAll
    Tools <- MCTools
    Allowed <- MCAllowed
    Unsafe <- MCUnsafe
    MaxRounds = 3
    MaxRetries = 2
    LLMBudgets = {0, 1, 2, 5}
    ToolBudgets = {0, 2, 9}
    MaxBatch = 2
INVARIANTS
    SchemaInvalidFails
\* A returned step has nothing left to do.
CHECK_DEADLOCK FALSE
