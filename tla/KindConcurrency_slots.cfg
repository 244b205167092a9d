SPECIFICATION SlotsSpec
CONSTANTS
    Executions <- MCExecutions
    Kind <- MCKind
    Limit <- MCLimit
    TaskId <- MCOwnIds
    MaxRetries = 1
    NoKind = "none"
INVARIANTS
    SlotsConserved
PROPERTIES
    EveryTaskRuns
CHECK_DEADLOCK FALSE
