SPECIFICATION Spec
CONSTANTS
    w1 = w1
    w2 = w2
    Deliveries <- MCOne
    Workers = {w1, w2}
    MaxAttempts = 2
    MaxChecks = 2
    MaxDuplicates = 2
    MaxRetries = 2
    Faults = {"exception", "foreign_result", "crash", "credential_revoked"}
INVARIANTS
    OneCallAtATime
    OperationFollowsDelivery
    UnknownIsReconciledFirst
    OnlyFailuresAreRepeated
PROPERTIES
    StartedCallConcludes
CHECK_DEADLOCK FALSE
