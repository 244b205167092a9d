SPECIFICATION Spec
CONSTANTS
    w1 = w1
    w2 = w2
    Workers = {w1, w2}
    MaxAttempt = 2
    MaxSeq = 3
    MaxPushes = 2
    MaxRetries = 1
    DispatchMax = 3
    Faults = {"redis_loss", "worker_crash", "credential_revoked", "superseded"}
INVARIANTS
    OperationMirrorsRun
    ResultHasReceipt
    PendingIsOnItsWay
PROPERTIES
    EventsTakeEffectInOrder
    StartIsDispatched
CHECK_DEADLOCK FALSE
