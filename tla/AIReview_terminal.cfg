SPECIFICATION Spec
CONSTANTS
    w1 = w1
    w2 = w2
    Workers = {w1}
    MaxAttempt = 2
    MaxSeq = 2
    MaxPushes = 1
    MaxRetries = 1
    DispatchMax = 3
    Faults = {}
PROPERTIES
    TerminalStateStays
CHECK_DEADLOCK FALSE
