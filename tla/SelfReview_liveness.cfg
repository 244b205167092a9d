SPECIFICATION Spec
CONSTANTS
    s1 = s1
    s2 = s2
    w1 = w1
    w2 = w2
    NoRun = NoRun
    NoWorker = NoWorker
    Runs = {s1}
    Workers = {w1, w2}
    MaxLimit = 1
    MaxEpoch = 1
    MaxReports = 1
    MaxCrashes = 1
    Faults = {"storage", "refused", "timeout", "malformed", "declined"}
PROPERTIES
    AcceptedRunSettles
CHECK_DEADLOCK FALSE
