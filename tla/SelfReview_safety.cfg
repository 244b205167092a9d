SPECIFICATION SafeSpec
CONSTANTS
    s1 = s1
    s2 = s2
    w1 = w1
    w2 = w2
    NoRun = NoRun
    NoWorker = NoWorker
    Runs = {s1, s2}
    Workers = {w1, w2}
    MaxLimit = 1
    MaxEpoch = 1
    MaxReports = 0
    MaxCrashes = 0
    Faults = {"pause", "storage", "refused", "timeout", "malformed", "declined"}
SYMMETRY MCSymmetry
INVARIANTS
    QuotaMatchesRuns
    LedgerTellsOutcome
    SubmittedOnce
CHECK_DEADLOCK FALSE
