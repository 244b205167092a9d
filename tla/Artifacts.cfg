SPECIFICATION Spec
CONSTANTS
    c1 = c1
    c2 = c2
    w1 = w1
    w2 = w2
    Contents = {c1, c2}
    Workers = {w1, w2}
    MaxVersions = 2
    MaxArtifacts = 2
    CaptureMaxAttempts = 2
    PromotionMaxAttempts = 2
    ProviderMayFail = TRUE
    RetentionDays = TRUE
SYMMETRY WorkerSymmetry
INVARIANTS StagedOutlivesIntent BytesOutliveReferences CapturedOnce
PROPERTIES SettledPromotionStays
CHECK_DEADLOCK FALSE
