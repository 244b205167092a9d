SPECIFICATION Spec
CONSTANTS
    r1 = r1
    r2 = r2
    v1 = v1
    v2 = v2
    h1 = h1
    h2 = h2
    q1 = q1
    Reviewers = {r1, r2}
    Versions = {v1, v2}
    Requirements = {h1, h2}
    Criteria <- MCCriteria
    ReviewOnly = {h2}
    Requests = {q1}
    Scores = {"late"}
    Decisions = {"passed"}
    Archivable = {"run"}
    MaxIterations = 3
    MaxDrafts <- MCDrafts
    MaxRevision <- MCRevision
SYMMETRY MCSymmetry
INVARIANTS
    OneChain
    NoDraftIsLost
    PublishedIsComplete
    ConfirmedByItsPublication
    CorrectionStartsFromPublished
PROPERTIES
    KeepsHistory
CHECK_DEADLOCK FALSE
