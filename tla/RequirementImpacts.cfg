SPECIFICATION ImpactSpec
CONSTANTS
    r1 = r1
    v1 = v1
    v2 = v2
    h1 = h1
    h2 = h2
    h3 = h3
    Reviewers = {r1}
    Versions = {v1, v2}
    Requirements = {h1, h2, h3}
    Criteria <- MCCriteria
    ReviewOnly = {}
    Requests = {}
    Scores = {"pass"}
    Decisions = {}
    Archivable = {}
    MaxIterations = 2
    MaxDrafts <- MCDrafts
    MaxRevision <- MCRevision
    MaxPublications = 3
PROPERTIES
    ChangedReviewIsFlagged
CHECK_DEADLOCK FALSE
