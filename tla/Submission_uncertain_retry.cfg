\* An attempt filed at the portal, recorded failed, and attempted again.
SPECIFICATION Spec
CONSTANTS
    c1 = c1  c3 = c3  w1 = w1  w2 = w2
    None = None
    Claims <- OneClaim
    Workers <- OneWorker
    Tombstoned <- NoClaims
    MaxAttempts = 2
    MaxRows = 2
    CloseFaults = TRUE
    LegacyStatuses <- NoStatuses
    Answers <- NoAnswers
PROPERTY UncertainFinalActionNeverRetried
