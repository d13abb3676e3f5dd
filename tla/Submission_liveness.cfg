\* Two workers that may overlap: every call ends, every attempt is settled.
SPECIFICATION FairSpec
CONSTANTS
    c1 = c1  c3 = c3  w1 = w1  w2 = w2
    None = None
    Claims <- OneClaim
    Workers <- TwoWorkers
    Tombstoned <- NoClaims
    MaxAttempts = 1
    MaxRows = 1
    CloseFaults = FALSE
    LegacyStatuses <- NoStatuses
    Answers <- NoAnswers
PROPERTIES AttemptIsSettled RunTerminates
