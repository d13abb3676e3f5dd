\* One worker at a time, a live claim and a tombstoned one, legacy rows, every
\* reconciliation answer.
SPECIFICATION Spec
CONSTANTS
    c1 = c1  c3 = c3  w1 = w1  w2 = w2
    None = None
    Claims <- LiveAndTombstoned
    Workers <- OneWorker
    Tombstoned <- OneTombstone
    MaxAttempts = 2
    MaxRows = 3
    CloseFaults = TRUE
    LegacyStatuses <- SomeLegacy
    Answers <- AllAnswers
INVARIANTS QueueAgreesWithDecision NoClaimIsStranded
