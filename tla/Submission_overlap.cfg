\* Two submission workers that may overlap, and one claim.
SPECIFICATION Spec
CONSTANTS
    c1 = c1  c3 = c3  w1 = w1  w2 = w2
    None = None
    Claims <- OneClaim
    Workers <- TwoWorkers
    Tombstoned <- NoClaims
    MaxAttempts = 2
    MaxRows = 2
    CloseFaults = TRUE
    LegacyStatuses <- NoStatuses
    Answers <- RetryOnly
SYMMETRY WorkerSymmetry
INVARIANTS SupersededAttemptsAreSettled RetryLimit NoConcurrentSubmissionOfOneClaim
PROPERTIES WorkerOutcomeIsFinal InterruptionLeavesUnknown ClaimsAreSequential
