CONSTANTS
    p1 = p1
    Pins <- OnePin
    Results = {"late", "on_time", "in_transit", "no_data"}
    MaxRuns = 2
    NumFiles = 2
    MaxCrashes = 1
    Faults = {"spawn", "stage", "promote", "restore", "summary", "finish", "settle"}
SPECIFICATION Spec
INVARIANTS CompleteRunsAreWhole ResultsOfCompleteRunsStand FailedWorkerLeavesNoFile
PROPERTIES ClaimsRestOnLatestRun RunIsSettled
