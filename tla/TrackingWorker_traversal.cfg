CONSTANTS
    Total = 3
    Interval = 2
    Throttle = 3
    Backoff = 1
    Retries = 2
    Threshold = 2
    SampleSize = 2
    Depth = 3
SPECIFICATION Spec
INVARIANTS TypeOK CompleteMeansAnswered CircuitNeedsConsecutiveFailures
PROPERTIES RequestsArePaced NothingIsSentAfterTheEnd WorkerEnds
