\* Two goroutines on one worker, in two runs.
CONSTANTS
    Workers = {1}
    Goroutines = {1, 2}
    Host <- OnFirst
    Latencies = {1, 2}
    MaxRequests <- UpToThree
    MaxRuns = 2
    NetCap = 1
CHECK_DEADLOCK FALSE
SPECIFICATION FewSpec
INVARIANTS
    TypeOK
    ExtremesAgree
    HistogramKeepsUp
PROPERTY
    NumbersNeverFallBack
