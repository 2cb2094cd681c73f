\* A client resumes a test that is already running, after editing its bookmark.
CONSTANTS
    a = a
    b = b
    Workers <- TwoWorkers
    Jobs = {a}
    Streams <- OneEach
    NetCap = 2
    Caps = {2}
    Requests = {1, 3}
    MaxConnections = 0
    SendCap = 4
    ReportKinds = {}
    ResumeOnlyPaused = FALSE
SPECIFICATION FleetSpec
INVARIANT
    StopLeavesNoLoad
