\* The worker may redial while the ocean still serves its previous stream.
CONSTANTS
    a = a
    b = b
    Workers <- OneWorker
    Jobs = {a}
    Streams <- TwoEach
    NetCap = 1
    Caps = {2}
    Requests = {1}
    MaxConnections = 0
    SendCap = 1
    ReportKinds = {}
    ResumeOnlyPaused = TRUE
SPECIFICATION FairFleetSpec
PROPERTY
    UncontrolledLoadEnds
