\* One worker and one test, every goroutine scheduled fairly; a clean redial.
CONSTANTS
    a = a
    b = b
    Workers <- OneWorker
    Jobs = {a}
    Streams <- OneEach
    NetCap = 1
    Caps = {2}
    Requests = {1, 2}
    MaxConnections = 0
    SendCap = 1
    ReportKinds = {TRUE}
    ResumeOnlyPaused = FALSE
SPECIFICATION FairFleetSpec
PROPERTIES
    UncontrolledLoadEnds
    StopTakesEffect
    SendersEnd
    ReportsArrive
