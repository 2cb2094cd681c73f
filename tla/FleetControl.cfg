\* One worker and two tests that compete for its two units; the web control's
\* discipline (only a paused test is resumed); a clean redial.
CONSTANTS
    a = a
    b = b
    Workers <- OneWorker
    Jobs = {a, b}
    Streams <- OneEach
    NetCap = 1
    Caps = {2}
    Requests = {1, 2}
    MaxConnections = 0
    SendCap = 2
    ReportKinds = {}
    ResumeOnlyPaused = TRUE
SYMMETRY JobSymmetry
SPECIFICATION FleetSpec
INVARIANTS
    FleetTypeOK
    CommandsConverge
    NeverOverloaded
PROPERTY
    ImplementsOcean
