\* Two workers of two units, two tests; every stream is cleaned up before the
\* worker redials; no reports.
CONSTANTS
    a = a
    b = b
    Workers <- TwoWorkers
    Jobs = {a, b}
    Streams <- OneEach
    NetCap = 1
    Caps = {2}
    Requests = {0, 1, 3}
    MaxConnections = 0
    SendCap = 1
    ReportKinds = {}
    ResumeOnlyPaused = FALSE
SYMMETRY JobSymmetry
SPECIFICATION PromptSpec
INVARIANTS
    RegistrySound
    AssignedAreAttached
    ExactAccounting
    WithinCapacity
PROPERTY
    ImplementsReservation
