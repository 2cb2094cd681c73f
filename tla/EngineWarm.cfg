\* Stop comes once the generators run; a stopped test comes to rest.
CONSTANTS
    t1 = t1
    t2 = t2
    t3 = t3
    Threads <- ThreeThreads
    QueueCap = 2
    Verbose = TRUE
    StopEarly = FALSE
SPECIFICATION Spec
INVARIANTS
    AtMostOneLate
    SampleAccompaniesCount
PROPERTIES
    StopEndsLoad
    LoadFlows
CHECK_DEADLOCK FALSE
