\* Two oceans with room for one worker each.  Either two workers and one trouble,
\* or a test and three: the ocean that runs it crashes, cannot reach etcd, or both.
CONSTANTS
    o1 = o1
    o2 = o2
    w1 = w1
    w2 = w2
    Oceans = {o1, o2}
    Workers = {w1, w2}
    Tests = {1}
    Limit <- OneConnection
    MaxBoots = 2
    MaxTrouble = 3
    Troubled = {w1, o1}
SPECIFICATION SceneSpec
INVARIANTS
    ConnectionLimit
    KeysAreLeased
PROPERTIES
    EveryWorkerAttaches
    CountersSettle
    StoppedTestsVanish
