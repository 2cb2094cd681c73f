\* One ocean, and one outage of etcd.
CONSTANTS
    o1 = o1
    o2 = o2
    w1 = w1
    w2 = w2
    Oceans = {o1}
    Workers = {w1}
    Tests = {}
    Limit <- OneConnection
    MaxBoots = 2
    MaxTrouble = 1
    Troubled = {o1}
SPECIFICATION SceneSpec
PROPERTY
    DiscoverableOnceBack
