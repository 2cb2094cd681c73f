CONSTANTS
    c1 = c1
    c2 = c2
    r1 = r1
    r2 = r2
    r3 = r3
    k1 = k1
    k2 = k2
    Clients <- TwoClients
    Requests <- ThreeRequests
    Tokens <- TwoTokens
    AdminNames = {"admin", "root"}
    Ttl = 2
    MaxTime = 3
    MaxCrashes = 1
    Failing = {"insert", "select", "delete"}
    NoCookie = NoCookie
    NoToken = NoToken
    Nobody = Nobody
SYMMETRY SessionSymmetry
SPECIFICATION Spec
INVARIANTS
    TypeOK
    OneAdmin
PROPERTIES
    OnlyLiveAdmitted
    LoginLasts
