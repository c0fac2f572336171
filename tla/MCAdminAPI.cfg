SPECIFICATION Spec
SYMMETRY Perms
CONSTANTS
    a1 = a1
    a2 = a2
    Files <- MCFiles
    NewRoutes <- MCNewRoutes
    Addrs = {"b2", "bad"}
    BadAddrs = {"bad"}
    Weights = {0, 2}
    Indexes = {0, 2}
    Headers = {"", "malformed", "t"}
    Admins = {a1, a2}
    Pages <- MCPages
    HeaderSets <- MCHeaderSets
    Callers = {c1}
    c1 = c1
    MaxVersion = 3
    MaxInsertion = 2
INVARIANTS
    RoutesMatchConfig
    BestRoute
    CacheByPage
PROPERTIES
    AckedInEffect
    ImplementsRouteTable
