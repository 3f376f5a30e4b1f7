SPECIFICATION ArraySpec
CONSTANTS
    d1 = d1  d2 = d2  d3 = d3  d4 = d4
    Dest = {d1, d2, d3, d4}
    HashSize = {2}
    MaxHops = 2
    MaxRoutes = 3
    MaxAge = 2
    PathCap = 3
    AgeEvery = 2
    AdmitPerCycle = 2
    UseCap = 2
    MaxAdverts = 8
SYMMETRY Symmetry
PROPERTIES
    ImplementsRouteTable
    RoutesWorsenOnlyByExpiry
    FreshRoutesStay
INVARIANTS
    TypeOK
    OneSlotPerDest
    StaleRoutesExpire
    LimitNeverBites
CHECK_DEADLOCK FALSE
