SPECIFICATION MCRdSpec
CONSTANTS
    Addrs = {a1, a2}
    Bits = 2
    Capacity = 2
    Closest = 2
    MaxFound = 1
    MaxMade = 4
    MinNodes = 3
    Bootstraps = 1
    MaxAhead = 2
    MaxBehind = 2
INVARIANTS
    RdTypeOK
    ListsAreShort
    RepeatsNeedArrivals
PROPERTIES
    SkipsNeedRemovals
    StayingNodesAsked
