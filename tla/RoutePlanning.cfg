SPECIFICATION PlanSpec
CONSTANTS
    number_of_nodes = 4
    MaxNodes = 1
    FlushPercent = 40
    MaxTies = 0
    INT_MAX = 120
    Inputs <- Graphs
    Requests <- SmallRequests
    SPECIAL_NODEID = SPECIAL_NODEID
    VIAPATH_ALPHA = 10
    VIAPATH_EPSILON = 15
    VIAPATH_GAMMA = 75
INVARIANTS
    ShortestFound
    PathMatchesLength
    AlternativeSound
    TableExact
    RouteConnects
    ViaRouteShortest
PROPERTIES
    QueryEnds
    HierarchyIsBuilt
CHECK_DEADLOCK FALSE
