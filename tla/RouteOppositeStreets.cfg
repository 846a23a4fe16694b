SPECIFICATION PlanSpec
CONSTANTS
    number_of_nodes = 4
    MaxNodes = 1
    FlushPercent = 40
    MaxTies = 0
    INT_MAX = 120
    Inputs <- Detours
    Requests <- OppositeStreets
    SPECIAL_NODEID = SPECIAL_NODEID
    VIAPATH_ALPHA = 10
    VIAPATH_EPSILON = 15
    VIAPATH_GAMMA = 75
INVARIANT
    RouteShortest
CHECK_DEADLOCK FALSE
