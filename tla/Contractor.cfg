SPECIFICATION Spec
CONSTANTS
    number_of_nodes = 4
    MaxNodes = 2000
    FlushPercent = 20
    MaxTies = 1
    INT_MAX = 20
    Inputs <- FourNodes
INVARIANTS
    DistancesPreserved
    HierarchyExact
    ViaResolves
PROPERTIES
    RoundsAreIndependent
CHECK_DEADLOCK FALSE
