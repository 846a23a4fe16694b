SPECIFICATION Spec
CONSTANTS
    HilbertBits = 4
    LatShift = 8
    LonShift = 8
    BRANCHING_FACTOR = 2
    LEAF_NODE_SIZE = 2
    Inputs <- AllInputs
    QueriesOn <- AllQueries
    lat2y <- Mercator
INVARIANTS
    TreeCovers
    NearestSegment
    NearestEndPoint
    NearestInOrder
