SPECIFICATION MapSpec
CONSTANTS
    Requests <- AllRequests
    Maps <- AllMaps
    FreeListChunk = 1
    traffic_signal_penalty = 5
    u_turn_penalty = 7
    TinyComponent = 4
    SmallComponent = 3
    Analysed <- Plain
    turn_function <- Angle
INVARIANTS
    RestrictionsKept
    FileComplete
    CheapestEdgeFound
    GeometryExact
    TurnsExact
    SegmentsIndexed
    ComponentsExact
