SPECIFICATION Spec
CONSTANTS
    Requests <- AllRequests
    BufferSize = 40
    SocketBuffer = 2
    MaxErrors = 1
INVARIANTS
    ParsedAsSent
    LengthMatchesBody
PROPERTIES
    RequestsAreAnswered
CHECK_DEADLOCK FALSE
