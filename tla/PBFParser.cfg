SPECIFICATION Spec
CONSTANTS
    capacity = 2
    Files <- AllFiles
    Reader = Reader
    Parsers = {p1}
INVARIANTS
    BlocksDelivered
    BlocksOwned
PROPERTIES
    ParseReturns
