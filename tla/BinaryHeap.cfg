SPECIFICATION Spec
CONSTANTS
    NodeIDs = {0, 1, 2, 3}
    Weights = {0, 1, 2}
    HashedNodes = {0, 1}
    TableSize = 2
    MaxTimestamp = 2
    fast_hasher <- Hash
PROPERTIES
    ImplementsQueue
