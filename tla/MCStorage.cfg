SPECIFICATION StorageSpec
CONSTANTS
    Nodes = {a, b, c}
    NoOne = NoOne
    ChunkSize = 2
    NumParts = 3
    MaxConcurrency = 2
INVARIANTS
    HitsAreRight
    SoleOwner
    LockLeftMeansCrash
    DeletedStaysGone
    ObjectWhole
PROPERTIES
    NeverReplaced
SYMMETRY Symmetry
CHECK_DEADLOCK FALSE
