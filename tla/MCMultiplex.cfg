SPECIFICATION FairSpec
CONSTANTS
    Consumers = {c1, c2, c3}
    NoConsumer = NoConsumer
    Buffer = 1
    MaxSent = 2
INVARIANTS
    InOrder
    DrainedHasAll
    PanicNeedsOverlap
PROPERTIES
    Drains
CHECK_DEADLOCK FALSE
