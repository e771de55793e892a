SPECIFICATION MCSpec
CONSTANTS
    Watched = {w}
    Streams = {s}
    Polls = {p1, p2}
    Removals = {r1, r2}
    NoWatcher = NoWatcher
    MaxOps = 3
    OpsPerEvent = {1, 2}
INVARIANTS
    NothingLost
PROPERTIES
    Stops
CHECK_DEADLOCK FALSE
