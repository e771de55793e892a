SPECIFICATION FairSpec
CONSTANTS
    Starter = s
    Connectors = {c}
    NoClient = NoClient
    Pipes = {out}
    OutBuffer = 1
    MaxOut = 1
INVARIANTS
    EndIsLast
    NothingUnread
CHECK_DEADLOCK FALSE
PROPERTIES
    StuckForever
    Settles
