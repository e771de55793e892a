SPECIFICATION FairSpec
CONSTANTS
    Handlers = {h1, h2}
    Pids = {1, 2}
    Tags = {a, b}
    NoTag = NoTag
    Requests = {r}
    None = None
INVARIANTS
    ListedUnlessReused
    NoGhost
PROPERTIES
    Reaps
CHECK_DEADLOCK FALSE
