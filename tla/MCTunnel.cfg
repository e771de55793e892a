SPECIFICATION MCSpec
CONSTANTS
    Handlers = {h1, h2}
    Tty = {h2}
    NoStdin = {}
    r1 = r1
    r2 = r2
    r3 = r3
    s1 = s1
    s2 = s2
    Requests <- MCRequests
    Calls <- MCCalls
    Malformed = {r3}
    MaxConns = 2
    Streams = {s1, s2}
    Closers = {c}
    None = None
    Parts <- MCParts
    PipeCap = 1
    MaxData = 2
INVARIANTS
    MessagesWhole
    StreamHasNoGap
    OneWriter
    AnsweredInOrder
PROPERTIES
    Returns
    Answers
    Abandons
CHECK_DEADLOCK FALSE
