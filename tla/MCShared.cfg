SPECIFICATION Spec
CONSTANTS
    Blocks = 4
    MaxLayers = 2
    Tasks = {a, b}
    MaxVersion = 2
    Refreshes = {r, q}
    Setters = {s}
    MaxMemVersion = 2
    Hosts = {g, h}
    Requests = {t, u}
    MaxExecution = 3
    Callers = {"big", "c", "d"}
    Need <- MCNeed
    Limits = {1, 2}
    Conns = {x, y, z}
    MaxLimits <- MCMaxLimits
    MaxCounters = 2
    Links = {k, l, m}
    MaxClients = 2
INVARIANTS
    LayersResolve
    LockedDeleteSticks
    DeleteSparesOthers
    NoneSleepsOnRoom
    CountsOpen
    ClosedKeyIsClosed
PROPERTIES
    ReadsAreLayered
    RedisConverges
    MemConverges
CHECK_DEADLOCK FALSE
