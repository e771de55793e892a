SPECIFICATION Spec
CONSTANTS
    a = a
    b = b
    t = t
    u = u
    x = x
    y = y
    z = z
    Pushes = {p1, p2}
    Hosts = {a, b, t, u}
    Addresses = {x, y, z}
    Addrs <- MCAddrs
    Ports = {53, 80, 443}
    Unset = Unset
    Tunnel <- MCTunnel
    Manifests <- MCManifests
    NoManifest = NoManifest
    MaxCrashes = 1
INVARIANTS
    ExactAtRest
    ClosedOutsideApply
SYMMETRY Symmetric
CHECK_DEADLOCK FALSE
