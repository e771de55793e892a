SPECIFICATION Spec
CONSTANTS
    Walkers = {w}
    Names <- MCNames
    Dirs <- MCDirs
    Files <- MCFiles
    Virtuals = {"b"}
    Manifests <- MCManifests
    NoManifest = NoManifest
    MaxUpdates = 2
INVARIANTS
    PermitsAreTrue
    ListsWhatItFinds
    GlobsMatch
CHECK_DEADLOCK FALSE
