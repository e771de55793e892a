SPECIFICATION FairSpec
CONSTANTS
    Starter = s
    Connectors = {c}
    NoClient = NoClient
    Pipes = {out}
    OutBuffer = 1
    MaxOut = 1
PROPERTIES
    StartStreamEndsIfOthersLeave
CHECK_DEADLOCK FALSE
