SPECIFICATION Spec
CONSTANTS
    Requested = 2
    Procs = {1, 2}
    Pids = {1, 2}
    StaleAfter = {0, 2}
    MaxPush = 1
    Hit = {1}
    Pairs <- MCPairs
INVARIANTS
    OpenSeesRing
PROPERTIES
    OwnerRespected
    PeerFollows
    ShutdownHonoured
CHECK_DEADLOCK FALSE
