CONSTANTS
    w1 = w1 w2 = w2 away = away
    Workspaces = {w1, w2, away}
    Rooted = {w1, w2}
    LockName <- MCLocks
    Pools <- MCPools
    Requests <- MCRequests
    MaxListenPort = 65535
    MaxRewrites = 1
    MaxPlaces = 3
SYMMETRY Symmetry
SPECIFICATION PlacementSpec
INVARIANT NoPortShared
PROPERTY AssignIsComplete
CHECK_DEADLOCK FALSE
