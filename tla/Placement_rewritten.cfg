CONSTANTS
    w1 = w1 w2 = w2 away = away
    Workspaces = {w1, w2}
    Rooted = {w1, w2}
    LockName <- MCLocks
    Pools <- MCMachines
    Requests <- MCRequests
    MaxListenPort = 65535
    MaxRewrites = 1
    MaxPlaces = 2
SPECIFICATION PlacementSpec
INVARIANT NeverShared
CHECK_DEADLOCK FALSE
