CONSTANTS
    Count = 2
    MaxRestarts = 1
    Waits = 1
    Forks <- MCForks
    Starts <- MCStarts
    MaxHeight = 2
    MaxFaults = 1
SPECIFICATION FairSpec

INVARIANT OkMeansCrossed
PROPERTY ImplementsContract
PROPERTY GateEnds
