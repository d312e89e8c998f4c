CONSTANTS
    Suites <- MCSuites
    Targets = 2
    MaxFaults = 1
SPECIFICATION Spec
INVARIANT OneNetworkAtATime
