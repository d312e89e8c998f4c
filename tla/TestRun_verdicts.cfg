CONSTANTS
    Suites <- MCSuites
    Targets = 1
    MaxFaults = 1
SPECIFICATION Spec
PROPERTY VerdictStands
