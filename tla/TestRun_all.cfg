CONSTANTS
    Suites <- MCSuites
    Targets = 2
    MaxFaults = 3
SPECIFICATION Spec
INVARIANT TornDownOrSaid
INVARIANT OneVerdictEach
INVARIANT ImportsAreFromPassed
PROPERTY EvidenceFirst
PROPERTY RunEnds
