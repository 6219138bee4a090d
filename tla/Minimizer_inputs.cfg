SPECIFICATION Spec
CONSTANTS
    Scenarios <- MCScenarios
    Retries = 1
    NumAttempts = 2
    MaxNoise = 1
    HalveAbove = 2
    MaxBlock = 4
    RegionEnds <- MCRegionEnds
INVARIANT
    PassesSeeViolation
CHECK_DEADLOCK FALSE
