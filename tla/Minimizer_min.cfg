SPECIFICATION Spec
CONSTANTS
    Scenarios <- MCScenarios
    Retries = 2
    NumAttempts = 2
    MaxNoise = 2
    HalveAbove = 2
    MaxBlock = 4
    RegionEnds <- MCRegionEnds
INVARIANTS
    ResultIsVerified
    StoredStillLeaks
    DifferenceIsLeaked
PROPERTIES
    InstrumentationLast
    MinimizationEnds
CHECK_DEADLOCK FALSE
