SPECIFICATION Spec
CONSTANTS
    MaxActors = 2
    MAX_INPUTS = 3
    MaxWrite = 3
    Interrupts = TRUE
    IntRange = 16
    SizeRange = 32
    AnyCounts = {0, 1, 3, 4, 8, 16, 17, 33}
INVARIANT CapacityKnown
INVARIANT WritesInBounds
INVARIANT UploadedCorrectly
PROPERTY UploadEnds
