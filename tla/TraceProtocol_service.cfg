SPECIFICATION Spec
CONSTANTS
    InputCounts = {2, 3}
    RepCounts = {1, 4}
    BatchFactor = 2
    BatchLimit = 3
    MinLines = 1
    Failures = TRUE
INVARIANT AtBoundary
INVARIANT CountsAgree
PROPERTY CallEnds
PROPERTY ImplementsService
