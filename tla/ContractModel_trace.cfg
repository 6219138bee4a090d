SPECIFICATION Spec
CONSTANTS
    Tests <- MCTests
    MaxNesting = 2
    MaxSpecWindow = 3
INVARIANTS
    ServicesInSync
    SpeculationLeavesNoState
    BoostedSameTrace
PROPERTY
    TracingEnds
    SpeculationComesBack
