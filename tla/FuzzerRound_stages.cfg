SPECIFICATION Spec
CONSTANTS
    NumInputs = 2
    inputs_per_class = 2
    MaxNesting = 2
    CTraces = {1, 2}
    SampleSizes <- MCSizes
    IgnoreLists <- MCIgnoreLists
    Errors = TRUE
    AnalyserIsStable = TRUE
INVARIANT ReportedConfirmed
INVARIANT EqualSampleSizes
CHECK_DEADLOCK FALSE
