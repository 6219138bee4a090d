SPECIFICATION LoopSpec
CONSTANTS
    Modes = {"P+P", "PP+P", "TSC"}
    NumTestCases = 2
    MaxSessions = 3
    Nonstop = TRUE
INVARIANT MeasuresRightCode
CHECK_DEADLOCK FALSE
