SPECIFICATION Spec
CONSTANTS
    Files <- MCFiles
    MaxActors = 3
    MAX_SECTION_SIZE = 3
    MaxWrite = 3
    AllocFailures = TRUE
INVARIANT CodeComplete
INVARIANT UploadedTestCaseReady
PROPERTY TestCaseUploadEnds
