SPECIFICATION Spec
CONSTANTS
    MAX_ACTORS = 3
INVARIANTS
    SandboxReady
    OopsOnlyAfterFailure
CHECK_DEADLOCK FALSE
