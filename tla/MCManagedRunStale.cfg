\* A kill between the last append and its projection.
CONSTANTS
    i1 = i1
    i2 = i2
    Inspector <- OneInspector
    EngineReports = {TRUE}
    MayKill = FALSE
    MayKillEmit = TRUE
SPECIFICATION FairSpec
PROPERTY DeadRunsAreReconciled
CHECK_DEADLOCK FALSE
