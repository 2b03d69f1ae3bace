\* Any controller, whatever it reports released: the worker ends or is blocked in a
\* call of it, and the run of a dead worker is shown ended.
CONSTANTS
    i1 = i1
    i2 = i2
    Inspector <- OneInspector
    EngineReports = {FALSE}
    MayKill = TRUE
    MayKillEmit = FALSE
SPECIFICATION FairSpec
INVARIANT OnlyLostRunsAreReconciled
PROPERTIES
    RunIsBounded
    DeadRunsAreReconciled
CHECK_DEADLOCK FALSE
