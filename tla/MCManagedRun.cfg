\* Every fault and two inspectors: what must hold whatever happens.
CONSTANTS
    i1 = i1
    i2 = i2
    Inspector <- TwoInspectors
    EngineReports = {TRUE, FALSE}
    MayKill = TRUE
    MayKillEmit = TRUE
SPECIFICATION Spec
SYMMETRY InspectorSymmetry
INVARIANTS
    ClaimsQuarantined
    ReleasedMeansReleased
PROPERTY LifeCycleSpec
CHECK_DEADLOCK FALSE
