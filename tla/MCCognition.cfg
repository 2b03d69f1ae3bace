CONSTANTS
    u = u
    v = v
    r = r
    q = q
    s = s
    h = h
    j1 = j1
    j2 = j2
    Client <- Cognition
    Kind <- CognitionKind
    Job <- Jobs
    Dedupe <- SameKey
    Answers <- FirstJob
    MaxSends <- CognitionSends
    MaxPending = 2
    MayKill = TRUE
    EmitFails = FALSE
SPECIFICATION FairSpec
INVARIANTS
    AcceptedAnswersStand
    FinishedRunsAskNothing
PROPERTIES
    BookSpec
    OrphanedRunsStop
CHECK_DEADLOCK FALSE
