CONSTANTS
    u = u
    v = v
    r = r
    q = q
    s = s
    h = h
    j1 = j1
    j2 = j2
    Client <- Updates
    Kind <- UpdateKind
    Job <- NoJobs
    Dedupe <- NoKey
    Answers <- NoAnswer
    MaxSends <- UpdateSends
    MaxPending = 2
    MayKill = TRUE
    EmitFails = TRUE
SPECIFICATION Spec
INVARIANTS
    TypeOK
    
    RejectedMeansUnchanged
    KernelTaskIsRecorded
CHECK_DEADLOCK FALSE
