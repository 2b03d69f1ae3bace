\* run() returns with the step limit and the clock switched off.
CONSTANTS
    r1 = r1
    r2 = r2
    k1 = k1
    k2 = k2
    t1 = t1
    NoRev = NoRev
    Rev <- MCRev
    Key = {k1}
    Mutating = {k1}
    Task = {t1}
    Controls <- CheapControls
    MaxSteps = 0
    MaxVerifications = 2
    MaxFrameVisits = 2
    MaxEscalations = 3
    MaxOptions = 6
    PostObserve = TRUE
    HasVerifier = TRUE
    MaxWakes = 1
    Offers <- AlwaysOffered
SPECIFICATION FairSpec
PROPERTY EveryRunReturns
