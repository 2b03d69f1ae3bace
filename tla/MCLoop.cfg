\* Safety of the kernel: two revisions, a write and a read, a step limit.
CONSTANTS
    r1 = r1
    r2 = r2
    k1 = k1
    k2 = k2
    t1 = t1
    NoRev = NoRev
    Rev <- MCRev
    Key <- MCKey
    Mutating = {k1}
    Task = {t1}
    Controls <- AllControls
    MaxSteps = 5
    MaxVerifications = 2
    MaxFrameVisits = 2
    MaxEscalations = 2
    MaxOptions = 6
    PostObserve = TRUE
    HasVerifier = TRUE
    MaxWakes = 1
    Offers <- WriteOrAll
SPECIFICATION Spec
VIEW Settled
SYMMETRY RevisionsAlike
INVARIANTS
    ExecutedOncePerObservation
    ExclusionsAreEarned
    SuccessIsVerified
PROPERTY LedgerSpec
