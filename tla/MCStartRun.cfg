\* Two calls under one key and one under another, with kills and failures.
CONSTANTS
    a = a
    b = b
    c = c
    k1 = k1
    k2 = k2
    browser = browser
    camera = camera
    Nobody = nobody
    Starter <- Calls
    Key <- Keys
    KeyOf <- CallKey
    Resource <- TwoResources
    Claims <- CallClaims
    Mortal <- MortalCalls
SPECIFICATION FairSpec
INVARIANTS
    StartedRunsKeepClaims
    FailuresAreUndone
PROPERTIES
    TableSpec
    StartsReturn
CHECK_DEADLOCK FALSE
