\* A restart or a move, and a failure; a self-test or a stop-all, which may find two
\* runs active; runs of an earlier pi.
CONSTANTS
    main = main
    other = other
    ours = ours
    theirs = theirs
    agent = agent
    probe = probe
    q1 = q1
    q2 = q2
    Branch <- Branches
    Session = {ours, theirs}
    SessionOf <- SessionsOf
    Run <- Runs
    Owner <- Owners
    Detached = {agent}
    Claimless = {agent}
    Probe = probe
    Job <- Jobs
    RunOf <- Asks
    Poller = {1, 2}
    Nowhere = nowhere
    Home = main
    MaxMoves = 2
    MaxCommands = 1
    MaxFailures = 1
SPECIFICATION FairSpec
INVARIANTS
    TypeOK
    SafelyStoppedIsReleased
PROPERTIES
    AskedOnce
    QuestionsAreAsked
    LeasesAreRenewed
CHECK_DEADLOCK FALSE
