\* Installation, update and removal of what comes from a remote, no questions.
CONSTANTS
    t1 = t1
    t2 = t2
    t3 = t3
    Task = {t1, t2, t3}
    Kind <- KindsRemote
    Asks = {}
    OnlyApp = {}
    Refs <- TwoForUpdate
    Upgrades <- TwoForUpdate
    MaxModules = 2
SPECIFICATION FairSpec
INVARIANTS OneJobAtATime RemovedInTerminalState CancelWhileFetchingHonoured
PROPERTIES FailureIsFinal ServedUnlessCancelledEarly
\* When every task is served and nobody asks for another, the daemon idles.
CHECK_DEADLOCK FALSE
