\* Tasks are cancelled also while they wait in the queue.
CONSTANTS
    t1 = t1
    t2 = t2
    t3 = t3
    Task = {t1, t2, t3}
    Kind <- KindsRemote
    Asks = {}
    OnlyApp = {}
    Refs <- TwoForUpdate
    Upgrades <- TwoForUpdate
    MaxModules = 1
SPECIFICATION FairSpec
PROPERTIES EveryTaskServed
\* When every task is served and nobody asks for another, the daemon idles.
CHECK_DEADLOCK FALSE
