\* Layer, module and bundle, with questions to the user.
CONSTANTS
    t1 = t1
    t2 = t2
    t3 = t3
    Task = {t1, t2, t3}
    Kind <- KindsFile
    Asks = {t1, t3}
    OnlyApp = {t3}
    Refs <- OneEach
    Upgrades <- OneEach
    MaxModules = 1
SPECIFICATION Spec
INVARIANTS ServedInOrder CancelBeforeBeginHonoured
\* When every task is served and nobody asks for another, the daemon idles.
CHECK_DEADLOCK FALSE
