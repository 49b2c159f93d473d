\* A hook fails after the old version has been replaced: one task installs the first version,
\* the second one the next version.
CONSTANTS
    a1 = a1
    a2 = a2
    b1 = b1
    r1 = r1
    r2 = r2
    s = s
    App <- TwoVersions
    Id <- SameId
    Version <- OneAndTwo
    Dep <- Platform
    Needs <- OwnRuntime
    Module <- TwoModules
    Offers <- Everything
    Requests = {"install"}
    MaxTasks = 2
    Faults = {"hook"}
SPECIFICATION Spec
INVARIANTS IconsSurviveReplacement
\* When the tasks are done and nobody asks for another, the daemon idles.
CHECK_DEADLOCK FALSE
