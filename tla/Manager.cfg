\* Every request, and everything that may go wrong.
CONSTANTS
    a1 = a1
    a2 = a2
    b1 = b1
    r1 = r1
    r2 = r2
    s = s
    App <- Neighbours
    Id <- OwnIds
    Version <- AllVersions
    Dep <- Platform
    Needs <- SharedRuntime
    Module <- TwoModules
    Offers <- BinaryForOne
    Requests = {"install", "downgrade", "module", "update", "uninstall", "prune"}
    MaxTasks = 5
    Faults = {"net", "cancel", "hook", "busy", "race", "twice"}
SPECIFICATION Spec
CONSTRAINT LongIfPlain
INVARIANTS NeverLost SingleVersion FailedInstallLeavesNothing EntriesKept InUseKept AssertionsHold
\* When the tasks are done and nobody asks for another, the daemon idles.
CHECK_DEADLOCK FALSE
