\* Two slots: run() can be dispatched with nothing left to do, and on top of a job.
CONSTANTS
    Job = {j1, j2, j3, j4}
    RunningJobsMax = 2
    UIntMax = 3
SPECIFICATION FairSpec
INVARIANTS SlotsAccounted
PROPERTIES EveryJobStarts ImplementsExecutor
\* Every job has been executed and nobody hands over another.
CHECK_DEADLOCK FALSE
