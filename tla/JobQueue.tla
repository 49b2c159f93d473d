------------------------------ MODULE JobQueue ------------------------------
(***************************************************************************)
(* class JobQueue of package_manager.h: the queue behind Search, Prune and *)
(* GenerateCache.  Everything runs on the thread of the Qt event loop.     *)
(* runTask() and run() are called from that loop; run() is never called    *)
(* directly, it is posted (Qt::QueuedConnection), so runEvents counts the  *)
(* posted calls.  A job may open an event loop of its own (listRemote      *)
(* does), and while it waits there the loop dispatches further runTask()   *)
(* and run() calls on top of it: active is the stack of the jobs that have *)
(* been called and have not returned.                                      *)
(***************************************************************************)
EXTENDS Integers, Sequences, SequencesExt

CONSTANTS Job,             \* the std::function<void()> objects, each used once
          RunningJobsMax,  \* runningJobsMax
          UIntMax          \* largest value of the unsigned counter

ASSUME JobQueueAssumption == /\ RunningJobsMax \in Nat \ {0}
                             /\ UIntMax \in Nat
                             /\ RunningJobsMax <= UIntMax

VARIABLES taskList,          \* std::list of jobs, front first
          runningJobsCount,  \* uint
          runEvents,         \* posted calls of run() not yet dispatched
          active,            \* stack of jobs being executed
          submitted,         \* history: jobs in the order runTask() got them
          started            \* history: jobs in the order run() called them

vars == <<taskList, runningJobsCount, runEvents, active, submitted, started>>

Init == /\ taskList = <<>>
        /\ runningJobsCount = 0
        /\ runEvents = 0
        /\ active = <<>>
        /\ submitted = <<>>
        /\ started = <<>>

\* runningJobsCount-- on an unsigned counter.
Decremented(n) == IF n = 0 THEN UIntMax ELSE n - 1

RunTask(j) ==
    /\ j \notin ToSet(submitted)
    /\ submitted' = Append(submitted, j)
    /\ taskList' = Append(taskList, j)
    /\ IF runningJobsCount < RunningJobsMax
       THEN /\ runningJobsCount' = runningJobsCount + 1
            /\ runEvents' = runEvents + 1
       ELSE UNCHANGED <<runningJobsCount, runEvents>>
    /\ UNCHANGED <<active, started>>

\* (mutant) run() returns on an empty list without giving its slot back.
RunEmptyKeepsSlot ==
    /\ runEvents > 0
    /\ taskList = <<>>
    /\ runEvents' = runEvents - 1
    /\ UNCHANGED <<runningJobsCount, taskList, active, submitted, started>>

\* run() finds nothing to do.
RunEmpty ==
    /\ runEvents > 0
    /\ taskList = <<>>
    /\ runEvents' = runEvents - 1
    /\ runningJobsCount' = Decremented(runningJobsCount)
    /\ UNCHANGED <<taskList, active, submitted, started>>

\* (mutant) run() takes the job from the wrong end of the list.
RunBeginBack ==
    /\ runEvents > 0
    /\ taskList # <<>>
    /\ runEvents' = runEvents - 1
    /\ taskList' = Front(taskList)
    /\ active' = Append(active, Last(taskList))
    /\ started' = Append(started, Last(taskList))
    /\ UNCHANGED <<runningJobsCount, submitted>>

\* run() takes the front job and calls it.
RunBegin ==
    /\ runEvents > 0
    /\ taskList # <<>>
    /\ runEvents' = runEvents - 1
    /\ taskList' = Tail(taskList)
    /\ active' = Append(active, Head(taskList))
    /\ started' = Append(started, Head(taskList))
    /\ UNCHANGED <<runningJobsCount, submitted>>

\* (mutant) the list is not looked at again after the job: run() always gives
\* its slot back.
RunEndNoRepost ==
    /\ active # <<>>
    /\ active' = Front(active)
    /\ runningJobsCount' = Decremented(runningJobsCount)
    /\ UNCHANGED <<runEvents, taskList, submitted, started>>

\* func() returns to run(), which posts itself again or gives its slot back.
RunEnd ==
    /\ active # <<>>
    /\ active' = Front(active)
    /\ IF taskList # <<>>
       THEN /\ runEvents' = runEvents + 1
            /\ UNCHANGED runningJobsCount
       ELSE /\ runningJobsCount' = Decremented(runningJobsCount)
            /\ UNCHANGED runEvents
    /\ UNCHANGED <<taskList, submitted, started>>

Next == \/ \E j \in Job : RunTask(j)
        \/ RunEmpty
        \/ RunBegin
        \/ RunEnd

Spec == Init /\ [][Next]_vars

\* The event loop dispatches what is posted, and jobs return.
Fairness == WF_vars(RunEmpty) /\ WF_vars(RunBegin) /\ WF_vars(RunEnd)

FairSpec == Spec /\ Fairness
-----------------------------------------------------------------------------
\* The values the members of JobQueue take; the counter stays in its width.
TypeOK ==
    /\ taskList \in Seq(Job)
    /\ runningJobsCount \in 0..UIntMax
    /\ runEvents \in Nat
    /\ active \in Seq(Job)
    /\ submitted \in Seq(Job)
    /\ started \in Seq(Job)

\* The counter is exactly the slots in use: a posted run() or a job on the
\* stack.  It therefore never wraps below zero, which would make every later
\* runTask() believe that a job is running and leave its job waiting forever.
SlotsAccounted == runningJobsCount = runEvents + Len(active)

\* However deep the nested loops, the limit on jobs in execution holds.
AtMostMaxRunning == Len(active) <= RunningJobsMax

\* A waiting job always has somebody left who will look at the list: a posted
\* run(), or a job whose return posts one.
NobodyStranded == taskList # <<>> => runEvents + Len(active) > 0

\* Jobs are called in the order in which they were handed over, none twice and
\* none skipped: what was called followed by what waits is what was handed over.
StartOrder == submitted = started \o taskList

\* Every job handed over is eventually called.
EveryJobStarts ==
    \A j \in Job : (j \in ToSet(submitted)) ~> (j \in ToSet(started))

\* The queue keeps the promise of the abstract executor.
Executor == INSTANCE SerialExecutor
    WITH Limit <- RunningJobsMax,
         waiting <- taskList, executing <- active, accepted <- ToSet(submitted)

ImplementsExecutor == Executor!ESpec
=============================================================================
