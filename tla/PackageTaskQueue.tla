-------------------------- MODULE PackageTaskQueue --------------------------
(***************************************************************************)
(* class PackageTaskQueue and the jobs the package manager puts into it,   *)
(* as far as they touch the task they run for.  What the jobs do to the    *)
(* repository is the subject of other modules; here a call into the        *)
(* repository either succeeds or fails.                                    *)
(*                                                                         *)
(* There is one thread.  A job waits in an event loop of its own: for the  *)
(* user's answer, for the reply of a remote, or inside an ostree pull.     *)
(* While it waits that loop dispatches whatever arrives: a new request, a  *)
(* Cancel() call, an answer, a posted start.  The jobs in execution are    *)
(* therefore a stack, frames, of which only the last one can move; events  *)
(* are dispatched only when it waits.                                      *)
(***************************************************************************)
EXTENDS PackageTask, Sequences, SequencesExt

CONSTANTS Task,       \* the tasks the clients ask for, each once
          Kind,       \* [Task -> Kinds], which D-Bus method created the task
          Asks,       \* tasks that need the user's consent (an upgrade without -y)
          OnlyApp,    \* uab tasks whose bundle holds the application alone
          Refs,       \* [Task -> Nat], size of m_refs
          Upgrades,   \* [Task -> Nat], size of the map of upgrades of an update
          MaxModules  \* bound on the modules one installation pulls

Kinds == {"install", "module", "update", "uninstall", "layer", "uab"}

ASSUME TaskAssumption ==
    /\ Kind \in [Task -> Kinds]
    /\ Refs \in [Task -> Nat]
    /\ Upgrades \in [Task -> Nat]
    /\ Asks \subseteq {t \in Task : Kind[t] \in {"install", "layer", "uab"}}
    /\ OnlyApp \subseteq {t \in Task : Kind[t] = "uab"}
    /\ MaxModules \in Nat

VARIABLES task,     \* [Task -> TaskRecord]
          queue,    \* m_taskQueue, front first
          starts,   \* posted calls of the start lambda
          frames,   \* jobs in execution, outermost first
          stale,    \* a ReplyReceived connection outlived its event loop
          broken,   \* a destroyed object was used; anything may follow
          added,    \* history: tasks in the order they were added
          removed,  \* history: [task, state] of every TaskRemoved signal
          cutAt     \* history: where each task's job was when it was cancelled

vars == <<task, queue, starts, frames, stale, broken, added, removed, cutAt>>

WaitPoints == {"ask", "answered", "list", "fetch", "depList", "depFetch", "undo"}

Points == WaitPoints \cup {"called", "begin", "part", "installed", "import", "hooks"}

\* A job in execution: where it is, the modules still to pull, the upgrades
\* still to do, the dependency it is at, whether the running pull began with the
\* cancel flag set, the user's answer, and where to go on after a rollback.
Frame == [task : Task, pc : Points, mods : Nat, ups : Nat,
          dep : {"runtime", "base"}, doomed : BOOLEAN, yes : BOOLEAN,
          then : {"return", "failed", "part", "hooks"}]

NewFrame(t) == [task |-> t, pc |-> "called", mods |-> 0, ups |-> Upgrades[t],
                dep |-> "runtime", doomed |-> FALSE, yes |-> FALSE, then |-> "return"]

Init == /\ task = [t \in Task |-> FreshTask]
        /\ queue = <<>>
        /\ starts = 0
        /\ frames = <<>>
        /\ stale = FALSE
        /\ broken = FALSE
        /\ added = <<>>
        /\ removed = <<>>
        /\ cutAt = [t \in Task |-> "none"]

\* The thread is in an event loop.
Dispatching == ~broken /\ (frames # <<>> => Last(frames).pc \in WaitPoints)

InQueue(t) == t \in ToSet(queue)

\* The job on top is at pc, and its task still exists.
At(pc) == /\ ~broken
          /\ frames # <<>>
          /\ Last(frames).pc = pc
          /\ InQueue(Last(frames).task)

Top == Last(frames)
TopTask == task[Top.task]
TopKind == Kind[Top.task]

UpdatedState(new) == UpdateState(TopTask, Refs[Top.task], new)

\* The job on top goes on as f, with its task now k.
Goto(f, k) == /\ frames' = Append(Front(frames), f)
              /\ task' = [task EXCEPT ![f.task] = k]
              /\ UNCHANGED <<queue, starts, stale, broken, added, removed, cutAt>>

\* (mutant) taskDone forgets to start the next task.
ReturnNoStart(k) ==
    /\ frames' = Front(frames)
    /\ task' = [task EXCEPT ![Top.task] = k]
    /\ queue' = RemoveFirst(queue, Top.task)
    /\ removed' = Append(removed, [task |-> Top.task, state |-> k.state])
    /\ UNCHANGED <<starts, stale, broken, added, cutAt>>

\* The job returns and the taskDone handler runs: TaskRemoved, erase, and the
\* next start unless the task never left the Queued state.
Return(k) ==
    /\ frames' = Front(frames)
    /\ task' = [task EXCEPT ![Top.task] = k]
    /\ queue' = RemoveFirst(queue, Top.task)
    /\ removed' = Append(removed, [task |-> Top.task, state |-> k.state])
    /\ starts' = IF k.state = "Queued" THEN starts ELSE starts + 1
    /\ UNCHANGED <<stale, broken, added, cutAt>>

\* The job returns, possibly after a rollback that pulls a layer back in.
Unwind(k) == \/ Return(k)
             \/ Goto([Top EXCEPT !.pc = "undo", !.then = "return"], k)
-----------------------------------------------------------------------------
(* Events.                                                                 *)

\* (mutant) a new task is put in front of the others.
AddTaskInFront(t) ==
    /\ Dispatching
    /\ t \notin ToSet(added)
    /\ added' = Append(added, t)
    /\ queue' = <<t>> \o queue
    /\ starts' = starts + 1
    /\ task' = [task EXCEPT ![t] = UpdateState(FreshTask, Refs[t], "Queued")]
    /\ UNCHANGED <<frames, stale, broken, removed, cutAt>>

\* addNewTask(), and the updateState(Queued) its callers add to it.
AddTask(t) ==
    /\ Dispatching
    /\ t \notin ToSet(added)
    /\ added' = Append(added, t)
    /\ queue' = Append(queue, t)
    /\ starts' = starts + 1
    /\ task' = [task EXCEPT ![t] = UpdateState(FreshTask, Refs[t], "Queued")]
    /\ UNCHANGED <<frames, stale, broken, removed, cutAt>>

\* The start lambda finds the queue empty or its front not in state Queued.
StartNothing ==
    /\ Dispatching
    /\ starts > 0
    /\ queue # <<>> => task[Head(queue)].state # "Queued"
    /\ starts' = starts - 1
    /\ UNCHANGED <<task, queue, frames, stale, broken, added, removed, cutAt>>

\* (mutant) the start lambda runs the front task whatever its state.
StartTaskAlways ==
    /\ Dispatching
    /\ starts > 0
    /\ queue # <<>>
    /\ starts' = starts - 1
    /\ frames' = Append(frames, NewFrame(Head(queue)))
    /\ UNCHANGED <<task, queue, stale, broken, added, removed, cutAt>>

\* The start lambda runs the front task.
StartTask ==
    /\ Dispatching
    /\ starts > 0
    /\ queue # <<>>
    /\ task[Head(queue)].state = "Queued"
    /\ starts' = starts - 1
    /\ frames' = Append(frames, NewFrame(Head(queue)))
    /\ UNCHANGED <<task, queue, stale, broken, added, removed, cutAt>>

\* Where the job of t is; a task that waits in the queue has none.
PlaceOf(t) ==
    LET own == {i \in DOMAIN frames : frames[i].task = t}
    IN  IF own = {} THEN "queue" ELSE frames[Max(own)].pc

\* The slot Cancel() of a task that is still registered.
CancelTask(t) ==
    /\ Dispatching
    /\ InQueue(t)
    /\ task' = [task EXCEPT ![t] = Cancel(task[t], Refs[t])]
    /\ cutAt' = [cutAt EXCEPT ![t] = IF @ = "none" THEN PlaceOf(t) ELSE @]
    /\ UNCHANGED <<queue, starts, frames, stale, broken, added, removed>>

Asking(f) == f.pc \in {"ask", "answered"}

\* ReplyInteraction(): the signal reaches every connection ever made and not
\* taken down, whichever task the client meant.  A layer or bundle installer
\* cancels its task in the slot.  A connection whose loop or task is gone makes
\* the slot write to a destroyed object.
Reply(yes) ==
    LET asking == {i \in DOMAIN frames : Asking(frames[i])}
        inSlot == {frames[i].task : i \in {j \in asking : Kind[frames[j].task] # "install"}}
    IN  /\ Dispatching
        /\ asking # {}
        /\ frames' = [i \in DOMAIN frames |->
                        IF i \in asking
                        THEN [frames[i] EXCEPT !.pc = "answered", !.yes = yes]
                        ELSE frames[i]]
        /\ task' = [t \in Task |-> IF t \in inSlot /\ ~yes
                                   THEN UpdateState(task[t], Refs[t], "Canceled")
                                   ELSE task[t]]
        /\ broken' = (stale \/ (~yes /\ ~ \A t \in inSlot : InQueue(t)))
        /\ UNCHANGED <<queue, starts, stale, added, removed, cutAt>>
-----------------------------------------------------------------------------
(* The jobs: consent, then by kind.                                        *)

\* The job asks the user and waits, its task still in state Queued.
Ask == /\ At("called")
       /\ Goto([Top EXCEPT !.pc = IF Top.task \in Asks THEN "ask" ELSE "begin"], TopTask)

\* The loop of the question ends.  The connection of Install() stays behind.
Answered ==
    /\ At("answered")
    /\ frames' = Append(Front(frames), [Top EXCEPT !.pc = "begin"])
    /\ stale' = (stale \/ TopKind = "install")
    /\ task' = [task EXCEPT ![Top.task] = IF TopKind = "install" /\ ~Top.yes
                                          THEN UpdatedState("Canceled") ELSE @]
    /\ UNCHANGED <<queue, starts, broken, added, removed, cutAt>>

\* The loop ends for a task that a nested run of the same job has removed.
AnsweredTooLate ==
    /\ ~broken
    /\ frames # <<>>
    /\ Top.pc = "answered"
    /\ ~InQueue(Top.task)
    /\ broken' = TRUE
    /\ UNCHANGED <<task, queue, starts, frames, stale, added, removed, cutAt>>

\* A job of the kinds that check isTaskDone() before they begin.
BeginRefused ==
    /\ At("begin")
    /\ TopKind \in {"install", "uninstall", "layer", "uab"}
    /\ IsTaskDone(TopTask)
    /\ Return(TopTask)

\* Install() up to the listing of the remote modules; a module installation
\* first looks for its application.
BeginInstall ==
    /\ At("begin")
    /\ \/ TopKind = "install" /\ ~IsTaskDone(TopTask)
       \/ TopKind = "module"
    /\ \/ Goto([Top EXCEPT !.pc = "list"], UpdatedState("Processing"))
       \/ TopKind = "module" /\ Return(ReportError(TopTask))

\* The loop over the upgrades of an update.
NextUpgrade ==
    /\ \/ At("begin") /\ TopKind = "update"
       \/ At("part")
    /\ IF Top.ups = 0 \/ TopTask.sub = "AllDone"
       THEN Return(TopTask)
       ELSE Goto([Top EXCEPT !.pc = "list", !.ups = @ - 1], UpdatedState("Processing"))

\* Uninstall(): the layers go, or one cannot be removed and the ones before it
\* are pulled back.  Hooks and the merge of modules cannot fail the task.
UninstallJob ==
    /\ At("begin")
    /\ TopKind = "uninstall"
    /\ ~IsTaskDone(TopTask)
    /\ \/ Return(UpdateState(UpdateSubState(UpdatedState("Processing"), "Uninstall"),
                             Refs[Top.task], "Succeed"))
       \/ Unwind(ReportError(UpdatedState("Processing")))

\* (mutant) the installers do not look at the task after the question.
BeginFileUnchecked ==
    /\ At("begin")
    /\ TopKind \in {"layer", "uab"}
    /\ Goto([Top EXCEPT !.pc = "import"],
            UpdateSubState(UpdatedState("Processing"), "PreAction"))

\* Layer and bundle installers up to the dependencies of the application.
BeginFile ==
    /\ At("begin")
    /\ TopKind \in {"layer", "uab"}
    /\ ~IsTaskDone(TopTask)
    /\ LET k == UpdateSubState(UpdatedState("Processing"), "PreAction")
       IN  \/ Return(ReportError(k))
           \/ \E dep \in {"runtime", "base"} :
                /\ TopKind = "layer" \/ Top.task \in OnlyApp
                /\ Goto([Top EXCEPT !.pc = "depList", !.dep = dep], k)
           \/ /\ Top.task \notin OnlyApp
              /\ Goto([Top EXCEPT !.pc = "import"], k)
-----------------------------------------------------------------------------
(* The jobs: installing one reference.                                     *)

\* The job goes on after one module of InstallRef().
AfterModule(k) ==
    IF Top.mods <= 1 \/ IsTaskDone(k)
    THEN Goto([Top EXCEPT !.pc = "installed", !.mods = 0], k)
    ELSE Goto([Top EXCEPT !.pc = "fetch", !.mods = @ - 1, !.doomed = k.flag], k)

\* The remote cannot be listed or has none of the modules.
ListFails ==
    /\ At("list")
    /\ IF TopKind = "update"
       THEN Goto([Top EXCEPT !.pc = "part"], ReportError(TopTask))
       ELSE Return(ReportError(TopTask))

\* The remote answers; InstallRef() revives the modules that are only marked
\* deleted and begins to pull the others.
ListAnswers ==
    /\ At("list")
    /\ LET k == UpdateSubState(TopTask, "InstallApplication")
       IN  \E n \in 0..MaxModules :
             IF n = 0
             THEN Goto([Top EXCEPT !.pc = "installed"], k)
             ELSE Goto([Top EXCEPT !.pc = "fetch", !.mods = n, !.doomed = k.flag], k)

\* ostree reports an error, and always does when the flag was set beforehand.
FetchFails ==
    /\ At("fetch")
    /\ Goto([Top EXCEPT !.pc = "installed", !.mods = 0], ReportError(TopTask))

\* (mutant) a completed pull is not followed by a look at the task.
FetchEndsUnchecked ==
    /\ At("fetch")
    /\ ~Top.doomed
    /\ LET k == UpdateSubState(TopTask, "InstallApplication")
       IN  \/ AfterModule(k)
           \/ \E dep \in {"runtime", "base"} :
                Goto([Top EXCEPT !.pc = "depList", !.dep = dep], k)

\* A pull completes.  A cancellation that came too late for ostree is noticed
\* here; the main module of an application brings its dependencies.
FetchEnds ==
    /\ At("fetch")
    /\ ~Top.doomed
    /\ \/ AfterModule(TopTask)
       \/ /\ ~IsTaskDone(TopTask)
          /\ \/ AfterModule(UpdatedState("Failed"))
             \/ \E dep \in {"runtime", "base"} :
                  Goto([Top EXCEPT !.pc = "depList", !.dep = dep], TopTask)

\* pullDependency() returns.
AfterDependencies(k) ==
    CASE TopKind = "layer" ->
           IF IsTaskDone(k) THEN Return(k) ELSE Goto([Top EXCEPT !.pc = "import"], k)
      [] TopKind = "uab" -> Goto([Top EXCEPT !.pc = "import"], k)
      [] OTHER -> AfterModule(k)

\* One dependency is in place.
NextDependency(k) ==
    IF Top.dep = "runtime"
    THEN Goto([Top EXCEPT !.pc = "depList", !.dep = "base"], k)
    ELSE AfterDependencies(k)

\* The dependency is found neither on the remotes nor locally.
DependencyUnknown ==
    /\ At("depList")
    /\ AfterDependencies(UpdatedState("Failed"))

DependencyPresent ==
    /\ At("depList")
    /\ NextDependency(TopTask)

\* The dependency must be pulled, unless the task was cancelled meanwhile.
DependencyMissing ==
    /\ At("depList")
    /\ IF IsTaskDone(TopTask)
       THEN AfterDependencies(TopTask)
       ELSE Goto([Top EXCEPT !.pc = "depFetch", !.doomed = TopTask.flag],
                 UpdateSubState(TopTask, IF Top.dep = "runtime" THEN "InstallRuntime"
                                                                ELSE "InstallBase"))

DepFetchFails ==
    /\ At("depFetch")
    /\ AfterDependencies(ReportError(TopTask))

\* The pull of a dependency completes; its hooks may fail.
DepFetchEnds ==
    /\ At("depFetch")
    /\ ~Top.doomed
    /\ IF IsTaskDone(TopTask)
       THEN AfterDependencies(TopTask)
       ELSE NextDependency(TopTask) \/ AfterDependencies(UpdatedState("Failed"))

\* (mutant) Install() does not look at what InstallRef() left.
InstalledUnchecked ==
    /\ At("installed")
    /\ TopKind \in {"install", "module"}
    /\ Return(UpdatedState("Succeed"))

\* What Install() does after InstallRef(): merge, remove the old version or
\* export, generate the cache, run the hooks.
Installed ==
    /\ At("installed")
    /\ TopKind \in {"install", "module"}
    /\ LET k == UpdateSubState(TopTask, "PostAction")
       IN  IF IsTaskDone(TopTask)
           THEN Unwind(TopTask)
           ELSE \/ Return(UpdateState(k, Refs[Top.task], "Succeed"))
                \/ Unwind(ReportError(k))
                \/ Goto([Top EXCEPT !.pc = "undo", !.then = "failed"], k)

\* What Update() does after InstallRef(): one part is complete, whatever becomes
\* of the old version; only a failing cache can still fail the task.
Upgraded ==
    /\ At("installed")
    /\ TopKind = "update"
    /\ LET part == UpdatedState("PartCompleted")
       IN  IF IsTaskDone(TopTask)
           THEN Goto([Top EXCEPT !.pc = "part"], TopTask)
           ELSE \E k \in {part, UpdateSubState(part, "PackageManagerDone")} :
                  \/ Goto([Top EXCEPT !.pc = "part"], k)
                  \/ Goto([Top EXCEPT !.pc = "part"], ReportError(k))
                  \/ Goto([Top EXCEPT !.pc = "undo", !.then = "part"], k)

\* Layer: the directory enters the repository and success is reported at once.
ImportLayer ==
    /\ At("import")
    /\ TopKind = "layer"
    /\ \/ Return(ReportError(TopTask))
       \/ Goto([Top EXCEPT !.pc = "hooks"], UpdatedState("Succeed"))
       \/ Goto([Top EXCEPT !.pc = "undo", !.then = "hooks"], UpdatedState("Succeed"))

\* Bundle: every layer is imported; the task is looked at between two layers.
ImportBundle ==
    /\ At("import")
    /\ TopKind = "uab"
    /\ \/ Return(ReportError(TopTask))
       \/ IsTaskDone(TopTask) /\ Return(TopTask)
       \/ Goto([Top EXCEPT !.pc = "hooks"], TopTask)
       \/ Goto([Top EXCEPT !.pc = "undo", !.then = "hooks"], TopTask)

\* The end of a layer or bundle installation.
Hooks ==
    /\ At("hooks")
    /\ \/ Return(ReportError(TopTask))
       \/ TopKind = "layer" /\ Return(TopTask)
       \/ TopKind = "uab" /\ Return(UpdatedState("Succeed"))

\* A rollback has pulled what it could.
Undone ==
    /\ At("undo")
    /\ CASE Top.then = "return" -> Return(TopTask)
         [] Top.then = "failed" -> Unwind(ReportError(TopTask))
         [] OTHER -> Goto([Top EXCEPT !.pc = Top.then], TopTask)
-----------------------------------------------------------------------------
Event == \/ \E t \in Task : AddTask(t)
         \/ \E t \in Task : CancelTask(t)
         \/ \E yes \in BOOLEAN : Reply(yes)

Start == StartNothing \/ StartTask

JobStep == \/ Ask \/ Answered \/ AnsweredTooLate \/ BeginRefused
           \/ BeginInstall \/ NextUpgrade \/ UninstallJob \/ BeginFile
           \/ ListFails \/ ListAnswers \/ FetchFails \/ FetchEnds
           \/ DependencyUnknown \/ DependencyPresent \/ DependencyMissing
           \/ DepFetchFails \/ DepFetchEnds
           \/ Installed \/ Upgraded \/ ImportLayer \/ ImportBundle \/ Hooks
           \/ Undone

Next == Event \/ Start \/ JobStep

Spec == Init /\ [][Next]_vars

\* The loop dispatches what is posted and every wait of a job but the one for
\* the user ends.  Nobody has to answer, to cancel or to ask for a task.
FairSpec == Spec /\ WF_vars(Start) /\ WF_vars(JobStep)
-----------------------------------------------------------------------------
\* Tasks leave in the order in which they came, each exactly once: the removed
\* ones followed by the queue are the added ones.
ServedInOrder == added = [i \in DOMAIN removed |-> removed[i].task] \o queue

\* Two jobs are never in execution together: package_task.cpp relies on the
\* state of the front task to keep a second start away ("other task is running,
\* wait for it done").
OneJobAtATime == Len(frames) <= 1

\* A client that watches TaskRemoved learns how its task ended.
RemovedInTerminalState ==
    \A i \in DOMAIN removed : removed[i].state \in Terminal

\* A cancellation that arrives while the job is fetching something, or resolving
\* a dependency, is not answered with success.  (A bundle that holds only its
\* application is the exception: installFromUAB() does not look at the task after
\* pullDependency() and reports success.)
CancelWhileFetchingHonoured ==
    \A i \in DOMAIN removed :
        /\ cutAt[removed[i].task] \in {"fetch", "depList", "depFetch"}
        /\ removed[i].task \notin OnlyApp
        => removed[i].state # "Succeed"

\* A job that has reported a failure does not go on to report success, the same
\* bundles excepted.
FailureIsFinal ==
    [][\A t \in Task \ OnlyApp :
          task[t].state = "Failed" => task'[t].state # "Succeed"]_vars

\* A cancellation of a task that still waits for its turn or for its user keeps
\* the job from being executed: it can only end as cancelled.
CancelBeforeBeginHonoured ==
    \A i \in DOMAIN removed :
        cutAt[removed[i].task] \in {"queue", "ask", "answered"}
            => removed[i].state = "Canceled"

\* Every task asked for is eventually removed from the queue: the handler of
\* taskDone starts the next one, whatever became of the one before.
EveryTaskServed ==
    \A t \in Task : (t \in ToSet(added)) ~> (t \notin ToSet(queue))

\* The same as long as no task is cancelled before its job is on the stack;
\* Cancel() calls that meet a job in execution, at any of its waits, hold nobody up.
ServedUnlessCancelledEarly ==
    ([] \A t \in Task : cutAt[t] # "queue") => EveryTaskServed
=============================================================================
