--------------------------- MODULE PackageManager ---------------------------
(***************************************************************************)
(* class PackageManager: what its jobs do to the layers of applications,   *)
(* with their nested transactions, while applications start and stop and   *)
(* the other callers of the repository (deferredUninstall(), Prune()) run  *)
(* in the event loops in which a job waits for a remote.  The repository   *)
(* is the atomic store that OSTreeRepo implements; the task the job works  *)
(* for is the subject of PackageTaskQueue, of which only "it is done"      *)
(* matters here.  Every application and dependency is a reference          *)
(* id/version, with one commit; a dependency has the one module binary,    *)
(* and the files an application exports are one link, named after its id.  *)
(***************************************************************************)
EXTENDS Naturals, Sequences, SequencesExt, FiniteSets

CONSTANTS App,      \* references of applications
          Id,       \* [App -> STRING or model value], the id of each
          Version,  \* [App -> Nat]
          Dep,      \* references of runtimes and bases
          Needs,    \* [App -> Seq(Dep)], runtime first, then base
          Module,   \* "binary" and the optional ones
          Offers,   \* [App -> SUBSET Module], the modules on the remote
          Requests, \* the kinds of calls clients make
          MaxTasks, \* bound on the calls that become a task
          Faults    \* what may go wrong

AllRequests == {"install", "downgrade", "module", "update", "uninstall", "prune"}

\* A remote that fails, a client that cancels, a hook that fails, a list of running
\* containers that cannot be read, an application started between a busy check and
\* what follows it, and a client that does not wait for the task it asked for.
AllFaults == {"net", "cancel", "hook", "busy", "race", "twice"}

ASSUME ManagerAssumption ==
    /\ App # {} /\ IsFiniteSet(App)
    /\ DOMAIN Id = App
    /\ Version \in [App -> Nat]
    /\ \A a, b \in App : Id[a] = Id[b] /\ Version[a] = Version[b] => a = b
    /\ Needs \in [App -> Seq(Dep)]
    /\ "binary" \in Module
    /\ Offers \in [App -> SUBSET Module]
    /\ App \cap Dep = {}
    /\ Requests \subseteq AllRequests
    /\ MaxTasks \in Nat
    /\ Faults \subseteq AllFaults

VARIABLES layers,   \* RepoCache: [Layer -> "none", "live" or "deleted"]
          exported, \* the applications the links of desktop entries lead to
          running,  \* applications in containers
          queue,    \* tasks that wait, with what they captured when asked for
          asked,    \* number of tasks so far
          job,      \* the job in execution
          owned,    \* history: ids that were installed and not uninstalled
          twice,    \* history: addLayerItem() met an item it was about to add
          broken,   \* deferredUninstall() dereferenced an error
          met,      \* history: the faults met, the calls other than installing, and what
                    \* became of desktop entries and of rollbacks
          lame,     \* history: applications whose dependencies are still to be pulled,
                    \* were given up, or were pruned
          ragged    \* history: a version has had both listed and deleted modules

vars == <<layers, exported, running, queue, asked, job, owned, twice, broken, met, lame, ragged>>

Layer == (App \X Module) \cup (Dep \X {"binary"})
Binary(r) == <<r, "binary">>

\* A task: the kind of its job, the new and (if any) the old reference, and the
\* modules it was asked for.
Task == [kind : {"install", "module", "update", "uninstall"},
         new : App, old : SUBSET App, mods : SUBSET Module]

Steps == {"idle", "list", "fetch", "deplist", "depfetch", "installed", "replace",
          "post", "undo", "restore", "done"}

\* A job: the step it is at, its task, the modules of the old reference, the
\* modules InstallRef() has still to pull, has pulled and has revived, the
\* dependencies still to look at and the ones pulled, the modules a rollback
\* has to pull back, of which reference, and where it goes on; whether it is
\* done for, and the modules of the new reference that were there before.
Job == [at : Steps, task : Task, oldMods : SUBSET Module,
        todo : SUBSET Module, pulled : SUBSET Module, revived : SUBSET Module,
        deps : Seq(Dep), got : SUBSET Dep,
        lost : SUBSET Module, of : App, then : {"undo", "done"},
        failed : BOOLEAN, before : SUBSET Module]

IsInstalled(r, m) == layers[<<r, m>>] # "none"
Modules(r) == {m \in Module : IsInstalled(r, m)}          \* getModuleList()
Listed(a) == \E m \in Module : layers[<<a, m>>] = "live"

\* clearReference() without a version: the highest one that is not deleted.
Latest(id) == {a \in App : /\ Id[a] = id
                           /\ Listed(a)
                           /\ \A b \in App : Id[b] = id /\ Listed(b) => Version[b] <= Version[a]}

\* latestRemoteReference()
Newest(id) == {a \in App : Id[a] = id /\ \A b \in App : Id[b] = id => Version[b] <= Version[a]}

With(ks, mark) == [k \in Layer |-> IF k \in ks THEN mark ELSE layers[k]]

\* exportDir() makes the link of an entry: one of that name is replaced unless it leads
\* nowhere, when it is taken for absent and in the way of the new one.
Linkable(links, l, r) == \A a \in links : Id[a] = Id[r] => l[Binary(a)] # "none"

\* exportEntries(): the entries of a layer that has a directory.
ExportEntries(links, l, r) == l[Binary(r)] # "none" /\ Linkable(links, l, r)

\* exportReference() of references of different ids.
Export(links, l, refs) ==
    LET done == {r \in refs : ExportEntries(links, l, r)}
    IN  {a \in links : \A r \in done : Id[a] # Id[r]} \cup done

\* unexportReference() finds links by the directory of the layer.
Unexport(links, l, refs) == links \ {r \in refs : l[Binary(r)] # "none"}

\* removeOstreeRef() or markDeleted() stop at the first module that is not there:
\* the ones done before it, in alphabetical order (binary first).
DoneBefore(mods, missing) ==
    {some \in SUBSET (mods \ missing) :
        /\ "binary" \in missing => some = {}
        /\ "binary" \in mods \ missing => "binary" \in some}

Pulling == {"fetch", "deplist", "depfetch"}
Waiting == {"idle", "list", "restore"} \cup Pulling
Dispatching == ~broken /\ job.at \in Waiting
At(step) == ~broken /\ job.at = step

\* One of the faults fs occurs, or none.
Meet(fs) == \E f \in Faults \cap fs : met' = met \cup {f}
Calm == met' = met

AnyTask == [kind |-> "install", new |-> CHOOSE a \in App : TRUE, old |-> {}, mods |-> {}]

NewJob(t) == [at |-> "list", task |-> t, oldMods |-> {}, todo |-> {}, pulled |-> {},
              revived |-> {}, deps |-> <<>>, got |-> {}, lost |-> {}, of |-> t.new,
              then |-> "done", failed |-> FALSE, before |-> Modules(t.new)]

NoJob == [at |-> "idle", task |-> AnyTask, oldMods |-> {}, todo |-> {}, pulled |-> {},
          revived |-> {}, deps |-> <<>>, got |-> {}, lost |-> {}, of |-> AnyTask.new,
          then |-> "done", failed |-> FALSE, before |-> {}]

Init == /\ layers = [k \in Layer |-> "none"]
        /\ exported = {}
        /\ running = {}
        /\ queue = <<>>
        /\ asked = 0
        /\ job = NoJob
        /\ owned = {}
        /\ twice = FALSE
        /\ broken = FALSE
        /\ met = {}
        /\ lame = {}
        /\ ragged = FALSE
-----------------------------------------------------------------------------
(* The D-Bus methods check, capture and queue.                             *)

\* A client waits for its task before it asks for the same application.
Patient(id) == /\ job.at # "idle" => Id[job.task.new] # id
               /\ \A t \in ToSet(queue) : Id[t.new] # id

Add(t, what) ==
    /\ Dispatching
    /\ asked < MaxTasks
    /\ Patient(Id[t.new]) \/ "twice" \in Faults
    /\ queue' = Append(queue, t)
    /\ asked' = asked + 1
    /\ met' = met \cup what \cup (IF Patient(Id[t.new]) THEN {} ELSE {"twice"})
    /\ UNCHANGED <<layers, exported, running, job, owned, twice, broken, lame>>

\* Install() of a version that is not there; a lower one only by force.  The look and the
\* queueing, between which the code waits for a remote, are one step: what gets stale there
\* gets stale in the queue as well.
Install(a) ==
    LET local == Latest(Id[a])
    IN  /\ "install" \in Requests
        /\ ~ Listed(a)
        /\ \A b \in local : Version[b] < Version[a] \/ "downgrade" \in Requests
        /\ Add([kind |-> "install", new |-> a, old |-> local,
                mods |-> {"binary"}],
               IF \A b \in local : Version[b] < Version[a] THEN {} ELSE {"downgrade"})

\* Install() of one optional module; the application is looked up by the job.
InstallModule(a, m) ==
    /\ "module" \in Requests
    /\ m # "binary"
    /\ Add([kind |-> "module", new |-> a, old |-> {}, mods |-> {m}], {})

\* Update() of one application of those that are named: each is upgraded by itself.
Update(a, b) ==
    /\ "update" \in Requests
    /\ a \in Latest(Id[a])
    /\ IsInstalled(a, "binary")
    /\ b \in Newest(Id[a])
    /\ Version[b] > Version[a]
    /\ Add([kind |-> "update", new |-> b, old |-> {a}, mods |-> {}], {})

\* Uninstall() of an application that is not running now.
Uninstall(a, m) ==
    /\ "uninstall" \in Requests
    /\ IsInstalled(a, "binary")
    /\ a \notin running
    /\ Add([kind |-> "uninstall", new |-> a, old |-> {}, mods |-> {m}], {"uninstall"})
-----------------------------------------------------------------------------
(* Applications, and what else uses the repository.                        *)

\* ll-cli run takes the highest version.
Run(a) == /\ ~ broken
          /\ (Dispatching /\ Calm) \/ (~Dispatching /\ Meet({"race"}))
          /\ a \in Latest(Id[a])
          /\ a \notin running
          /\ layers[Binary(a)] = "live"
          /\ \A d \in ToSet(Needs[a]) : layers[Binary(d)] = "live"
          /\ running' = running \cup {a}
          /\ UNCHANGED <<layers, exported, queue, asked, job, owned, twice, broken, lame>>

Exit(a) == /\ a \in running
           /\ running' = running \ {a}
           /\ UNCHANGED <<layers, exported, queue, asked, job, owned, twice, broken, met, lame>>

\* deferredUninstall(), of the hidden layers no application runs from.  The
\* version left is exported, and taken to exist.
DeferredUninstall ==
    LET hidden == {a \in App \ running : \E m \in Module : layers[<<a, m>>] = "deleted"}
        gone   == {k \in Layer : k[1] \in hidden /\ layers[k] = "deleted"}
    IN  /\ Dispatching
        /\ hidden # {}
        /\ layers' = With(gone, "none")
        /\ exported' = Export(Unexport(exported, layers, hidden), layers',
                              UNION {Latest(Id[a]) : a \in hidden})
        /\ broken' = (\E a \in hidden : Latest(Id[a]) = {})
        /\ met' = met \cup (IF job.at \in Pulling /\ job.task.new \in exported'
                           THEN {"early"} ELSE {})
                      \cup (IF \E a \in hidden : \E b \in Latest(Id[a]) : ~ IsInstalled(b, "binary")
                           THEN {"bare"} ELSE {})
        /\ UNCHANGED <<running, queue, asked, job, owned, twice, lame>>

\* The dependencies an application is counted for: the walk ends at the first one
\* that is not installed.
Counted(a) ==
    {Needs[a][i] : i \in {j \in DOMAIN Needs[a] :
                             \A h \in 1..j : layers[Binary(Needs[a][h])] = "live"}}

\* Prune() removes what no listed application is counted for.
Prune ==
    LET listed == {a \in App : layers[Binary(a)] = "live"}
        unused == Dep \ UNION {Counted(a) : a \in listed}
    IN  /\ Dispatching
        /\ "prune" \in Requests
        /\ \E d \in unused : layers[Binary(d)] = "live"
        /\ layers' = With({Binary(d) : d \in unused}, "none")
        /\ met' = met \cup {"prune"}
        /\ lame' = lame \cup {a \in App \ listed : ToSet(Needs[a]) \cap unused # {}}
        /\ UNCHANGED <<exported, running, queue, asked, job, owned, twice, broken>>
-----------------------------------------------------------------------------
(* Jobs.                                                                   *)

Become(j) == job' = j /\ UNCHANGED <<running, queue, asked, owned, broken>>

Goto(step) == Become([job EXCEPT !.at = step])
Fail(step) == Become([job EXCEPT !.at = step, !.failed = TRUE])

\* The front task starts.  Install() asks the old reference for its modules; the
\* module installer looks for its application and for the module.
Begin ==
    LET t == Head(queue)
        j == NewJob(t)
        m == CHOOSE m \in t.mods : TRUE
    IN  /\ At("idle")
        /\ queue # <<>>
        /\ queue' = Tail(queue)
        /\ job' = CASE t.kind = "uninstall" -> [j EXCEPT !.at = "undo"]
                    [] t.kind = "module" ->
                         IF t.new \in Latest(Id[t.new]) /\ m \notin Modules(t.new)
                         THEN j ELSE [j EXCEPT !.at = "done", !.failed = TRUE]
                    [] t.old # {} ->
                         LET mods == UNION {Modules(a) : a \in t.old}
                         IN  [j EXCEPT !.oldMods = mods, !.task.mods = mods]
                    [] OTHER -> j
        /\ UNCHANGED <<layers, exported, running, asked, owned, twice, broken, met, lame>>

\* The job is over and taskDone has been emitted.
Return ==
    LET id == Id[job.task.new]
        left == \E a \in App : Id[a] = id /\ layers[Binary(a)] = "live"
    IN  /\ At("done")
        /\ job' = NoJob
        /\ owned' = IF job.failed THEN owned
                    ELSE IF job.task.kind # "uninstall" THEN owned \cup {id}
                    ELSE IF left THEN owned ELSE owned \ {id}
        /\ UNCHANGED <<layers, exported, running, queue, asked, twice, broken, met, lame>>
-----------------------------------------------------------------------------
(* InstallRef().                                                           *)

\* The remote does not answer, or has none of the modules.
ListFails ==
    /\ At("list")
    /\ Meet({"net"}) \/ (job.task.mods \cap Offers[job.task.new] = {} /\ Calm)
    /\ Fail("done")
    /\ UNCHANGED <<layers, exported, twice, lame>>

\* (mutant) a module that is only marked deleted counts as installed.
ListAnswersUnrevived ==
    LET new == job.task.new
        mods == job.task.mods \cap Offers[new]
        back == {m \in mods : layers[<<new, m>>] = "deleted"}
    IN  /\ At("list")
        /\ mods # {}
        /\ Become([job EXCEPT !.at = IF back = mods THEN "installed" ELSE "fetch",
                              !.task.mods = mods, !.todo = mods \ back])
        /\ UNCHANGED <<layers, exported, twice, met, lame>>

\* Modules that are only marked deleted are revived, the others pulled.
ListAnswers ==
    LET new == job.task.new
        mods == job.task.mods \cap Offers[new]
        back == {m \in mods : layers[<<new, m>>] = "deleted"}
    IN  /\ At("list")
        /\ mods # {}
        /\ layers' = With({new} \X back, "live")
        /\ Become([job EXCEPT !.at = IF back = mods THEN "installed" ELSE "fetch",
                              !.task.mods = mods, !.revived = back, !.todo = mods \ back])
        /\ UNCHANGED <<exported, twice, met, lame>>

\* Modules are pulled in alphabetical order: binary before all others.
IsNext(m) == m \in job.todo /\ ("binary" \in job.todo => m = "binary")

\* (mutant) the rollback removes every module of the reference.
RolledBackWhole(l) == [k \in Layer |-> IF k[1] = job.task.new THEN "none" ELSE l[k]]

\* The transaction of InstallRef() is rolled back: pulled modules are removed,
\* revived ones marked again.
RolledBack(l) ==
    LET new == job.task.new
    IN  [k \in Layer |-> IF k \in {new} \X job.pulled THEN "none"
                         ELSE IF k \in {new} \X job.revived /\ l[k] # "none" THEN "deleted"
                         ELSE l[k]]

\* (mutant) Install() leaves the rollback to InstallRef().
GiveUpOnce == Fail("done")

\* Install() then undoes what is left, Update() does not.
GiveUp == Fail(IF job.task.kind = "update" THEN "done" ELSE "undo")

\* A pull fails or is cancelled, or ends with an item that is there already.
FetchFails ==
    \E m \in job.todo :
        /\ At("fetch")
        /\ IsNext(m)
        /\ Meet({"net", "cancel"}) \/ (IsInstalled(job.task.new, m) /\ Calm)
        /\ layers' = RolledBack(layers)
        /\ GiveUp
        /\ twice' = (twice \/ IsInstalled(job.task.new, m))
        /\ UNCHANGED <<exported, lame>>

\* The module is in; the application brings its dependencies.
Fetched ==
    \E m \in job.todo :
        /\ At("fetch")
        /\ IsNext(m)
        /\ ~ IsInstalled(job.task.new, m)
        /\ layers' = With({<<job.task.new, m>>}, "live")
        /\ LET rest == job.todo \ {m}
               needs == IF m = "binary" THEN Needs[job.task.new] ELSE <<>>
           IN  Become([job EXCEPT !.todo = rest, !.pulled = @ \cup {m}, !.deps = needs,
                                  !.at = IF needs # <<>> THEN "deplist"
                                         ELSE IF rest = {} THEN "installed" ELSE "fetch"])
        /\ lame' = IF m = "binary" THEN lame \cup {job.task.new} ELSE lame
        /\ UNCHANGED <<exported, twice, met>>

\* The module is in, but the task has been cancelled: the rollback knows only the
\* modules before it.
FetchedTooLate ==
    \E m \in job.todo :
        /\ At("fetch")
        /\ Meet({"cancel"})
        /\ IsNext(m)
        /\ ~ IsInstalled(job.task.new, m)
        /\ layers' = RolledBack(With({<<job.task.new, m>>}, "live"))
        /\ GiveUp
        /\ lame' = IF m = "binary" THEN lame \cup {job.task.new} ELSE lame
        /\ UNCHANGED <<exported, twice>>
-----------------------------------------------------------------------------
(* pullDependency().                                                       *)

\* The next dependency, or else the next module.
AfterDep(j) ==
    [j EXCEPT !.deps = Tail(@),
              !.at = IF Len(j.deps) > 1 THEN "deplist"
                     ELSE IF j.todo = {} THEN "installed" ELSE "fetch"]

\* With the last dependency the application has them all.
Supplied == lame' = IF Len(job.deps) = 1 THEN lame \ {job.task.new} ELSE lame

DepPresent ==
    /\ At("deplist")
    /\ IsInstalled(Head(job.deps), "binary")
    /\ Become(AfterDep(job))
    /\ Supplied
    /\ UNCHANGED <<layers, exported, twice, met>>

DepMissing ==
    /\ At("deplist")
    /\ ~ IsInstalled(Head(job.deps), "binary")
    /\ Goto("depfetch")
    /\ UNCHANGED <<layers, exported, twice, met, lame>>

\* The job is done for when pullDependency() returns.  InstallRef() looks only
\* before the next module: when none is left it commits, and the application stays.
AfterFailure(l) ==
    /\ layers' = IF job.todo = {} THEN l ELSE RolledBack(l)
    /\ GiveUp
    /\ UNCHANGED <<exported, twice, lame>>

\* pullDependency() takes back the dependencies it has pulled.
WithoutDeps(l) == [k \in Layer |-> IF k \in {Binary(d) : d \in job.got} THEN "none" ELSE l[k]]

\* The dependency is unknown, or the task has been cancelled meanwhile.
DepListFails ==
    /\ At("deplist")
    /\ Meet({"net", "cancel"})
    /\ ~ IsInstalled(Head(job.deps), "binary")
    /\ AfterFailure(WithoutDeps(layers))

\* The task has been cancelled, but nothing is left to pull.
DepsTooLate ==
    /\ At("deplist")
    /\ Meet({"cancel"})
    /\ Len(job.deps) = 1
    /\ IsInstalled(Head(job.deps), "binary")
    /\ AfterFailure(layers)

DepFetchFails ==
    /\ At("depfetch")
    /\ Meet({"net", "cancel"})
    /\ AfterFailure(WithoutDeps(layers))

\* The dependency is in when its hook fails, or it turns out that the task has been
\* cancelled: it is not yet among those that are taken back.
DepFetchedTooLate ==
    /\ At("depfetch")
    /\ Meet({"hook", "cancel"})
    /\ AfterFailure([WithoutDeps(layers) EXCEPT ![Binary(Head(job.deps))] = "live"])

DepFetched ==
    /\ At("depfetch")
    /\ layers' = With({Binary(Head(job.deps))}, "live")
    /\ Become(AfterDep([job EXCEPT !.got = @ \cup {Head(job.deps)}]))
    /\ Supplied
    /\ UNCHANGED <<exported, twice, met>>
-----------------------------------------------------------------------------
(* After InstallRef(): the old version goes.                               *)

\* A failure after InstallRef() fails an installation, which is undone, and is only
\* logged by an update.
LogOrUndo == IF job.task.kind = "update" THEN Goto("done") ELSE Fail("undo")

\* The application that was asked for is not there.
InstalledNothing ==
    /\ At("installed")
    /\ ~ IsInstalled(job.task.new, "binary")
    /\ LogOrUndo
    /\ UNCHANGED <<layers, exported, twice, met, lame>>

\* Nothing to replace: the new version is exported.
InstalledFirst ==
    /\ At("installed")
    /\ IsInstalled(job.task.new, "binary")
    /\ job.task.old = {}
    /\ exported' = Export(exported, layers, {job.task.new})
    /\ Goto("post")
    /\ UNCHANGED <<layers, twice, met, lame>>

\* (mutant) nobody checks whether the old version is running.
OldIdleUnchecked(a) ==
    /\ At("installed")
    /\ IsInstalled(job.task.new, "binary")
    /\ a \in job.task.old
    /\ Goto("replace")
    /\ UNCHANGED <<layers, exported, twice, met, lame>>

\* The busy check of removeAfterInstall(): the old version is not running, ...
OldIdle(a) ==
    /\ At("installed")
    /\ IsInstalled(job.task.new, "binary")
    /\ a \in job.task.old \ running
    /\ Goto("replace")
    /\ UNCHANGED <<layers, exported, twice, met, lame>>

\* (mutant) ... is running, and left alone, ...
OldBusyKept(a) ==
    /\ At("installed")
    /\ IsInstalled(job.task.new, "binary")
    /\ a \in job.task.old \cap running
    /\ Goto("post")
    /\ UNCHANGED <<layers, exported, twice, met, lame>>

\* ... is running, and hidden for as long (or not at all, when a module is missing,
\* in which case the ones hidden before are live again), ...
OldBusy(a) ==
    LET missing == job.oldMods \ Modules(a)
    IN  /\ At("installed")
        /\ IsInstalled(job.task.new, "binary")
        /\ a \in job.task.old \cap running
        /\ IF missing = {}
           THEN layers' = With({a} \X job.oldMods, "deleted") /\ Goto("post")
           ELSE \E some \in DoneBefore(job.oldMods, missing) :
                    layers' = With({a} \X some, "live") /\ LogOrUndo
        /\ UNCHANGED <<exported, twice, met, lame>>

\* ... or nobody knows.
OldUnknown ==
    /\ At("installed")
    /\ IsInstalled(job.task.new, "binary")
    /\ job.task.old # {}
    /\ Meet({"busy"})
    /\ LogOrUndo
    /\ UNCHANGED <<layers, exported, twice, lame>>

\* The rollback of a removal has to pull modules back.
PullBack(a, mods, failed, then) ==
    Become([job EXCEPT !.at = "restore", !.lost = mods, !.of = a, !.failed = failed, !.then = then])

\* (mutant) the old version is removed before the new one is exported.
ReplaceThenExport(a) ==
    /\ At("replace")
    /\ a \in job.task.old
    /\ layers' = With({a} \X job.oldMods, "none")
    /\ exported' = Export(exported, layers', {job.task.new})
    /\ Goto("post")
    /\ UNCHANGED <<twice, met, lame>>

\* removeAfterInstall() of an old version that was not running: the new one is
\* exported, the old one taken back and removed.  If one of its modules is gone
\* the ones before it are pulled back.
Replace(a) ==
    LET new     == job.task.new
        update  == job.task.kind = "update"
        missing == job.oldMods \ Modules(a)
    IN  /\ At("replace")
        /\ a \in job.task.old
        /\ exported' = Unexport(Export(exported, layers, {new}), layers, {a})
        /\ IF missing = {}
           THEN layers' = With({a} \X job.oldMods, "none") /\ Goto("post")
           ELSE \E some \in DoneBefore(job.oldMods, missing) :
                    /\ layers' = With({a} \X some, "none")
                    /\ PullBack(a, some, ~update, IF update THEN "done" ELSE "undo")
        /\ UNCHANGED <<twice, met, lame>>

\* The cache of the new version and the hooks; both may fail.
PostInstall ==
    /\ At("post")
    /\ (Goto("done") /\ Calm) \/ (LogOrUndo /\ Meet({"hook"}))
    /\ UNCHANGED <<layers, exported, twice, lame>>
-----------------------------------------------------------------------------
(* Removing: the job of Uninstall(), and the rollback of Install().        *)

\* Uninstall() of the module binary is of the whole application.
Whole(t) == t.kind = "uninstall" /\ t.mods = {"binary"}

\* UninstallRef(): modules are removed one by one; if one is gone already the ones
\* before it are pulled back.
UninstallRef ==
    LET t       == job.task
        mods    == IF Whole(t) THEN Modules(t.new) ELSE t.mods
        missing == mods \ Modules(t.new)
    IN  /\ At("undo")
        /\ exported' = IF Whole(t) THEN Unexport(exported, layers, {t.new}) ELSE exported
        /\ IF missing = {}
           THEN layers' = With({t.new} \X mods, "none") /\ Goto("done")
           ELSE \E some \in DoneBefore(mods, missing) :
                    /\ layers' = With({t.new} \X some, "none")
                    /\ PullBack(t.new, some, TRUE, "done")
        /\ UNCHANGED <<twice, met, lame>>

\* A rollback pulls a module back, or cannot.
Restore ==
    \E m \in job.lost :
        /\ At("restore")
        /\ \/ layers' = With({<<job.of, m>>}, "live") /\ Calm
           \/ "net" \in Faults /\ met' = met \cup {"net", "unrestored"} /\ UNCHANGED layers
        /\ Become([job EXCEPT !.lost = @ \ {m}])
        /\ UNCHANGED <<exported, twice, lame>>

\* The rollback ends with the desktop entries, if it began with them.
Restored ==
    LET back == Export(exported, layers, {job.of})
    IN  /\ At("restore")
        /\ job.lost = {}
        /\ exported' = CASE job.of \in job.task.old -> Unexport(back, layers, {job.task.new})
                         [] Whole(job.task) -> back
                         [] OTHER -> exported
        /\ Goto(job.then)
        /\ UNCHANGED <<layers, twice, met, lame>>
-----------------------------------------------------------------------------
Step == \/ \E a \in App : \/ Install(a) \/ Run(a) \/ Exit(a)
                          \/ OldIdle(a) \/ OldBusy(a) \/ Replace(a)
        \/ \E a \in App, m \in Module : InstallModule(a, m) \/ Uninstall(a, m)
        \/ \E a, b \in App : Update(a, b)
        \/ DeferredUninstall \/ Prune
        \/ Begin \/ Return
        \/ ListFails \/ ListAnswers \/ FetchFails \/ Fetched \/ FetchedTooLate
        \/ DepPresent \/ DepMissing \/ DepListFails \/ DepsTooLate
        \/ DepFetchFails \/ DepFetchedTooLate \/ DepFetched
        \/ InstalledNothing \/ InstalledFirst \/ OldUnknown \/ PostInstall
        \/ UninstallRef \/ Restore \/ Restored

\* A version of which only some modules are hidden: the ones of another version are
\* revived when it is installed again, or a rollback pulls back some of them.
Mixed == \E a \in App, m, n \in Module :
             layers[<<a, m>>] = "live" /\ layers[<<a, n>>] = "deleted"

Next == Step /\ ragged' = (ragged \/ Mixed')

Spec == Init /\ [][Next]_vars
-----------------------------------------------------------------------------
Idle == ~broken /\ job.at = "idle"
IsLive(r) == layers[Binary(r)] = "live"

\* The values the variables take.
TypeOK ==
    /\ layers \in [Layer -> {"none", "live", "deleted"}]
    /\ exported \subseteq App
    /\ running \subseteq App
    /\ queue \in Seq(Task)
    /\ asked \in 0..MaxTasks
    /\ job \in Job
    /\ owned \subseteq {Id[a] : a \in App}
    /\ twice \in BOOLEAN
    /\ broken \in BOOLEAN
    /\ met \subseteq AllFaults \cup AllRequests \cup {"early", "bare", "unrestored"}
    /\ lame \subseteq App
    /\ ragged \in BOOLEAN

\* None of these has been met so far.
Spared(what) == met \cap what = {}

\* An application that was installed and not uninstalled has a version to run, however
\* its later tasks ended: Install() removes the old version only when InstallRef() has
\* brought the new one, and each rollback restores what its own step has changed.  Not
\* so when a hook fails after the old version was replaced, nor when only some modules of
\* a version were hidden: the others go, and the removal of what is left is rolled back.
NeverLost ==
    Idle /\ Spared({"hook", "twice"}) /\ ~ragged
        => \A id \in owned : \E a \in App : Id[a] = id /\ IsLive(a)

\* Between tasks at most one version of an application is listed: the one that Install()
\* or Update() replaced is removed or, while it runs, hidden.  An update has reported
\* success before it comes to that, and a failure then leaves both; and a version that is
\* brought back without all of its modules loses the others to deferredUninstall(), after
\* which it can no longer be hidden.
SingleVersion ==
    Idle /\ Spared({"net", "cancel", "hook", "busy", "twice"}) /\ ~ragged
        => \A a, b \in App : Id[a] = Id[b] /\ IsLive(a) /\ IsLive(b) => a = b

\* An installation that fails leaves no module of its reference that was not there
\* before, through the nested transactions of Install(), InstallRef() and UninstallRef().
\* Not so when it is cancelled too late: the module just pulled is in no list.
FailedInstallLeavesNothing ==
    /\ At("done")
    /\ job.failed
    /\ job.task.kind = "install"
    /\ Spared({"cancel"})
    => Modules(job.task.new) \subseteq job.before

\* A listed application can be started, and a running one goes on: pullDependency() has
\* brought its runtime and its base, and neither Prune() nor the rollback of another task
\* has removed them.  Not so when a dependency could not be pulled after the last module,
\* and Prune() does not count hidden versions, be they running.
DependenciesKept ==
    \A a \in App \ lame : IsLive(a) \/ a \in running => \A d \in ToSet(Needs[a]) : IsLive(d)

\* What a task does without a fault leaves no listed application like that, unless its
\* dependencies are pruned while it is hidden and it is listed again.
NoneLame ==
    /\ Idle
    /\ Spared({"net", "cancel", "hook"})
    /\ Spared({"prune"}) \/ Spared({"twice", "uninstall", "downgrade"})
    => \A a \in lame : IsLive(a) => Needs[a] = <<>>

\* No desktop entry leads to a layer that has been removed, where exportDir() can
\* neither follow nor replace it.  Not so when an installation is undone after it itself
\* or, early, deferredUninstall() has exported the new version: the rollback does not take
\* the entry back.  Nor when a hidden version that still has the entry is installed again,
\* that is undone, and the rollback cannot pull back what it has removed.
EntriesSpared ==
    /\ Spared({"hook", "busy", "twice", "unrestored"}) /\ ~ragged
    /\ Spared({"early"}) \/ Spared({"net", "cancel"})
EntriesLead ==
    Idle /\ EntriesSpared
    => \A a \in exported : IsInstalled(a, "binary")

\* An application that was installed and not uninstalled keeps an icon: an entry that leads
\* to a version that is there (exportReference(), unexportReference()).
IconsAlwaysKept ==
    Idle => \A id \in owned : \E a \in exported : Id[a] = id /\ IsInstalled(a, "binary")

\* It does, whatever remotes and clients do, as long as entries lead somewhere, nobody
\* uninstalls the hidden version that still has the entry, and the highest version that
\* deferredUninstall() finds is not a bare one without the module binary: it has no
\* entries, and those of a lower version that has it are not looked for.
IconsKept == EntriesSpared /\ Spared({"uninstall", "bare"}) => IconsAlwaysKept

\* The icon survives the replacement of a version: "export the new version first, then
\* remove the old one", removeAfterInstall() says, lest the icon be lost.  It is about a task
\* that found a version to replace, at its end, whether it succeeds or is rolled back.
IconsSurviveReplacement ==
    At("done") /\ job.task.kind = "install" /\ job.task.old # {}
    => \E a \in exported : Id[a] = Id[job.task.new] /\ IsInstalled(a, "binary")

\* The layer an application runs from is not removed under it when a version replaces
\* another: isRefBusy() and the deferred removal are there for that.  Uninstall() looks
\* too early, and a rollback does not look.
RunningKept ==
    Spared({"net", "cancel", "hook", "busy", "race", "twice", "uninstall"}) /\ ~ragged
        => \A a \in running : IsInstalled(a, "binary")

\* No job pulls a layer that is listed already, RepoCache::addLayerItem() asserts, if
\* clients wait for their tasks.
NeverAddedTwice == Spared({"twice"}) => ~ twice

\* deferredUninstall() finds a version to export in place of each one it removes, unless
\* that was uninstalled, or undone, while the other one was running, or it removes some
\* modules of a version of which the others are listed.
NoUndefined == Spared({"hook", "uninstall", "twice"}) /\ ~ragged => ~ broken

\* The properties the runs check.  Desktop entries lead to layers, and applications that
\* are installed have one (exportReference() and unexportReference() in
\* removeAfterInstall(), Uninstall() and deferredUninstall()).
EntriesKept == EntriesLead /\ IconsKept

\* What is in use is kept: the dependencies of listed and of running applications, and
\* the layer of the running ones (isRefBusy(), the rollback of pullDependency(), Prune()).
InUseKept == DependenciesKept /\ NoneLame /\ RunningKept

\* What the code takes for granted: the types, addLayerItem()'s assertion, and that the
\* list deferredUninstall() dereferences is not an error.
AssertionsHold == TypeOK /\ NeverAddedTwice /\ NoUndefined
=============================================================================
