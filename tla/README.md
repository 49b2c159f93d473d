# linyaps in TLA+

A verification project for linyaps, the package manager and container runtime in
`src/`. TLC checks the modules on small instances; TLAPS proves theorems about
fifteen of them for every value of their constants. `PROJECT.json` lists components, runs,
mutants, the map from definitions to source lines, findings, hazards and theorems.

    tlc -workers 2 -config Manager.cfg MCPackageManager      # one run
    tlapm OSTreeRepoProofs.tla                                # one proof module

## 1. The system

linyaps installs applications, runtimes and bases as *layers* of an ostree
repository and runs applications from their checkouts in containers. `ll-cli` asks
`ll-package-manager`, a daemon on the D-Bus system bus, which alone writes the
repository. `ll-builder` builds layers in a repository of its own and packs them into
bundles (`.uab`) and layer files, which the daemon can install and which, for bundles,
run by themselves.

| part | state it keeps | operations | talks to |
|---|---|---|---|
| `PackageManager` (package_manager.cpp) | the task queue, a `JobQueue` for each of Search, Prune, GenerateCache, a timer | `Install`, `Update`, `Uninstall`, `InstallFromFile`, `Prune`, `Search`, `GenerateCache`, `setConfiguration`, `ReplyInteraction`, `deferredUninstall` | repository, task queue, containers (files in `/run/linglong`) |
| `PackageTask`, `PackageTaskQueue` (package_task.cpp/.h) | state, sub-state, completed parts and cancel flag of each task; a list of tasks | `addNewTask`, `updateState`, `updateSubState`, `reportError`, `Cancel`, the *start* and *taskDone* lambdas | the jobs it runs, D-Bus clients |
| `JobQueue` (package_manager.h) | a list of functions, an unsigned counter | `runTask`, `run` | the event loop |
| `OSTreeRepo`, layers (ostree_repo.cpp) | ostree refs and objects, `layers/<commit>`, `merged/<id>` | `pull`, `importLayerDir`, `remove`, `markDeleted`, `prune`, `setConfig`, `mergeModules` | `RepoCache`, ostree, remotes |
| `RepoCache` (repo_cache.cpp) | layer items and merged items, in memory and in `states.json` | `create`, `rebuildCache`, `addLayerItem`, `deleteLayerItem`, `updateMergedItems`, `writeToDisk` | the file system |
| `OSTreeRepo`, exported entries | links under `entries/` | `exportReference`, `unexportReference`, `exportAllEntries` | layer directories |
| `OSTreeRepo`, remotes | configuration with priorities, the client factory, `config.yaml`, ostree remotes | `clearReference`, `latestRemoteReference`, `getRemoteModuleList…`, `promotePriority`, `recoverPriority`, `setConfig` | HTTP server |
| migration (migrate.cpp) | `.version` beside the repository, refs, links to layers | `tryMigrate` | the file system |
| repository lock | `/run/linglong/lock` | `lockRepo`, `unlockRepo`, `lockCheck` of ll-cli | the file system |
| versions, references | none | parsing, comparison, semantic matching | - |
| `ll-cli` | the task or job it watches | one command each, `waitTaskDone`, `interaction`, `ensureCache`, `run` | the daemon, containers |
| run context, container builder | state file, OCI bundle, Wayland socket | resolve, build, run, delegate to a running container | OCI runtime, `ll-init` |
| `ll-init` | children, epoll descriptors, a timer, a socket | run, reap, forward signals, accept commands | the kernel, `ll-cli` |
| OCI generator | a list of mounts, a tree of mount points | request, patch, self-adjust | layer directories |
| `ll-builder` | project directory, its repository and configuration | `build` in stages, `export`, `push`, `import`, `remove`, `run`, `repo` | repository, remotes |
| packagers, `uab` | `.uabBuild`, mounted bundles, unpacked files | pack, verify, unpack, mount, clean up | mkfs.erofs, erofsfuse |

### What is hard

* **One thread, nested event loops.** The daemon has no second thread, but a job
  waits for the user, for a remote or for an ostree pull in an event loop of its own,
  and that loop dispatches everything: new requests, `Cancel()`, answers, the start of
  the next task, the deferred removal, pruning. What a job has read before a wait may
  be stale after it.
* **State in several places.** A layer is a ref, objects, a directory, an item in memory
  and an item in `states.json`; a configuration is memory, `config.yaml` and ostree's own
  remotes; a cache of the dynamic linker is two files. They are written one after the
  other by processes that may die.
* **Nested transactions.** `Install`, `InstallRef`, `pullDependency`, `UninstallRef` and
  `removeAfterInstall` each roll back their own step; rollbacks pull from the network
  and fail themselves.
* **Running applications.** They start and stop at any time, and their layers must stay:
  a replaced version that runs is hidden and removed later. Only files tell the daemon
  who runs.
* **Broadcast answers.** A client learns the outcome of its task from a signal that may
  come before it knows the task's name, and that other clients' tasks send as well.
* **Edges and merged signals.** `ll-init` waits for edge-triggered descriptors: what it does
  not take when it is woken, nobody brings again.
* **Interrupted builds.** A build or an export works in directories an earlier one, killed
  anywhere, has left.

### What makes each part correct

Jobs start in order, at most so many at a time, and none is forgotten (`JobQueue`).
Jobs of the task queue do not overlap, tasks leave in order and in a terminal state, a
failure or a timely cancellation is not reported as success, and every task is served
(`PackageTaskQueue`). What is listed is completely checked out, installing and removing
are atomic and durable, a hidden layer stays hidden (`OSTreeRepo`). A failed or cancelled
task leaves the system as usable as before: no application is lost, no second version
stays, no layer is removed under a process, dependencies and icons are there
(`PackageManager`). A command ends, with an exit code that tells what became of its own task
(`Cli`). `--repo` is honoured and leaves no trace in the configuration (`Remotes`). A lookup
finds the newest version (`Versions`). A cache that is found is whole (`Cache`). Containers
run on layers that exist and are on record (`RunApp`, `RunContext`), with mounts that can be
made and hide nothing (`ContainerCfg`). A container ends when its last process does and never
before (`LLInit`). What is built, packed, pushed or unpacked is one build, whole (`Builder`,
`Bundle`, `Unpack`), and a bundle that was run leaves nothing behind (`Uab`). A repository that
a command works on is migrated whole and has the remotes it is configured for
(`BuilderRepo`).

## 2. Modules

| module | models | abstraction |
|---|---|---|
| `SerialExecutor` | what a `JobQueue` promises | one line of jobs, a limit |
| `JobQueue` | `JobQueue` | a job is a value; posted `run()` calls are counted; the stack of nested jobs is a sequence |
| `JobQueueProofs` | theorems about `JobQueue` | |
| `PackageTask` | `PackageTask` as operators on a record | percentages and messages left out |
| `PackageTaskQueue` | the task queue and the control flow of every job in it | a call into the repository succeeds or fails; the stack of jobs is a sequence of frames with a program counter |
| `PackageTaskQueueProofs` | theorems about `PackageTaskQueue` | |
| `LayerStore` | what the repository promises | each layer absent, live or deleted |
| `OSTreeRepo` | `OSTreeRepo` (layers) with `RepoCache` | every write to one of the places is a step; file contents are "absent, partial, full" |
| `RepoFiles` | `OSTreeRepo` and `BuilderRepo` side by side | they share the format of a repository, no state |
| `OSTreeRepoProofs` | theorems about `OSTreeRepo`, `BuilderRepo` and `RepoFiles` | |
| `PackageManager` | the jobs' effect on layers and desktop entries, `deferredUninstall`, `Prune`, starting and stopping of applications | the repository is the atomic store of `LayerStore`; one link per application |
| `PackageManagerProofs` | theorems about `PackageManager` | |
| `BuilderRepo` | the start of `ll-builder` (configuration, migration, opening) and `ll-builder repo`; migration as the daemon runs it | a layer is an id and a module; a repository in `config.yaml` is a URL and a flag |
| `Remotes` | repositories in memory, in `config.yaml` and as remotes; `ll-cli repo`; lookups with `--repo` | one answer per server |
| `RemotesProofs` | theorems about `Remotes` | |
| `Versions` | versions, references and the lookups that use them | a version is a sequence of words of a lexicon that knows how words compare |
| `Cache` | `generateCache()`, `tryGenerateCache()`, `ensureCache()` | a layering is a value |
| `Cli` | commands of `ll-cli` that wait for the daemon | the daemon seen from outside; a task bears the name of its client |
| `CliProofs` | theorems about `Cli` and `Cache` | |
| `RunContext` | which layers a container is made of | layers as records; versions are numbers; extensions are a set |
| `RunApp` | `ll-cli run`, state files, bundles, sockets, delegation, against removals and the lock | a runner is a process and the container it starts |
| `LLInit` | `ll-init` with its event loop | processes, their parents, pending edges |
| `LLInitProofs` | theorems about `LLInit` | |
| `ContainerCfg` | the mounts of `ContainerCfgBuilder` and their self-adjustment | a path is a sequence of names, a layer a set of paths |
| `Builder` | the stages of a build and the commands on its results | a file is a name and the number of the build that made it |
| `Bundle` | `UABPackager` and `ll-builder export` | a file is a name, a layer and a revision |
| `Uab` | the program in front of a bundle and its loader | mounts on one directory are a stack |
| `Unpack` | reading, verifying and unpacking of bundles and layer files | a file is lengths, missing bytes and damage |
| `ApplicationProofs` | theorems about `RunApp`, `Builder`, `Bundle`, `Uab` and `Unpack` | |
| `MC…` | instances for TLC | |

How they fit: `PackageManager` uses the repository as `LayerStore` specifies it;
`OSTreeRepo` is shown to implement `LayerStore` (run `repo_crash`, theorem
`StoreImplemented`). The task a job works for is modelled in full in
`PackageTaskQueue`, where the repository is a coin; `PackageManager` keeps of the task
only whether it has been given up; `Cli` sees the same queue from the client's side.
`JobQueue` carries `Prune`, which is why `Prune` of `PackageManager` may be dispatched in
any wait. `RunApp` extends `RunContext`, and takes removals of layers from
`PackageManager` as what they are to other processes: a look, and a removal some time
later. `LLInit` is the detail of what `RunApp` says of a delegated command: started,
refused, or not answered.

**Scenes.** Modules that share no state are checked side by side: an MC module brings
them together and `scene`, chosen in the initial state, says which one a behaviour is about
(`MCClient`, `MCApplication`, `MCRepoFiles`). The product of the modules would show nothing
more and have very many more states. Modules that are proved about are brought in with `EXTENDS`,
so that run and theorem speak of the same definition; their variables and specifications therefore
have names of their own (`rpc` and `UabSpec` in `Uab`, `bpc` and `ProjectSpec` in `Builder`, and so on).

### State and actions against the code

* `JobQueue`: the variables are the members; `RunTask` is `runTask()`, `RunEmpty`,
  `RunBegin` and `RunEnd` are the early return, the part of `run()` up to the call of the
  job and the part after it. `Decremented` keeps the wrap-around of the unsigned counter.
* `PackageTaskQueue`: `queue` is `m_taskQueue`, `starts` the posted start lambdas,
  `frames` the jobs on the stack. `AddTask`, `CancelTask`, `Reply`, `StartTask` and
  `StartNothing` are events and are dispatched only when the job on top waits. `Return` is
  the end of a job with the taskDone handler. `stale` and `broken` follow the connection
  `Install()` makes to `ReplyReceived` and never takes down: when it is called later the
  model stops, since anything may follow. `cutAt`, `added`, `removed` are history.
* `OSTreeRepo`: `refs`/`stored`, `dirs`, `cache`/`merged`, `disk`/`file` and `mdirs` are
  the places; `op` is the operation in execution with its next step. `Saved` is
  `writeToDisk()`, whose short writes go unnoticed (fault `short`), `NotSaved` the error it
  does report (`write`). `Crash` may happen between any two steps.
* `PackageManager`: `layers` is the cache, `exported` the links, `queue` the tasks with
  what the D-Bus method captured when it was called, `job` the job in execution. A step
  ends where the code enters an event loop or a nested transaction. `met`, `lame` and
  `ragged` are history, in terms of which the properties say what they survive: the faults
  met and the requests made so far; the applications whose dependencies are still to be
  pulled, were given up or were pruned; whether a version has ever had listed and hidden
  modules at once.
* `BuilderRepo`: `config`, `version`, `brefs`, `bdirs`, `remotes` are files; `mine` is the
  configuration in memory. `TryMigrate`, `MigrateRef`, `Linked` and `Stamp` are the steps of
  the migration (the refs in one transaction, each link, `.version`), `OpenRepo` what
  follows, `SaveConfig`, `UpdateOstreeRepoConfig`, `RebuildCache` and `RollBack` the steps of
  `setConfig()`. `Kill` ends the process between any two of them; `StartBuilder` begins the next.
* `Remotes`: `stack` holds the lookups that wait for a server, the innermost last, because
  each is an event loop on top of the one before. `PromotePriority` and
  `RecoverPriority` keep the `int64_t` arithmetic (`Wrap`). `SetConfig` may fail at each of
  its writes and takes back what it takes back. `chosen` is history: the repositories some
  configuration has given the highest priority.
* `Versions`: `SemverParse`, `ParseFallback`, `Less`, `SemanticMatch`, `ReferenceParse` are
  functions of the source; the actions `QueryLayerItem`, `ClearReferenceLocal` and
  `ClearReferenceRemote` apply them to every choice of layers and records of the instance.
  `NewestFound` is the reference definition they are compared with.
* `Cache`: `now` is what the application would run on, `cache` the directory, `job` the
  generation in progress with its transaction, `generator` the requests that wait. `half` is
  history: a removal has failed and left a part of the directory.
* `Cli`: `subs` and `inbox` are the connections and undelivered signals of a process.
  The command actions make the D-Bus call, `Replied` is the code after the answer, where
  some commands connect only then (`LateConnections`), `Wait` the event loop. A call is
  `pending` until the daemon has handled it, which may take longer than the client waits for the
  reply: `CallTimesOut` is the error `waitForFinished()` then returns, and the daemon still
  queues the task. `Interaction` shows a question, `AnswerQuestion` is the user's answer and `Abort` the
  end of a client whose notifier cannot ask.
* `RunApp`: a runner goes through the steps of `Cli::run()` from `LockCheck` to `Close`;
  `content[r]` is the text of its state file, empty for the placeholder. `PmLock`, `PmCheck`
  and `PmRemove` are the three moments of a removal; the look of `deferredUninstall()` is at
  `container.app` only, as in the code, which does since only applications are hidden and what
  a package names as its base, runtime or extension is no application (`KindsAssumption`).
  `PmInstall`, `PmInstalled` and `PmPrune` are installs with their rollback and `Prune()`, both
  of which remove without a look. `faults` are the records, bundles and state files that
  could not be written or removed (`Dump`, `Close`). Without support for Wayland security
  contexts (`SecurityContext`) no socket is made. `Kill` may come at any step. `pm.saw` and
  `late` are history: the processes the look has seen, and those a removal overtook. A pid that
  is used again between look and removal belongs to a process nobody saw, so `Launch` takes it
  out of `saw`.
* `LLInit`: `ready` is epoll's ready list, `batch`, `i`, `ret` the loop over events, kept
  because one handler overwrites `ret` (ll-init.cpp:695). `pending` merges equal signals, as
  a signalfd does. `Cut` kills a client between the length and the text of its command;
  `ClientHangs` is the loop of `handle_client()` that such a client never lets end (524).
* `ContainerCfg`: `MergeMount` is the order in which mounts are requested, `tree` the mount
  points, `TryFixMountpointsTree` visits the nodes in any order. `Exists` follows links, so
  that a dangling one counts as missing; links are leaves of a layer, and no path leads through one.
* `Builder`: `bpc` is the stage; `CommandAborts` ends the command at any stage and keeps what is on
  disk. `out`, `upper`, `mods` and `repo` are the directories and refs later stages read. Steps
  whose failure the code only logs, or does not look at, may fail and go on: `ignored` says
  which of them did in the running build (old directories not removed, entries not copied,
  dependencies not installed or not copied).
  `installFiles()` is a step for the copy of `--full-develop` (`InstallFiles`), one for each rule of
  each module (`InstallModule`; a rule is the names it matches, each rule once) and one for the
  module binary and the entries (`InstallBinary`).
* `Bundle`: `dirs` is `.uabBuild`; `CleanUp` is what a failing export removes and a killed
  one leaves. `Rebuild` is a new revision of a layer between two exports. `Place` is where a
  needed file of the base goes: one outside of `lib/<triplet>` is moved there under its own
  name, after its links were made where it was.
* `Uab`: each instance is two processes, itself and the fork that serves its file system,
  both of which run the same `main()`. `Signal` enters `CleanResource` from anywhere, and
  `fusermount` may fail there unnoticed (`held`). `ChildCleans` is a child that could not become
  the loader and runs the clean-up at its exit, beside its parent.
* `Unpack`: `Verify` is one turn of the loop of `verify()`: a digest is compared when what was read
  is exactly the image, since the rest is an unsigned number that wraps otherwise. `Destroy` may
  fail to unmount and to remove (`undone`). `Pack` does not notice that
  only a part of the image could be appended, nor that an old file could not be removed and stays
  in front of the new one (`LayerFile`).

## 3. Runs

| run | instance | shows |
|---|---|---|
| `jobqueue` | 4 jobs, 2 slots, counter up to 3 | exact counter, every job starts, implements `SerialExecutor` (order and limit) |
| `tasks_remote` | install, update of 2, uninstall; up to 2 modules | one job at a time; tasks removed in a terminal state; a cancellation during a pull and a failure are final; served unless one was cancelled early |
| `tasks_file` | layer, module, bundle, two of which ask | tasks leave in order although jobs nest; a cancellation before the beginning is honoured |
| `repo_crash` | 3 layers of 2 packages, one imported; crash, network and file system faults | listed means checked out; hidden stays hidden; implements `LayerStore` |
| `repo_rebuild` | 2 modules, 2 commits each; short writes, upgrade, `setConfig` | items are what the refs name, one per ref; merged items have directories |
| `repo_write` | scene *layers*: 2 modules, `states.json` cannot be written; scene *builder*: 3 starts, 5 versions of the layout, two configurations, killed anywhere | files that describe one another agree |
| `manager` | two versions of an application, a neighbour that shares a runtime, every fault, 3 tasks; 5 tasks on the two versions when remotes fail or tasks are cancelled | which promise survives which fault |
| `llinit` | the application, one more process, 2 clients, which may be killed, a signal | nobody killed, the exit code kept, no client stranded, the end comes |
| `client` | scenes *cli* (an install beside any of 7 commands, late replies, a crash), *remotes* (2 repositories and an unknown one, 2 installs, an editor), *versions* (20 texts, every pair and every close triple installed), *cache* (2 runners, 2 changes, a death) | outcomes told, tasks not forgotten, commands end; `--repo` honoured and configurations agree; the newest found; caches whole |
| `application` | scenes *builder* (5 projects, 4 sets of options, 2 builds, an ignored failure), *bundle* (8 kinds of export, 2 in a row), *uab* (2 instances, a signal or a failure), *unpack* (images of 1 to 9 bytes, chunks of 4, destructors that fail), *container* (36 sets of features), *run* (2 runners, 2 launches, 2 removals, prunings or rollbacks, a kill, a failing write or removal) | builds and bundles not mixed; nothing left mounted; unpacked whole; mounts fit; layers kept under containers, records true |
| `tasks_cancelled` (violation) | the tasks of `tasks_remote` | a task cancelled at the front before it begins blocks the queue |
| `manager_icon` (violation) | an install, then the replacement of that version, whose hook fails | the rollback takes the icon with the application |

Some properties are conjunctions of named parts, each about one piece of state, and the
hazards in `PROJECT.json` name the parts: `ItemsAreRefs` of `Referenced` and `NoAmbiguousRef`;
`EntriesKept` of `EntriesLead` and `IconsKept`; `InUseKept` of `DependenciesKept`, `NoneLame`
and `RunningKept`; `AssertionsHold` of `TypeOK`, `NeverAddedTwice` and `NoUndefined`;
`FilesAgree` of `CheckedOut`, `MigratedWhole` and `RemotesConfigured`.

**Bounds.** Three tasks are the least with which something waits behind a task that waits behind a
job; two modules and two dependencies are the least with which a rollback finds a part done. Two
versions and a neighbour give a replacement and a shared runtime; the violations of
`PackageManager` that its exclusions stand for need two or three tasks, a few that combine them up
to five, which `LongIfPlain` (`MCPackageManager`) allows to histories without the rarer faults. In
`OSTreeRepo` two layers of one package give a merge, the third an import; `MaxRev` = 2 lets a ref
move once. `UIntMax` is just above the limit, so that a wrong count leaves its type at once.
`PrioMax` = 2 lets priorities reach their limit. Two clients are enough for a signal that is meant
for the other one, two runners for a container to delegate to, two instances for a shared mount
point. Two builds or exports are one that is interrupted and one that meets what it left; three
starts of `ll-builder` are one that migrates, one that configures and one that finds it. Images of
up to nine bytes end before, at and behind the borders of two chunks. `MaxTroubles`, `MaxFaults` and
`MaxIgnored` are 1, since the failures they count do not lead to one another; `MaxCommands` = 2
lets a push or removal follow another command of `ll-builder`. `FewFailures` (`MCApplication`)
keeps failing writes and kills of `ll-cli run` apart, and lets an ignored failure of a build meet
one other command only. The theorems are about any number of each, together. `SecurityContext` is
`TRUE`, the case with more state. Symmetry is used in `application` only, of the processes of
`ll-cli run` and of the instances of a bundle; layers, tasks and commands play different parts.

**Deadlock** is not checked where the system may stop: all jobs done, all tasks asked for,
all processes ended. `OSTreeRepo` alone is checked for deadlock (the process can always be
restarted).

**Fairness.** `JobQueue`: weak fairness of the three outcomes of `run()`: Qt dispatches what
is posted, and jobs return. `PackageTaskQueue`: weak fairness of starts and of job steps: a
wait for a remote or a pull ends, with an answer or an error. Nobody has to answer a
question, cancel or ask for anything. `LLInit`: its loop runs, if need be into the read that
never ends (`ClientHangs`), and a timer that was started fires; no process has to end or
connect. `Cli`: a process handles the signals it has received, and waits for a reply only as long as
D-Bus lets it (`CallTimesOut`); the daemon goes on with its tasks and jobs, but need not handle
a call in time. Nobody has to call, interrupt or answer a question. The other modules state no
liveness.

### What the properties spare

The code does not keep every promise under every fault. The properties say under which it
does, and history variables make that precise (`met`, `lame` and `ragged` in
`PackageManager`); each exclusion was found by TLC without it.

In `PackageManager`:

* `NeverLost`, `IconsKept`: a hook that fails when a version replaces another: the rollback runs
  after the old one was unexported and removed or hidden (finding `manager_icon`). `NeverLost`
  also: a version that was hidden in part lacks a module (see `SingleVersion`), its removal stops
  there, and what was removed cannot be pulled back. `IconsKept` also: uninstalling the hidden
  version that still has the link; and `deferredUninstall()` exporting the highest version it
  finds although that one lacks the module binary (`bare` in `met`), which an update cancelled too
  late leaves.
* `SingleVersion`: `Update()` reports the part as complete before `removeAfterInstall()`; when
  the busy check fails, which one unreadable file in `/run/linglong` causes
  (package_manager.cpp:271), both versions stay. A version revived without all its modules
  loses the others to `deferredUninstall()` and can then not be hidden, because
  `markDeleted()` stops at the missing one; with versions that offer different modules
  this happens without any fault.
* `FailedInstallLeavesNothing`: a cancellation noticed just after a pull leaves that module,
  which is in no list yet (package_manager.cpp:1596).
* `DependenciesKept`, `NoneLame`: dependencies are pulled after the module, and when none is
  left the transaction commits although they failed; `Prune()` counts listed applications
  only (2290), so that a hidden version that runs loses its runtime, and reviving it does not
  look. `DependenciesKept` holds whatever happens, for the applications that are not `lame` by
  one of these; `NoneLame` says when there are none.
* `EntriesLead`: rolling an installation back does not take back what `deferredUninstall()`
  or the installation itself has exported; the dangling link then blocks the next export. A hidden
  version that still has the link is installed again, that is undone, and the rollback cannot pull
  back what it removed (`unrestored`).
* `RunningKept`: `Uninstall()` checks when it is called, the job removes later (1696); the
  rollback of a reinstallation of a hidden, running version removes its layers (1446); the
  lock is released between check and removal.
* `NeverAddedTwice`: `Install()` looks when it is called; two clients asking for the same
  version make the second job pull it again.
* `NoUndefined`: when the listed version is uninstalled while a hidden one runs,
  `deferredUninstall()` dereferences an error (518).

In the other modules:

* `OneJobAtATime` is about jobs that do not ask: a job that waits for its user's answer is
  started again, on top of itself, by the start that a new task posts (package_task.cpp:220).
* `ConfigurationsAgree`, `AskedRepoUsed`: two promotions overlap (ostree_repo.cpp:896); a
  configuration read or written meanwhile keeps the raised priority for good; `--repo` with
  an alias that is not configured dereferences an iterator past the end
  (package_manager.cpp:1300); remotes that could be written in part only. The priority
  `set-default` gives, the largest plus 100, may wrap.
* `EveryCommandEnds`: `search` connects after the reply and misses a `SearchFinished` that
  came before (cli.cpp:1501); a daemon that has crashed answers nobody, and its clients wait
  for ever; nor does it go on while it waits for an answer, for which there is no time limit
  (cli.cpp:439), or behind a task that was cancelled before its start (finding
  `tasks_cancelled`).
* `NoTaskForgotten`: a client whose call timed out does not learn the name of the task that the
  daemon queues later (cli.cpp:1205), and one whose notifier has aborted at the question tells nobody.
* `ExitTellsOutcome`: an interrupted command reports what it believes. `upgrade` believes in
  a success when the parts are complete, before `tryGenerateCache()` can fail.
* `CacheWhole`: a daemon that dies between the two files leaves half a cache, which
  `ensureCache()` accepts, because it looks at `ld.so.conf` only (cli.cpp:2705); and a
  regeneration that fails removes the cache under applications that run. When that removal
  fails, which is only logged (package_manager.cpp:2424), half a cache stays as well.
* `NewestFound`: versions whose words compare in circles (1.9 < 1.10 < 1.1a < 1.9), and numbers
  with leading zeros: 0.01 and 0.1 are equal where they are compared part by part
  (fallback_version.cpp:44) and different as texts.
* `NobodyKilled` spares nothing. `ExitCodeKept`: a SIGTERM before the application has ended
  gives it up, because a status of 0 reads as an end (ll-init.cpp:672). `NoClientStranded`,
  `EndsWhenEmpty`: two clients share one edge (497), and the handler of the timer drops the
  rest of a batch (695). `EndsWhenEmpty` also: a client that is killed between the length and
  the text of its command keeps `ll-init` in a loop for good (524).
* `RunningLayersKept`: a process that comes between the busy check and the removal; `Prune()` and
  the rollback of an install, which remove without a look (package_manager.cpp:2349, 1446).
  `RecordsTrue`: a record that could not be written (cli.cpp:723), a bundle or state file that
  could not be removed. Both: a killed `ll-cli`, whose container then runs without a record.
* `BuildsNotMixed`: modules that a removal of the old build has left behind, and imported
  ones; what a build commits whose old output or modules could not be removed
  (linglong_builder.cpp:490, 770, 963); dependencies and entries that could not be copied, which
  is only logged (1281, 2354, 2422).
* `ExportedIsOneBuild`: layers that a killed distributed export left with files and without
  components. A link of the base whose target is outside of `lib/<triplet>` is packed without it:
  the target is moved there after the link was made (uab_packager.cpp:645). That links keep their
  targets is said of the layer a file stems from: a file of the base that is copied among those of
  a runtime may bear the name of a link there.
* `NothingLeftMounted`: a stop between the mount and `mountFlag`; the fork that serves a
  bundle goes on in `main()` when its mount is gone and unmounts once more, which may hit
  another instance, as does a child that could not become the loader (uab/header/main.cpp:500);
  an instance whose `fusermount` failed or could not be started, which `cleanResource()` does
  not look at (324).
* `UnpackedWhole`: a bundle whose image neither fills whole chunks nor ends the file is refused
  although it is sound, since the unsigned rest wraps (uab_file.cpp:181); a layer file has no
  digest, so that one that was appended in part, or behind an old file that could not be removed,
  is reported as good (layer_packager.cpp:100, 160); a mount or directory that the destructor
  could not take away (uab_file.cpp:69, layer_packager.cpp:80).
* `MountsFit`: a mount above one that was requested before is dropped.
* `MigratedWhole`: a kill between the transaction and the links; the next start finds the
  refs migrated and makes no link. A `.version` that was truncated and not written fails
  every later start. `Older` compares versions as the code does, part by part and not
  lexicographically.
* `RemotesConfigured`: a configuration written in part, or one of a repository that has been
  moved away; nothing brings remotes and `config.yaml` together on the next start.

Of the same kind, outside the runs: a bundle that holds only its application ends as
`Succeed` although its runtime could not be pulled (package_manager.cpp:1133); the connection
of `Install()` to `ReplyReceived` outlives what it captured (1368); a pull of a layer whose ref
has moved adds a second item (fault `again` of `OSTreeRepo`); with `write` and `crash` together
a layer whose removal was not recorded can be listed without its files; the old bundle is
removed before the new one is renamed into its place (uab_packager.cpp:253); the prefix of refs
grows from layer to layer during a migration, and refs of other remotes are migrated under the
name of the default one; an empty `config.yaml` silently gives way to the configuration of the
system.

Steps that are taken as one, or left out: `Install()` of `PackageManager` looks at the installed
version and queues its task at once, although the code waits for a remote in between
(package_manager.cpp:1280-1393); what becomes stale there becomes stale in the queue too, and is
the fault `twice`. A task of `Update` has one upgrade, and a cache that fails after it, which the
code reports as an error (1990), only ends its job: layers and entries are then as they will stay;
`PackageTaskQueue` has several parts and the failure. `rebuildCache()` cannot fail at listing the
refs (repo_cache.cpp:85), and `.version` is not written with `states.json` (388). The components
of a bundle's layer are copied at once (uab_packager.cpp:449); a kill between two of them lets the
next export fail at the first, since nothing is overwritten, as does one behind them. The loader
of a bundle makes its container directory and remembers it in one step
(uab/loader/main.cpp:392-398). That `remove_all()` in `~LayerPackager()` may throw is left out.

## 4. Proofs

`JobQueueProofs` (for any set of jobs, any limit, any counter that can hold the limit; the
assumption is `JobQueueAssumption`). The inductive invariant `IInv` is the type invariant,
`SlotsAccounted` (counter = posted calls + jobs on the stack), counter at most the limit and
`NobodyStranded`. `AtMostMaxRunning` is not inductive: without the equation a state could
hold more posted calls than the counter admits. `InOrder` needs only that both ends of the
line are moved together. `Refinement` maps the list, the stack and the set of submitted
jobs to `SerialExecutor`; `RunEmpty` is a stutter, and `IInv` gives the limit that `Start` of
the abstract machine requires. `TypeCorrect`, `LimitHolds`, `InOrder` and `NoLostWakeup` are
proved for every instance, and no run repeats them.

`OSTreeRepoProofs` (any layers, packages and number of commits; `RepoAssumption`).
`TypeCorrect` holds whatever goes wrong. The other theorems assume `Reliable`: no write of
`states.json` fails or is cut short, it is not rebuilt, and a layer is pulled only when it
has no item. Crashes, network and file system faults remain. The invariant `CrashInv`:
memory and disk agree while the process runs (`InStep`), an item on disk has a full
directory (`Sound`), a layer has one item (`Single`), a layer that is being pulled has none
(`Pulled`), and `Working` ties each step of an operation to the item it is about: none while
its directory is built, forgotten before its directory goes. `CheckedOut` alone is not
inductive: its exception for the operation in progress says nothing of what that operation
has done. `StoreStep` shows that every step changes what survives of at most one layer, in a
way `LayerStore` allows, or not at all.

Two theorems are about caches that are rebuilt or cut short. `MergedItemsBacked` assumes
`Writable` (a write of `states.json` does not fail; it may be cut short unnoticed): the invariant
follows the one merge in progress and says of `states.json` what of memory. `ItemsFollowRefs`
assumes `Orderly` (no crash, no failing step or write, and nothing is pulled that is there; the
cache may be rebuilt at any time): there refs and items are equal between operations, and within
one they differ by the layer it is about. `UnsavedIsCheckedOut` assumes `Unsaved` (writes of
`states.json` and the network may fail, nothing else does): the disk lags behind memory, and what
it lists has its directory or is being pulled again (`Lagging`).

The same module is about the repository of `ll-builder` (any layers, aliases, versions of the layout
and number of starts). Its configurations are assumed to name a default among their repositories
(`ConfigurationAssumption`): `saveConfig()` writes no other, and `getDefaultRepo()` would
dereference the end of the list. `ConfigurationInv` follows the three places of a configuration,
memory, `config.yaml` and the remotes: two of them agree at every step of `setConfig()` and of its way
back unless `torn`, which is why `RemotesConfigured`, about commands that are served, is not inductive.
`MigrationInv` says that refs without a remote are found only before the transaction and only with an
old `.version`, and that a ref without its directory is one that is still to be linked.
`FilesStayTrue` puts these and `CheckedOut` together.

`PackageTaskQueueProofs` (any tasks, kinds of jobs, parts and questions). Every theorem assumes
`Counted`: every method passes one reference, except `Update()`, which passes one or more and
names each once. `ll-cli upgrade` does so; another client of the bus may not, and a task with
nothing to do or with a part done twice is outside the theorems. The invariant follows the queue
and the stack of jobs: a task is added once and served in order; a registered task with a job is
the front one and its job is on top, while every job below waits for its user; a registered task
whose job was not called is Queued or was cancelled in the queue; and `TopInv` gives the state and
the parts of the top job's task at each program counter. `NeverTwoJobs` needs besides that no job
asks its user, and is false otherwise (see above). `FailuresStand` is an action property and rests
on the same invariant.

`RemotesProofs` (any repositories, clients and editors). Lookups of several clients nest as their
event loops do, and each remembers the priority it found, which may be one that another has raised.
As long as nobody edited meanwhile, `RaisedInv` says that memory differs from `config.yaml` only in
raised priorities, and that of the lookups that raised a repository the lowest one remembers the
priority of `config.yaml`. `LookupInv` gives one lookup to a client and lets a lookup with `--repo`
that was not crossed ask only that repository; the remotes of the ostree repository follow
from the configuration except halfway through an edit. `NoTraceIsLeft` reads the invariant when
no lookup is left, `RepoOptionHonoured` while one is.

`LLInitProofs` (any processes and clients). The invariant: the end is decided only when nobody is
there (`DoneMeansEmpty`); the timer, and events of it, exist only after the watch of the
application has ended (`TimerAfterWatch`), and its status was taken then (`CodeTaken`); and while
the loop works off a batch, or hangs in it, the only client that waits has its event in the batch
or in the ready list (`ClientHasEvent`), which is why `NoClientStranded` alone is not inductive.

`CliProofs` (any clients, commands and number of crashes). A client may have signals about tasks
that are long gone, so the invariant is about what is under way: a signal that a task was removed
bears the verdict of that task (`Told`), tasks in the queue are different and not decided
(`QueueInv`), a process that waits for a task holds it (`ProcInv`), and who has ended has a verdict
that stands (`EndInv`). A call that has timed out may still become a task, so a process that has
ended may get one, whose verdict nobody waits for; a call is handled once (`pending`).
`OutcomeIsTold` and `TasksAreCancelled` follow; crashes of the package manager lose tasks but
never a verdict. `CachesAreWhole` (any layerings, runs and changes,
`LayeringsAssumption`) needs that one generation at a time writes the two files (`OneWriter`): while
`ldconfig` is still to run, `ld.so.conf` is the one this generation wrote.

`ApplicationProofs`, about `RunApp` (any layers, processes, launches, kills, removals, rollbacks,
prunings and failing writes; of any layers one is newest, `RefsAssumption`; `KindsAssumption`).
Neither property is inductive: both are about a container that runs, and what protects it is done
long before. The invariant follows a process through `Cli::run()`: its file is there while it
works, empty until the layers are chosen and then the record of them (`FileInv`); who was seen and
lives has a record without the layer in question, or the file of a killed predecessor, which will
stop it (`SeenInv`); only applications are hidden, and of the layers of a container only its
application is one (`KindInv`), without which the look at `container.app` would not do; the list
it has loaded is true until it has chosen, unless a removal overtook it (`ViewInv`). The proof
attempt showed that `saw` took two processes with one pid for the same one; reaching it takes a
second application that does without the removed layer, which the instance of the run does not
have.

The same module is about what is built, packed and run as a bundle:

| about | for any | invariant | theorem |
|---|---|---|---|
| `Builder` | projects with any modules and rules (`BuilderAssumption`: the alphabet tells names apart), options, number of builds | `ProjectInv`: what was fetched and pulled is of this build (`FetchedInv`); unless old directories were left in the way, output and modules hold only files of this build (`OutputInv`), none is lost between them and none but a link is in two places (`ModulesInv`); what is in the repository and not stale is of one build, of this one once it commits, and everything else is older (`RepositoryInv`); pushed modules are those of the repository (`PushedInv`) | `BuildsAreNotMixed` |
| `Bundle` | layers, links, places, exclusions, black lists, number of exports | `BundleInv`: which layers are listed at each step (`ListInv`); a layer not yet prepared is empty unless known to be left over (`FreshInv`); a listed one has the files, components and links of the revision in the repository, a runtime also the needed files of the base where they belong (`PreparedInv`) | `ExportsAreOneBuild` |
| `Uab` | finite set of instances, number of signals and failures | `UabInv`: the control of the two processes of an instance (`ControlInv`), and two counts: there are at least as many mounts as instances that will take one away, and at most as many as instances that have, may have left, or could not take away one (`MountInv`) | `MountsAreTakenAway` |
| `Unpack` | images, chunks of any size | `UnpackInv`: the loop stands before the image's end, or behind it only if the image does not fill whole chunks (`VerifyInv`); what was let through is whole (`VerifiedInv`); the destructor knows of every mount and of every directory that is filled, and leaves only what it failed to remove (`LeftInv`) | `FilesAreUnpackedWhole` |

The attempts changed statements. `NothingLeftMounted` spoke of instances and their forks being
gone, which a fork that serves a mount never is, so that it said nothing; it is now about
instances. `ExportedIsOneBuild` claimed that every link of a listed layer has its target: false after
a killed distributed export with a black list, and for a file of the base named like a link of the
runtime. `UnpackedWhole` said of a refusal only what the instance showed. For `Builder` and `Unpack`
the loops of `installFiles()` and `verify()`, which were recursive definitions or folds, became steps.

`PackageManagerProofs` (any applications, versions, modules and dependencies, what each version
offers and needs, any number of tasks, every combination of faults). The actions are first
summed up by what they do to the job and to the layers. Upon that the invariants are stacked:

| invariant | says | for |
|---|---|---|
| `Values`, `Flags`, `Shape` | types; what a task of each kind and a job at each step look like | `TypeCorrect` |
| `FailInv` | which modules of the new version are there at each step, against those of before | `FailuresAreUndone` |
| `TwiceInv` | tasks of clients that wait are about different applications, and what they bring is not there | `NothingIsAssumed` |
| `LiveInv`, `OldInv` | what a job has brought, and the version it is to replace, are there with all their modules | the next ones |
| `BackInv` | a hidden version has a listed one in its place, which no rollback removes | `NothingIsAssumed` |
| `OwnInv` | what was installed has a version that stays whatever becomes of the job | `InstalledStays` |
| `SingleInv` | of two listed versions one is the job's, and the job knows the other | `OneVersionStays` |
| `RunInv` | what runs is there, and what a job is about to remove does not run | `UsedIsKept` |
| `DepsInv` | applications that are not lame have their dependencies, none of which a rollback removes; those a job has looked at are there | `UsedIsKept` |
| `LeadInv` | an entry leads to a layer, or to the one a rollback is about to bring back; what a job has pulled is exported only if `deferredUninstall()` did so early | `EntriesStay` |
| `IconInv` | what is installed, and the application of each task that replaces a version, has an entry at each step; one that is installed for the first time has none until the end | `EntriesStay` |
| `PrunedInv`, `OrderInv` | without faults only the job's version is lame: nothing was pruned, or versions only go up and a hidden one is never listed again | `UsedIsKept` |

None of the properties is inductive by itself: each is about the time between tasks, and says
nothing of what a job, its rollback and the tasks that wait may do next. The exclusions of each
property (`met`, `ragged`) are those of its invariant. The attempt to prove them for more than
two versions changed how they are stated: before, they excluded requests that TLC had found
to lead to a violation; `ragged` and `lame` name what goes wrong. With three versions
`EntriesKept` was false in two ways that two versions do not show, now named `bare` and `unrestored`
(see *What the properties spare*); on the other hand an uninstallation no longer spoils what is said
of dangling entries.

Only model-checked:

* liveness (`EveryJobStarts`, `ServedUnlessCancelledEarly`, `EveryCommandEnds`, `EndsWhenEmpty`),
  which is out of the prover's reach;
* `NewestFound`: parsing and comparison of texts are recursive over data, and induction over data
  is out of the prover's reach;
* `MountsFit`: the tree of mount points is a fold over the mounts asked for, and its paths are
  sequences of any length;
* what `OSTreeRepo` does when the cache is rebuilt after an operation was cut short.

## 5. Not modelled, and the plan

Not modelled: generated D-Bus and HTTP types; vendored libraries; dialogs and the session
helper; commands of `ll-cli` and `ll-builder` that change nothing or only write files for the
user (`ps`, `exec`, `kill`, `list`, `info`, `content`; `create`, `extract`, `list`); the contents
of desktop files; environment, capabilities, namespaces and id mappings in OCI documents;
percentages and messages; permissions. Two `ll-builder` processes at once, in one project or on
one repository: nothing in the code keeps them apart, and the models have one. The upper
directory of a build's overlay is never cleaned by the code; `Builder` keeps it from build to
build.

Next, in this order:

1. The layer and bundle installers of the daemon with their effect on layers, beside `Install`
   and `Update` in `PackageManager`.
2. Two `ll-builder` processes on one repository.
