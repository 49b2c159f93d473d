------------------------------- MODULE RunApp -------------------------------
(***************************************************************************)
(* Several `ll-cli run' processes of one user (cli.cpp, main.cpp of        *)
(* ll-cli, container.cpp, wayland_security_ctx.cpp) and the package manager *)
(* that may remove the layers they are about to use (isRefBusy,            *)
(* removeAfterInstall, Uninstall, deferredUninstall, Prune, the rollback of *)
(* an install).  They share the lock /run/linglong/lock, one state file per *)
(* process, the layer directories and one Wayland socket per application.  *)
(*                                                                         *)
(* A runner stands for a pid, and for the container that process starts.   *)
(* ll-init is seen from outside: a delegated command is started, refused,  *)
(* or not answered before the container ends (see LLInit).                 *)
(***************************************************************************)
EXTENDS RunContext, FiniteSets

CONSTANTS Runners, Targets, Opts,  \* the ids that are run, and the options
          Removable,               \* the layers somebody may replace or uninstall
          SecurityContext,         \* built with support for Wayland security contexts
          MaxLaunches, MaxKills, MaxRemovals, MaxFaults    \* bounds
ASSUME RemovableAssumption == Removable \subseteq Refs /\ SecurityContext \in BOOLEAN

\* What a package names as its base, runtime or extension, or an option, is no application.
ASSUME KindsAssumption ==
    \A a \in Refs : Info[a].kind = "app" =>
       /\ Info[a].id \notin {Opts.base, Opts.runtime}
       /\ \A r \in Refs : Info[a].id \notin {Info[r].base, Info[r].runtime} \cup Info[r].exts

VARIABLES
    layers,     \* ref -> "none", "live" or "hidden": the repository
    lock,       \* the package manager holds the lock
    pm,         \* the package manager: step, purpose, layer, processes it saw (history)
    pc, want, view, ctx, host,   \* runner -> step, id, loaded list, run context, host container
    files, content,        \* the state files that exist, and what is in them: <<>> or <<info>>
    bundles,    \* runners whose bundle directory exists
    sock,       \* the runner whose security context made the Wayland socket, or None
    own,        \* the runners that own a security context
    box,        \* runner -> "none", "running", "over": its container
    killed, crashed,       \* history: killed runners, runners that met undefined behaviour
    late, removals,        \* history: runners a removal did not see, number of removals
    launches,              \* history: number of processes launched
    faults                 \* history: records not written, bundles and state files not removed

vars == <<layers, lock, pm, pc, want, view, ctx, host, files, content, bundles, sock, own, box,
          killed, crashed, late, removals, launches, faults>>
manager == <<layers, lock, pm, removals>>
shared == <<files, content, bundles, sock, own, box>>
past == <<killed, crashed, late, want, launches>>
hist == <<past, faults>>

Dirs == {r \in Refs : layers[r] # "none"}
Live == {r \in Refs : layers[r] = "live"}
Over == {"idle", "ended", "killed"}
Alive(r) == pc[r] \notin Over
Idle == [step |-> "idle", why |-> None, ref |-> None, saw |-> {}]

Init ==
    /\ layers = [r \in Refs |-> "live"] /\ lock = FALSE /\ pm = Idle
    /\ pc = [r \in Runners |-> "idle"] /\ want = [r \in Runners |-> None] /\ view = [r \in Runners |-> {}]
    /\ ctx = [r \in Runners |-> Failed] /\ host = [r \in Runners |-> None]
    /\ files = {} /\ content = [r \in Runners |-> <<>>] /\ bundles = {} /\ sock = None /\ own = {}
    /\ box = [r \in Runners |-> "none"] /\ killed = {} /\ crashed = {} /\ late = {} /\ removals = 0 /\ launches = 0
    /\ faults = {}

Goto(r, step) == pc' = [pc EXCEPT ![r] = step]
Steps(r, from, to) == pc[r] = from /\ Goto(r, to)
Fault(what, r) == faults' = faults \cup {<<what, r>>} /\ Cardinality(faults') <= MaxFaults

(***************************************************************************)
(* ll-cli run                                                              *)
(***************************************************************************)

\* A user starts ll-cli; the pid may have belonged to an earlier one.
Launch(r, id) ==
    /\ pc[r] \in Over /\ box[r] # "running" /\ Goto(r, "starting")
    /\ launches < MaxLaunches /\ launches' = launches + 1
    /\ want' = [want EXCEPT ![r] = id]
    /\ box' = [box EXCEPT ![r] = "none"] /\ ctx' = [ctx EXCEPT ![r] = Failed]
    /\ late' = late \ {r} /\ pm' = [pm EXCEPT !.saw = @ \ {r}] /\ faults' = faults \ {<<"record", r>>}
    /\ UNCHANGED <<layers, lock, removals, view, host, files, content, bundles, sock, own, killed, crashed>>

\* lockCheck() until the lock is free.
LockCheck(r) ==
    /\ Steps(r, "starting", "checked") /\ ~lock
    /\ UNCHANGED <<manager, view, ctx, host, shared, hist>>

\* initOSTreeRepo(): the list of layers is read once.
LoadRepo(r) ==
    /\ Steps(r, "checked", "loaded")
    /\ view' = [view EXCEPT ![r] = Live]
    /\ UNCHANGED <<manager, ctx, host, shared, hist>>

\* The placeholder, made with O_EXCL: it exists when an earlier ll-cli with this pid was killed.
Placeholder(r) ==
    /\ pc[r] = "loaded"
    /\ IF r \in files
       THEN Goto(r, "ended") /\ UNCHANGED <<files, content>>
       ELSE /\ Goto(r, "placed")
            /\ files' = files \cup {r} /\ content' = [content EXCEPT ![r] = <<>>]
    /\ UNCHANGED <<manager, view, ctx, host, bundles, sock, own, box, hist>>

\* clearReference() and RunContext::resolve().  A base has no layer directory, and
\* getBaseLayerPath() takes it all the same; a runtime is no application.
ResolveRun(r) ==
    LET ref == ClearReference(view[r], want[r])
        c == IF ref = None THEN Failed ELSE Resolve(view[r], Dirs, ref, Opts)
    IN
    /\ pc[r] = "placed"
    /\ ctx' = [ctx EXCEPT ![r] = c]
    /\ IF c.ok /\ c.base \notin c.resolved
       THEN Goto(r, "killed") /\ crashed' = crashed \cup {r}
       ELSE Goto(r, IF c.ok /\ c.app # None THEN "resolved" ELSE "closing") /\ UNCHANGED crashed
    /\ UNCHANGED <<manager, want, view, host, shared, killed, late, launches, faults>>

\* dumpContainerInfo(): the record replaces what the file holds.  Nobody looks whether it was
\* written; if not, the file is empty again.
DumpNothing(r) == UNCHANGED <<content, faults>>
Dump(r) ==
    \/ content' = [content EXCEPT ![r] = <<StateInfo(r, ctx[r])>>] /\ UNCHANGED faults
    \/ content' = [content EXCEPT ![r] = <<>>] /\ Fault("record", r)

\* getCurrentContainers(): runners with a readable state file whose container runs.
CurrentContainers == {q \in files : Alive(q) /\ content[q] # <<>> /\ box[q] = "running"}

\* The first container of the same application is asked to take the command, once the state
\* file could be opened.
LookForContainer(r) ==
    LET same == {q \in CurrentContainers : content[q][1].app = ctx[r].app}
    IN
    /\ pc[r] = "resolved"
    /\ \/ same = {} /\ Goto(r, "alone") /\ UNCHANGED <<host, content, faults>>
       \/ /\ \E q \in same : host' = [host EXCEPT ![r] = q]
          /\ Dump(r) /\ Goto(r, "delegating")
       \/ same # {} /\ Goto(r, "closing") /\ UNCHANGED <<host, content, faults>>
    /\ UNCHANGED <<manager, view, ctx, files, bundles, sock, own, box, past>>

\* delegateToContainerInit(): done, or on with a container of its own.
Delegate(r) ==
    /\ pc[r] = "delegating"
    /\ \/ box[host[r]] = "running" /\ Goto(r, "closing")
       \/ Goto(r, "alone")
    /\ host' = [host EXCEPT ![r] = None]
    /\ UNCHANGED <<manager, view, ctx, shared, hist>>

\* fillContextCfg() with makeBundleDir() and createSecurityContext(), which removes the
\* socket of whoever made it before; each may fail.  A build without security contexts makes
\* no socket.
FillContextCfg(r) ==
    /\ pc[r] = "alone"
    /\ IF FillUndefined(ctx[r])
       THEN /\ Goto(r, "killed") /\ crashed' = crashed \cup {r} /\ bundles' = bundles \cup {r}
            /\ UNCHANGED <<sock, own>>
       ELSE /\ UNCHANGED crashed
            /\ \/ Goto(r, "closing") /\ UNCHANGED <<bundles, sock, own>>
               \/ /\ Goto(r, "closing") /\ bundles' = bundles \cup {r}
                  /\ sock' \in (IF SecurityContext THEN {sock, None} ELSE {sock}) /\ UNCHANGED own
               \/ /\ Goto(r, "filled") /\ bundles' = bundles \cup {r}
                  /\ IF SecurityContext THEN sock' = r /\ own' = own \cup {r} ELSE UNCHANGED <<sock, own>>
    /\ UNCHANGED <<manager, want, view, ctx, host, files, content, box, killed, late, launches, faults>>

\* ensureCache(), build() and create(), then dumpContainerInfo().
DumpContainerInfo(r) ==
    /\ pc[r] = "filled"
    /\ \/ Goto(r, "dumped") /\ Dump(r)
       \/ Goto(r, "closing") /\ UNCHANGED <<content, faults>>
    /\ UNCHANGED <<manager, view, ctx, host, files, bundles, sock, own, box, past>>

\* Container::run(): the OCI runtime needs everything that is to be mounted.
RunContainer(r) ==
    /\ pc[r] = "dumped"
    /\ IF Mounted(ctx[r]) \subseteq Dirs /\ (SecurityContext => sock # None)
       THEN Goto(r, "running") /\ box' = [box EXCEPT ![r] = "running"]
       ELSE Goto(r, "closing") /\ UNCHANGED box
    /\ UNCHANGED <<manager, view, ctx, host, files, content, bundles, sock, own, hist>>

\* The container ends, whether or not its ll-cli still waits for it.
BoxEnds(r) ==
    /\ box[r] = "running" /\ box' = [box EXCEPT ![r] = "over"]
    /\ IF pc[r] = "running" THEN Goto(r, "closing") ELSE UNCHANGED pc
    /\ UNCHANGED <<manager, view, ctx, host, files, content, bundles, sock, own, hist>>

\* The destructors: ~RunContext() removes the bundle, or warns that it could not,
\* ~WaylandSecurityContextV1() the socket file, whoever has made it.
SocketAfter(r) == IF r \in own THEN None ELSE sock
Close(r) ==
    /\ Steps(r, "closing", "quitting")
    /\ \/ bundles' = bundles \ {r} /\ UNCHANGED faults
       \/ r \in bundles /\ Fault("bundle", r) /\ UNCHANGED bundles
    /\ sock' = SocketAfter(r)
    /\ own' = own \ {r}
    /\ UNCHANGED <<manager, view, ctx, host, files, content, box, past>>

\* aboutToQuit removes the state file; that it could not is only logged.
Quit(r) ==
    /\ Steps(r, "quitting", "ended")
    /\ \/ files' = files \ {r} /\ UNCHANGED faults
       \/ Fault("file", r) /\ UNCHANGED files
    /\ UNCHANGED <<manager, view, ctx, host, content, bundles, sock, own, box, past>>

\* ll-cli is killed; a container it has started goes on.
Kill(r) ==
    /\ Alive(r) /\ Cardinality(killed) < MaxKills
    /\ Goto(r, "killed") /\ killed' = killed \cup {r} /\ own' = own \ {r}
    /\ UNCHANGED <<manager, want, view, ctx, host, files, content, bundles, sock, box, crashed, late, launches,
                   faults>>

(***************************************************************************)
(* The package manager                                                     *)
(***************************************************************************)

\* lockRepo(), to replace an application, to uninstall a layer, or in deferredUninstall().
PmLock(why, ref) ==
    /\ pm.step = "idle" /\ ~lock /\ (why = "replace" => Info[ref].kind = "app")
    /\ removals < MaxRemovals
    /\ layers[ref] = IF why = "deferred" THEN "hidden" ELSE "live"
    /\ lock' = TRUE /\ pm' = [Idle EXCEPT !.step = "locked", !.why = why, !.ref = ref]
    /\ removals' = removals + 1
    /\ UNCHANGED <<layers, pc, view, ctx, host, shared, hist>>

\* getAllRunningContainers(): a file of a living process that cannot be read is an error.
Unreadable == \E r \in files : Alive(r) /\ content[r] = <<>>
RunsApp(ref) == \E r \in files : Alive(r) /\ content[r] # <<>> /\ ref = content[r][1].app
Busy(ref) == \E r \in files : Alive(r) /\ content[r] # <<>> /\ ref \in content[r][1].refs

\* isRefBusy(), which lets go of the lock, or the look of deferredUninstall(), at applications
\* only, which keeps it.  A version that is replaced while it runs is hidden.
PmCheck ==
    LET used == Unreadable \/ (IF pm.why = "deferred" THEN RunsApp(pm.ref) ELSE Busy(pm.ref)) IN
    /\ pm.step = "locked"
    /\ lock' = (pm.why = "deferred" /\ ~used)
    /\ IF used
       THEN /\ pm' = Idle
            /\ layers' = IF ~Unreadable /\ pm.why = "replace"
                         THEN [layers EXCEPT ![pm.ref] = "hidden"] ELSE layers
       ELSE /\ pm' = [pm EXCEPT !.step = "remove", !.saw = {r \in files : Alive(r)}]
            /\ UNCHANGED layers
    /\ UNCHANGED <<pc, view, ctx, host, shared, hist, removals>>

\* Whom the removal of these layers may hit: processes it did not see, whose layers are not
\* chosen yet or are among them.
Overtaken(refs) ==
    {r \in Runners \ pm.saw : /\ Alive(r) \/ box[r] = "running"
                              /\ ctx[r].ok => refs \cap Mounted(ctx[r]) # {}}

\* remove()
PmRemove ==
    /\ pm.step = "remove"
    /\ layers' = [layers EXCEPT ![pm.ref] = "none"]
    /\ late' = late \cup Overtaken({pm.ref})
    /\ lock' = FALSE /\ pm' = Idle
    /\ UNCHANGED <<pc, view, ctx, host, shared, killed, crashed, want, removals, launches, faults>>

\* Install() has the new layer and may still fail: its rollback removes the layer, without a
\* look at who has started it meanwhile.
PmInstall(ref) ==
    /\ pm.step = "idle" /\ removals < MaxRemovals /\ layers[ref] = "none"
    /\ layers' = [layers EXCEPT ![ref] = "live"] /\ removals' = removals + 1
    /\ pm' = [Idle EXCEPT !.step = "remove", !.why = "rollback", !.ref = ref]
    /\ UNCHANGED <<lock, pc, view, ctx, host, shared, hist>>
PmInstalled ==
    /\ pm.why = "rollback" /\ pm' = Idle
    /\ UNCHANGED <<layers, lock, removals, pc, view, ctx, host, shared, hist>>

\* What Prune() counts for an application: the walk ends at the first layer that is missing.
Counted(a) ==
    LET runtime == IF Info[a].runtime = None THEN None ELSE ClearReference(Live, Info[a].runtime)
        base == IF runtime = None /\ Info[a].runtime # None THEN None ELSE ClearReference(Live, Info[a].base)
        with(r) == IF r = None THEN {} ELSE {r} \cup ResolveExtension(Live, r)
    IN  with(runtime) \cup with(base) \cup (IF base = None THEN {} ELSE ResolveExtension(Live, a))

\* Prune() removes what no visible application is counted for, without a look at containers.
Unused == {r \in Live : Info[r].kind # "app"} \ UNION {Counted(a) : a \in {x \in Live : Info[x].kind = "app"}}
PmPrune ==
    /\ pm.step = "idle" /\ removals < MaxRemovals /\ Unused # {}
    /\ layers' = [r \in Refs |-> IF r \in Unused THEN "none" ELSE layers[r]]
    /\ late' = late \cup Overtaken(Unused) /\ removals' = removals + 1
    /\ UNCHANGED <<lock, pm, pc, view, ctx, host, shared, killed, crashed, want, launches, faults>>

RunnerStep(r) ==
    \/ LockCheck(r) \/ LoadRepo(r) \/ Placeholder(r) \/ ResolveRun(r) \/ LookForContainer(r)
    \/ Delegate(r) \/ FillContextCfg(r) \/ DumpContainerInfo(r) \/ RunContainer(r)
    \/ Close(r) \/ Quit(r)

Next ==
    \/ \E r \in Runners : RunnerStep(r)
    \/ \E r \in Runners, id \in Targets : Launch(r, id)
    \/ \E r \in Runners : BoxEnds(r) \/ Kill(r)
    \/ \E why \in {"replace", "uninstall", "deferred"}, ref \in Removable : PmLock(why, ref)
    \/ \E ref \in Removable : PmInstall(ref)
    \/ PmCheck \/ PmRemove \/ PmInstalled \/ PmPrune

Spec == Init /\ [][Next]_vars
-----------------------------------------------------------------------------
\* Layers go away under a container that runs, or under an ll-cli that is about to start
\* one (which then reads the directory of a layer that has none), only if that ll-cli was
\* killed, or if nobody had seen it when they were removed: it came between the look and the
\* removal, or Prune() or the rollback of an install removed them, which do not look; a base
\* that is run as an application is the other way to a missing directory.  And the
\* placeholder does its work: once a process has its state file the package manager, where
\* it looks, does not decide to remove a layer that process will use, although the file may
\* still be empty and the layers not yet chosen when it looks, or the record could not be
\* written.
RunningLayersKept ==
    /\ \A r \in Runners \ (killed \cup late) :
         /\ box[r] = "running" => Mounted(ctx[r]) \subseteq Dirs
         /\ r \in crashed /\ pc[r] = "killed" => ctx[r].app = None
    /\ pm.step = "remove" =>
         \A r \in pm.saw : Alive(r) /\ ctx[r].ok => pm.ref \notin Mounted(ctx[r])

\* The records in /run/linglong are true.  A container that runs is on record: its ll-cli
\* lives and its state file names the layers the container uses, for the busy check and for
\* `ll-cli ps', unless it could not be written; only killing ll-cli breaks this.  And when
\* nobody was killed, nothing is left of runs that are over but what could not be removed: no
\* state file, no bundle, no socket.
RecordsTrue ==
    /\ \A r \in Runners \ killed : box[r] = "running" =>
         /\ Alive(r) /\ r \in files
         /\ <<"record", r>> \notin faults => content[r] = <<StateInfo(r, ctx[r])>>
    /\ killed \cup crashed = {} /\ (\A r \in Runners : pc[r] \in {"idle", "ended"}) =>
         /\ \A r \in files : <<"file", r>> \in faults
         /\ \A r \in bundles : <<"bundle", r>> \in faults
         /\ sock = None
=============================================================================
