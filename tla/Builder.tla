------------------------------- MODULE Builder -------------------------------
(* ll-builder working in one project directory: the stages of `ll-builder build`
   (linglong_builder.cpp), what each leaves in linglong/ and in the builder's repository, and
   the commands export --layer, import, push, remove that use that repository afterwards.  A
   file is a pair of a name and the number of the build that produced it.  One ll-builder
   runs at a time; it may stop with an error, or be killed, between any two stages: the
   overlays are mounted in its own mount namespace and go with it, the files stay.  Some of
   its stages go on although a part of them has failed: ignored has what failed so.
   mergeModules() only derives the merged directories, which OSTreeRepo models. *)
EXTENDS Naturals, FiniteSets, Sequences, SequencesExt

CONSTANTS
    Projects,    \* project files: [modules, app, command, runtime, sources, buildDepends, depends, install]
    Order,       \* the place of the modules' names in the alphabet
    Options,     \* sets of options `ll-builder build` is called with
    MaxBuilds,   \* bound on the calls of `ll-builder build`
    MaxFailing,  \* bound on the modules an operation on all modules fails for, and on the
                 \* files a removal leaves behind
    MaxIgnored,  \* bound on the failures that are ignored, in all builds
    MaxCommands  \* bound on the calls of the other commands
VARIABLES
    bpc,         \* the stage of the running command, "idle" when none runs
    proj, opts, brev,
    sources,     \* linglong/sources
    deps,        \* modules of the base and the runtime in the builder's repository
    out,         \* linglong/output/_build
    mods,        \* linglong/output/<module>
    upper,       \* upper directories of the overlays: build_base and prepare_base
    cache,       \* linglong/cache: what ld.so.conf and ld.so.cache were made for
    btodo,       \* modules still to install, commit or push, or that run
    repo,        \* the modules of the project in the builder's repository
    ignored,     \* history: what failed in the running build without stopping it
    failures,    \* bound: how often that happened
    commands,    \* bound: how many other commands were called
    stale,       \* history: modules not removed, imported, or committed by an unclean build
    blayers,     \* exported .layer files
    remote       \* pushed modules

projectVars == <<bpc, proj, opts, brev, sources, deps, out, mods, upper, cache, btodo, repo, ignored, failures,
                 commands, stale, blayers, remote>>

boundVars == <<failures, commands>>

Empty == [m \in {} |-> {}]
Links == {"dirlink"}                      \* symbolic links to directories
Built(r) == {<<n, r>> : n \in {"bin", "header", "dirlink", "desktop"}}
OutputNames == {"bin", "header", "dirlink", "desktop", "dep"}
ModuleNames(p) == {p.modules[i].name : i \in DOMAIN p.modules}

Declarations == [name : DOMAIN Order, rules : Seq(SUBSET OutputNames)]
ASSUME BuilderAssumption ==
    /\ Projects # {}
    /\ \A p \in Projects : p.modules \in Seq(Declarations)
    /\ {"binary", "develop"} \subseteq DOMAIN Order
    /\ Order \in [DOMAIN Order -> Nat] /\ \A m, n \in DOMAIN Order : Order[m] = Order[n] => m = n

ProjectInit ==
    /\ bpc = "idle" /\ proj = (CHOOSE p \in Projects : TRUE) /\ opts = {} /\ brev = 0
    /\ sources = {} /\ deps = {} /\ out = {} /\ mods = Empty
    /\ upper = [build |-> {}, prepare |-> {}] /\ cache = [conf |-> {}, ld |-> {}] /\ btodo = <<>>
    /\ repo = Empty /\ ignored = {} /\ failures = 0 /\ commands = 0 /\ stale = {}
    /\ blayers = Empty /\ remote = Empty

\* The files of one directory, and those of another whose names it does not have.
Names(files) == {f[1] : f \in files}
Joined(files, more) == files \cup {f \in more : f[1] \notin Names(files)}

\* What a removal whose result nobody looks at may leave.
Left(files) == {l \in SUBSET files : Cardinality(l) <= MaxFailing}
Failures(failed) == failures' = failures + Cardinality(failed) /\ failures' <= MaxIgnored
Ignoring(failed) == ignored' = ignored \cup failed
Noted(failed, what) == IF failed THEN {what} ELSE {}

\* Files of earlier builds are in the way of this one.
Unclean == ignored \cap {"output", "overlay"} # {}

\* The modules an operation on all of them may fail for.
Failing == {f \in SUBSET DOMAIN repo : Cardinality(f) <= MaxFailing}

\* A command ends, well or not; what it left on disk stays.
CommandEnds == bpc' = "idle" /\ opts' = {} /\ btodo' = <<>> /\ ignored' = {}
CommandAborts ==
    /\ bpc # "idle" /\ CommandEnds
    /\ UNCHANGED <<proj, brev, sources, deps, out, mods, upper, cache, repo, stale, blayers, remote,
                   boundVars>>

\* A command other than build is called.
Command == bpc = "idle" /\ commands < MaxCommands /\ commands' = commands + 1

(* parseProjectConfig(): a project may not configure the module binary. *)
ParseProjectConfig(p) == "binary" \notin ModuleNames(p)

(* handleBuild(): offline implies that nothing is fetched or pulled. *)
HandleBuild(o) == o \cup (IF "offline" \in o THEN {"skip_fetch", "skip_pull"} ELSE {})

(* buildStagePrepare(): an application needs a command. *)
Prepared(p) == p.app => p.command

Build(p, o) ==
    /\ bpc = "idle" /\ brev < MaxBuilds /\ ParseProjectConfig(p)
    /\ proj' = p /\ brev' = brev + 1
    /\ IF Prepared(p) THEN bpc' = "fetch" /\ opts' = HandleBuild(o) ELSE UNCHANGED <<bpc, opts>>
    /\ UNCHANGED <<sources, deps, out, mods, upper, cache, btodo, repo, ignored, stale, blayers, remote,
                   boundVars>>

(* SourceFetcher::fetch() refuses a source of another kind or without url and digest. *)
Fetchable(source) == source.kind \in {"git", "dsc", "file", "archive"} /\ source.url /\ source.digest

(* fetchSources(): one source after the other, up to the first that fails. *)
FetchSources(n) == {<<i, brev>> : i \in 1..n}

(* buildStageFetchSource(): the directory is emptied only if there is something to fetch, and
   nobody looks whether it was. *)
FetchSource ==
    /\ bpc = "fetch"
    /\ \/ /\ "skip_fetch" \in opts \/ proj.sources = <<>>
          /\ bpc' = "pull" /\ UNCHANGED <<opts, sources, btodo, ignored, failures>>
       \/ /\ "skip_fetch" \notin opts /\ proj.sources # <<>>
          /\ \E n \in 0..Len(proj.sources), left \in Left(sources) :
               /\ Failures(Noted(left # {}, "sources"))
               /\ \A i \in 1..n : Fetchable(proj.sources[i])
               /\ sources' = Joined(FetchSources(n), left)
               /\ IF n = Len(proj.sources)
                  THEN bpc' = "pull" /\ Ignoring(Noted(left # {}, "sources")) /\ UNCHANGED <<opts, btodo>>
                  ELSE CommandEnds
    /\ UNCHANGED <<proj, brev, deps, out, mods, upper, cache, repo, stale, blayers, remote, commands>>

Needed(p) == IF p.runtime THEN <<"base", "runtime">> ELSE <<"base">>

(* clearDependency() with --skip-pull-depend: something of the dependency is here. *)
ClearDependency(d) == \E m \in {"binary", "develop"} : <<d, m>> \in deps

(* What pullDependency() is called for, in this order; what is here is not pulled again. *)
PullOrder(p) == IF p.runtime THEN <<<<"base", "binary">>, <<"base", "develop">>, <<"runtime", "binary">>,
                                    <<"runtime", "develop">>>>
                ELSE <<<<"base", "binary">>, <<"base", "develop">>>>
Pulled(n) == deps \cup {PullOrder(proj)[i] : i \in 1..n}

(* buildStagePullDependency(): what is not pulled must be there; pulls stop at the first
   that fails, and keep what they have got. *)
PullDependency ==
    /\ bpc = "pull"
    /\ \/ /\ "skip_pull" \notin opts
          /\ \E n \in 0..Len(PullOrder(proj)) :
               /\ deps' = Pulled(n)
               /\ IF n = Len(PullOrder(proj))
                  THEN bpc' = "prebuild" /\ UNCHANGED <<opts, btodo, ignored>>
                  ELSE CommandEnds
       \/ /\ "skip_pull" \in opts /\ UNCHANGED deps
          /\ IF \A i \in DOMAIN Needed(proj) : ClearDependency(Needed(proj)[i])
             THEN bpc' = "prebuild" /\ UNCHANGED <<opts, btodo, ignored>>
             ELSE CommandEnds
    /\ UNCHANGED <<proj, brev, sources, out, mods, upper, cache, repo, stale, blayers, remote, boundVars>>

PreBuildKeepsOutput ==
    /\ bpc = "prebuild" /\ "skip_run" \notin opts
    /\ bpc' = "build"
    /\ UNCHANGED <<proj, opts, brev, sources, deps, out, mods, upper, cache, btodo, repo, ignored, stale,
                   blayers, remote, boundVars>>

(* makeOverlay() mounts the upper directory it finds, and fixLocaltimeInOverlay() hides two
   files of the base in it. *)
MakeOverlay(dir) == dir \cup {<<"whiteout", 0>>}

(* processBuildDepends(): buildext.apt.buildDepends is installed into the build overlay. *)
ProcessBuildDepends(dir) == IF proj.buildDepends THEN dir \cup {<<"buildDepends", brev>>} ELSE dir

\* The files in linglong/output, each with its directory.
OutputFiles == {<<"_build", f>> : f \in out} \cup UNION {{<<m, f>> : f \in mods[m]} : m \in DOMAIN mods}
LeftIn(left, dir) == {x[2] : x \in {y \in left : y[1] = dir}}

(* buildStagePreBuild(): the output of the build before is removed, and nobody looks whether
   it was; the overlay is not, and keeps what earlier builds installed in it.  Each later
   part may fail. *)
PreBuild ==
    /\ bpc = "prebuild" /\ "skip_run" \notin opts
    /\ \E left \in Left(OutputFiles) :
         /\ Failures(Noted(left # {}, "output"))
         /\ out' = LeftIn(left, "_build")
         /\ mods' = [m \in Names(left) \ {"_build"} |-> LeftIn(left, m)]
         /\ \/ /\ upper' = [upper EXCEPT !.build = ProcessBuildDepends(MakeOverlay(@))]
               /\ bpc' = "build" /\ Ignoring(Noted(left # {}, "output")) /\ UNCHANGED <<opts, btodo>>
            \/ upper' \in {upper, [upper EXCEPT !.build = MakeOverlay(@)]} /\ CommandEnds
    /\ UNCHANGED <<proj, brev, sources, deps, cache, repo, stale, blayers, remote, commands>>

(* Skipping the container skips all stages that follow. *)
SkipRun == /\ bpc = "prebuild" /\ "skip_run" \in opts /\ CommandEnds
           /\ UNCHANGED <<proj, brev, sources, deps, out, mods, upper, cache, repo, stale, blayers,
                          remote, boundVars>>

(* buildStageBuild(): generateEntryScript() writes the build script anew, ld.so.conf is written
   for the dependencies; what the script installs below $PREFIX is the output, a failing one
   leaves a part. *)
BuildInContainer ==
    /\ bpc = "build" /\ cache' = [cache EXCEPT !.conf = {}]
    /\ \/ out' = Joined(Built(brev), out) /\ bpc' = "precommit" /\ UNCHANGED <<opts, btodo, ignored>>
       \/ out' = Joined({<<"bin", brev>>}, out) /\ CommandEnds
    /\ UNCHANGED <<proj, brev, sources, deps, mods, upper, repo, stale, blayers, remote, boundVars>>

(* generateDependsScript(): what the packages in buildext.apt.depends bring. *)
Depends(r) == {<<"dep", r>>, <<"doc", r>>}

(* mergeOutput(): bin/, sbin/ and lib/ of the overlay, without what hides files. *)
MergeOutput(dir) == {f \in dir : f[1] \notin {"doc", "whiteout"}}

(* buildStagePreCommit(): buildext.apt.depends is installed into a fresh overlay, whose upper
   directory is then merged into the output.  Nobody looks whether the old overlay was removed,
   the script swallows the failures of apt, and what cannot be copied is logged; a container
   that fails ends the command.  generateAppConf() ignores how its script ends. *)
InstallDepends ==
    \E left \in Left(upper.prepare), got \in SUBSET Depends(brev) :
       LET installed == Joined(got, MakeOverlay(left)) IN
       \E merged \in SUBSET MergeOutput(installed) :
          LET failed == Noted(left # {}, "overlay") \cup Noted(got # Depends(brev), "apt")
                        \cup Noted(merged # MergeOutput(installed), "merge") IN
          /\ upper' = [upper EXCEPT !.prepare = installed] /\ Failures(failed)
          /\ \/ /\ out' = Joined(out, merged) /\ bpc' = "install" /\ UNCHANGED <<opts, btodo>>
                /\ Ignoring(failed)
             \/ CommandEnds /\ UNCHANGED out
PreCommit ==
    /\ bpc = "precommit" /\ "skip_commit" \notin opts
    /\ \/ proj.depends /\ InstallDepends
       \/ ~proj.depends /\ bpc' = "install" /\ UNCHANGED <<opts, btodo, ignored, failures, upper, out>>
    /\ UNCHANGED <<proj, brev, sources, deps, mods, cache, repo, stale, blayers, remote, commands>>

SkipCommit == /\ bpc = "precommit" /\ "skip_commit" \in opts /\ CommandEnds
              /\ UNCHANGED <<proj, brev, sources, deps, out, mods, upper, cache, repo, stale, blayers,
                             remote, boundVars>>

(* One rule of installModule(): a file is moved, unless the destination has one of its name
   (rename() fails and nobody looks); a link to a directory is copied, and that fails if it is
   there. *)
FilesOf(m) == IF m \in DOMAIN mods THEN mods[m] ELSE {}
WithModule(m, files) == [x \in DOMAIN mods \cup {m} |-> IF x = m THEN files ELSE mods[x]]
Matching(names) == {f \in out : f[1] \in names}
Installable(m, names) == \A f \in Matching(names) : f[1] \in Links => f[1] \notin Names(FilesOf(m))
Taken(m, names) == {f \in Matching(names) : f[1] \notin Names(FilesOf(m))}
Moved(files) == {f \in files : f[1] \notin Links}

DefaultDevelop == [name |-> "develop", rules |-> <<{"header"}>>]

(* The modules with rules, in the order of installFiles(). *)
ProjectModules(p, o) ==
    p.modules \o (IF "develop" \in ModuleNames(p) \/ "full_develop" \in o THEN <<>> ELSE <<DefaultDevelop>>)

(* The modules to commit. *)
PackageModules(p) ==
    [i \in DOMAIN p.modules |-> p.modules[i].name] \o <<"binary">>
    \o (IF "develop" \in ModuleNames(p) THEN <<>> ELSE <<"develop">>)

(* installFiles(): with --full-develop, develop gets a copy of everything first; copyDir() fails
   at a file that is there. *)
InstallFiles ==
    /\ bpc = "install"
    /\ IF "full_develop" \in opts
       THEN \/ /\ Names(FilesOf("develop")) \cap Names(out) = {}
               /\ mods' = WithModule("develop", FilesOf("develop") \cup out)
               /\ bpc' = "modules" /\ btodo' = ProjectModules(proj, opts) /\ UNCHANGED <<opts, ignored>>
            \/ Names(FilesOf("develop")) \cap Names(out) # {} /\ CommandEnds /\ UNCHANGED mods
       ELSE bpc' = "modules" /\ btodo' = ProjectModules(proj, opts) /\ UNCHANGED <<opts, mods, ignored>>
    /\ UNCHANGED <<proj, brev, sources, deps, out, upper, cache, repo, stale, blayers, remote, boundVars>>

(* Then the declared modules take what their rules match, module by module and rule by rule, a
   failing rule a part of it. *)
InstallRule(m, files) == mods' = WithModule(m, FilesOf(m) \cup files) /\ out' = out \ Moved(files)
InstallModule ==
    /\ bpc = "modules" /\ btodo # <<>>
    /\ LET m == Head(btodo) IN
         \/ /\ m.rules = <<>> /\ InstallRule(m.name, {})
            /\ btodo' = Tail(btodo) /\ UNCHANGED <<bpc, opts, ignored>>
         \/ /\ m.rules # <<>> /\ Installable(m.name, Head(m.rules))
            /\ InstallRule(m.name, Taken(m.name, Head(m.rules)))
            /\ btodo' = [btodo EXCEPT ![1].rules = Tail(@)] /\ UNCHANGED <<bpc, opts, ignored>>
         \/ /\ m.rules # <<>> /\ ~Installable(m.name, Head(m.rules)) /\ CommandEnds
            /\ \E files \in SUBSET Taken(m.name, Head(m.rules)) : InstallRule(m.name, files)
    /\ UNCHANGED <<proj, brev, sources, deps, upper, cache, repo, stale, blayers, remote, boundVars>>

(* generateEntries(): the exported directories of an application's binary module are copied
   (copyDir()) from files/ to entries/; a copy that fails, as it does over an entry that is
   there, is only warned of. *)
Exported(f) == f[1] = "desktop"
EntriesOf(files) == {<<"entry", f[2]>> : f \in {x \in files : Exported(x)}}
GenerateEntries(ms) ==
    \/ /\ proj.app /\ "entry" \notin Names(ms["binary"])
       /\ mods' = [ms EXCEPT !["binary"] = @ \cup EntriesOf(@)] /\ UNCHANGED <<ignored, failures>>
    \/ proj.app /\ EntriesOf(ms["binary"]) # {} /\ mods' = ms /\ Ignoring({"entries"}) /\ Failures({"entries"})
    \/ proj.app /\ EntriesOf(ms["binary"]) = {} /\ mods' = ms /\ UNCHANGED <<ignored, failures>>
    \/ ~proj.app /\ mods' = ms /\ UNCHANGED <<ignored, failures>>

(* ... and binary the rest, or what $appid.install names. *)
InstallBinary ==
    /\ bpc = "modules" /\ btodo = <<>>
    /\ LET names == IF proj.install = {} THEN Names(out) ELSE proj.install IN
         \/ /\ Installable("binary", names)
            /\ GenerateEntries(WithModule("binary", FilesOf("binary") \cup Taken("binary", names)))
            /\ out' = out \ Moved(Taken("binary", names))
            /\ bpc' = "clean" /\ UNCHANGED <<opts, btodo>>
         \/ /\ ~Installable("binary", names) /\ CommandEnds /\ UNCHANGED failures
            /\ \E files \in SUBSET Taken("binary", names) : InstallRule("binary", files)
    /\ UNCHANGED <<proj, brev, sources, deps, upper, cache, repo, stale, blayers, remote, commands>>

(* commitToLocalRepo(), the modules of the build before: a failing removal is only logged. *)
Kept(kept) == [m \in kept |-> repo[m]]
CleanOld ==
    /\ bpc = "clean"
    /\ \E kept \in Failing : repo' = Kept(kept) /\ stale' = kept
    /\ btodo' = PackageModules(proj) /\ bpc' = "commit"
    /\ UNCHANGED <<proj, opts, brev, sources, deps, out, mods, upper, cache, ignored, blayers, remote,
                   boundVars>>

Adding(m, files) == [x \in DOMAIN repo \cup {m} |-> IF x \in DOMAIN repo THEN repo[x] ELSE files]

(* ... and the new ones, one by one: importLayerDir() refuses a module that is still there,
   and so fails for one that was not removed, or that the project declares twice. *)
CommitModule ==
    /\ bpc = "commit" /\ btodo # <<>>
    /\ IF Head(btodo) \in DOMAIN repo
       THEN CommandEnds /\ UNCHANGED <<repo, stale>>
       ELSE /\ repo' = Adding(Head(btodo), mods[Head(btodo)])
            /\ stale' = IF Unclean THEN stale \cup {Head(btodo)} ELSE stale
            /\ btodo' = Tail(btodo)
            /\ bpc' = IF Tail(btodo) = <<>> THEN "committed" ELSE "commit"
            /\ UNCHANGED <<opts, ignored>>
    /\ UNCHANGED <<proj, brev, sources, deps, out, mods, upper, cache, blayers, remote, boundVars>>

(* Builder::run(): only an application runs; the modules asked for, and its dependencies, have
   to resolve. *)
Runnable(modules) ==
    /\ proj.app /\ modules \subseteq DOMAIN repo
    /\ \A i \in DOMAIN Needed(proj) : ClearDependency(Needed(proj)[i])

Revisions(modules, f) == {x[2] : x \in UNION {f[m] : m \in modules \cap DOMAIN f}}

(* runtimeCheck(): main-check.sh runs in the application just committed; only how the command
   ends depends on it, and on --skip-output-check. *)
RuntimeCheck ==
    /\ bpc = "committed"
    /\ IF Runnable(ToSet(PackageModules(proj)))
       THEN bpc' = "ldcache" /\ btodo' = PackageModules(proj) /\ UNCHANGED <<opts, ignored>>
       ELSE CommandEnds
    /\ UNCHANGED <<proj, brev, sources, deps, out, mods, upper, cache, repo, stale, blayers, remote,
                   boundVars>>

(* handleRun(): the module binary, and develop to debug. *)
Run(debug) ==
    /\ Command /\ btodo' = IF debug THEN <<"binary", "develop">> ELSE <<"binary">>
    /\ Runnable(ToSet(btodo')) /\ bpc' = "ldcache"
    /\ UNCHANGED <<proj, opts, brev, sources, deps, out, mods, upper, cache, repo, ignored, failures,
                   stale, blayers, remote>>

(* The first container of run(): ldconfig, for the ld.so.conf written before.  A failing one
   may have removed the old cache. *)
GenerateLDCache ==
    LET for == Revisions(ToSet(btodo), repo) IN
    /\ bpc = "ldcache"
    /\ \/ cache' = [conf |-> for, ld |-> for] /\ bpc' = "running" /\ UNCHANGED <<opts, btodo, ignored>>
       \/ cache' \in {[cache EXCEPT !.conf = for], [conf |-> for, ld |-> {}]} /\ CommandEnds
    /\ UNCHANGED <<proj, brev, sources, deps, out, mods, upper, repo, stale, blayers, remote, boundVars>>

(* The second one: the application itself. *)
RunEnds == /\ bpc = "running" /\ CommandEnds
           /\ UNCHANGED <<proj, brev, sources, deps, out, mods, upper, cache, repo, stale, blayers,
                          remote, boundVars>>

(* exportLayer(): a module whose packing fails is logged, the file that was there is gone. *)
ExportLayer(noDevelop, failing) ==
    /\ Command /\ DOMAIN repo # {}
    /\ LET packed == IF noDevelop THEN DOMAIN repo \ {"develop"} ELSE DOMAIN repo
       IN  blayers' = [m \in (DOMAIN blayers \ packed) \cup (packed \ failing) |->
                         IF m \in packed THEN repo[m] ELSE blayers[m]]
    /\ UNCHANGED <<bpc, proj, opts, brev, sources, deps, out, mods, upper, cache, btodo, repo, ignored,
                   failures, stale, remote>>

(* importLayer(): adds the one module, whatever build the others stem from; one that is
   there is refused. *)
ImportLayer(m) ==
    /\ Command /\ m \in DOMAIN blayers \ DOMAIN repo
    /\ repo' = Adding(m, blayers[m]) /\ stale' = stale \cup {m}
    /\ UNCHANGED <<bpc, proj, opts, brev, sources, deps, out, mods, upper, cache, btodo, ignored,
                   failures, blayers, remote>>

(* cmdRemoveApp(): goes on after a failing removal. *)
RemoveApp ==
    /\ Command /\ DOMAIN repo # {}
    /\ \E kept \in Failing : repo' = Kept(kept) /\ stale' = kept
    /\ UNCHANGED <<bpc, proj, opts, brev, sources, deps, out, mods, upper, cache, btodo, ignored,
                   failures, blayers, remote>>

(* getProjectModule(), in alphabetical order. *)
NamesToPush(p) == {"binary", "develop"} \cup ModuleNames(p)
PlaceOf(m, names) == Cardinality({n \in names : Order[n] <= Order[m]})
ProjectModule(p) ==
    [i \in 1..Cardinality(NamesToPush(p)) |->
        CHOOSE m \in NamesToPush(p) : PlaceOf(m, NamesToPush(p)) = i]

(* handlePush(): module by module, up to the first that fails. *)
Push ==
    /\ Command /\ brev > 0 /\ btodo' = ProjectModule(proj) /\ bpc' = "push"
    /\ UNCHANGED <<proj, opts, brev, sources, deps, out, mods, upper, cache, repo, ignored, failures,
                   stale, blayers, remote>>

PushModule ==
    /\ bpc = "push"
    /\ IF btodo # <<>> /\ Head(btodo) \in DOMAIN repo
       THEN /\ remote' = [m \in DOMAIN remote \cup {Head(btodo)} |->
                            IF m = Head(btodo) THEN repo[m] ELSE remote[m]]
            /\ btodo' = Tail(btodo)
            /\ UNCHANGED <<bpc, opts, ignored>>
       ELSE CommandEnds /\ UNCHANGED remote
    /\ UNCHANGED <<proj, brev, sources, deps, out, mods, upper, cache, repo, stale, blayers, boundVars>>

ProjectNext ==
    \/ \E p \in Projects, o \in Options : Build(p, o)
    \/ FetchSource \/ PullDependency \/ PreBuild \/ SkipRun \/ BuildInContainer
    \/ PreCommit \/ SkipCommit \/ InstallFiles \/ InstallModule \/ InstallBinary
    \/ CleanOld \/ CommitModule \/ RuntimeCheck
    \/ \E debug \in BOOLEAN : Run(debug)
    \/ GenerateLDCache \/ RunEnds
    \/ \E n \in BOOLEAN, f \in Failing : ExportLayer(n, f)
    \/ \E m \in DOMAIN blayers : ImportLayer(m)
    \/ RemoveApp \/ Push \/ PushModule \/ CommandAborts

ProjectSpec == ProjectInit /\ [][ProjectNext]_projectVars

\* What a build commits, but for dependencies that could not be installed or copied.
Produced ==
    Built(brev) \cup (IF proj.depends /\ ignored \cap {"apt", "merge"} = {} THEN {<<"dep", brev>>} ELSE {})

\* Whatever is interrupted or fails: the modules in the repository, except those a removal
\* left behind, those imported and those of an unclean build, hold the files of one build
\* only; a build that has committed everything has the sources it fetched, and no others
\* unless the old ones could not be removed, and the modules of its dependencies it pulled; it
\* has committed the declared modules; with every file it produced, regular files once, and
\* an entry for every exported file it could copy, unless old files were left in its way
\* (commitToLocalRepo(), installFiles()); an application runs with the library cache of the
\* modules it runs with (run()); and a push of all modules leaves the remote with the modules
\* of one build (handlePush()).
BuildsNotMixed ==
    /\ Cardinality(Revisions(DOMAIN repo \ stale, repo)) <= 1
    /\ bpc = "committed" =>
         /\ "skip_fetch" \notin opts /\ proj.sources # <<>> =>
              /\ FetchSources(Len(proj.sources)) \subseteq sources
              /\ "sources" \notin ignored => sources = FetchSources(Len(proj.sources))
         /\ "skip_pull" \notin opts => ToSet(PullOrder(proj)) \subseteq deps
         /\ ToSet(PackageModules(proj)) \subseteq DOMAIN repo
         /\ ~Unclean =>
              /\ DOMAIN repo \ stale = ToSet(PackageModules(proj))
              /\ proj.install = {} => \A f \in Produced : \E m \in DOMAIN repo : f \in repo[m]
              /\ proj.app /\ "entries" \notin ignored /\ (\E f \in repo["binary"] : Exported(f)) =>
                   <<"entry", brev>> \in repo["binary"]
              /\ "full_develop" \notin opts =>
                   \A f \in Produced : f[1] \notin Links =>
                      Cardinality({m \in DOMAIN repo : f \in repo[m]}) <= 1
    /\ bpc = "running" => cache.ld = Revisions(ToSet(btodo), repo)
    /\ bpc = "push" /\ btodo = <<>> /\ stale \cap NamesToPush(proj) = {} =>
         Cardinality(Revisions(NamesToPush(proj), remote)) <= 1
==============================================================================
