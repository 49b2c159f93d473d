------------------------------- MODULE Cache -------------------------------
(***************************************************************************)
(* The dynamic linker's cache of one application, a directory that the     *)
(* package manager fills (package_manager.cpp, generateCache()) and that   *)
(* every `ll-cli run' looks at before it starts the application (cli.cpp,  *)
(* ensureCache()).  The directory holds ld.so.conf, which says for which   *)
(* layers the cache is, and ld.so.cache, which ldconfig makes of it in a   *)
(* container.  They are written one after the other, while others look.    *)
(***************************************************************************)
EXTENDS Naturals, Sequences

CONSTANTS Runners,    \* processes of ll-cli
          Layerings,  \* the sets of layers an application may run on, as ld.so.conf tells them
          MaxChanges, \* bound: changes of the layers
          MaxDeaths   \* bound: deaths of the package manager

Absent == "none"
ASSUME LayeringsAssumption == Absent \notin Layerings

NoCache == [dir |-> FALSE, conf |-> Absent, ld |-> Absent]

VARIABLES
    now,        \* the layers that the application would run on
    cache,      \* the directory
    job,        \* the generation that runs: step, layers, who asked (a runner or "install")
    generator,  \* m_generator_queue: runners whose job has not begun
    rpc,        \* runner -> "idle", "wait", "found", "made", "failed"
    mine,       \* runner -> the layers its container is made of
    changes, deaths,
    half        \* history: a removal left a part of the cache, and no generation was done since

cacheVars == <<now, cache, job, generator, rpc, mine, changes, deaths, half>>
Idle == [step |-> "idle", conf |-> Absent, for |-> Absent]

CacheInit ==
    /\ now \in Layerings /\ cache = NoCache /\ job = Idle /\ generator = <<>>
    /\ rpc = [r \in Runners |-> "idle"] /\ mine = [r \in Runners |-> Absent]
    /\ changes = 0 /\ deaths = 0 /\ half = FALSE

\* An extension or another version of a runtime is installed or removed.
Change ==
    /\ changes < MaxChanges /\ changes' = changes + 1
    /\ now' \in Layerings \ {now}
    /\ UNCHANGED <<cache, job, generator, rpc, mine, deaths, half>>

(***************************************************************************)
(* The package manager                                                     *)
(***************************************************************************)
\* The directory is made, and will be removed if the generation fails.
Begin(who) == job' = [step |-> "dir", conf |-> Absent, for |-> who] /\ cache' = [cache EXCEPT !.dir = TRUE]
Failed(who) == job' = [Idle EXCEPT !.step = "failed", !.for = who]

\* tryGenerateCache() after an installation: a directory that exists is taken for a cache.
TryGenerateCache ==
    /\ job = Idle /\ ~cache.dir
    /\ \/ Begin("install")
       \/ UNCHANGED <<job, cache>>       \* the directory cannot be made
    /\ UNCHANGED <<now, generator, rpc, mine, changes, deaths, half>>

\* The next job of GenerateCache().
NextGeneration ==
    /\ job = Idle /\ generator # <<>> /\ generator' = Tail(generator)
    /\ \/ Begin(Head(generator))
       \/ Failed(Head(generator)) /\ UNCHANGED cache
    /\ UNCHANGED <<now, rpc, mine, changes, deaths, half>>

\* generateCache(): the application is resolved again and ld.so.conf replaced ...
WriteConf ==
    /\ job.step = "dir"
    /\ job' = [job EXCEPT !.step = "conf", !.conf = now]
    /\ cache' = [cache EXCEPT !.conf = now]
    /\ UNCHANGED <<now, generator, rpc, mine, changes, deaths, half>>

\* ... and ldconfig run in the container.
RunLdconfig ==
    /\ job.step = "conf"
    /\ job' = [job EXCEPT !.step = "ran"]
    /\ cache' = [cache EXCEPT !.ld = job.conf] /\ half' = FALSE
    /\ UNCHANGED <<now, generator, rpc, mine, changes, deaths>>

\* remove_all(): an error on the way is only logged, and leaves what was not reached.
RemoveAll ==
    \/ cache' = NoCache /\ half' = FALSE
    \/ /\ \E conf \in {cache.conf, Absent}, ld \in {cache.ld, Absent} :
             cache' = [cache EXCEPT !.conf = conf, !.ld = ld]
       /\ half' = TRUE

\* A step fails (no layer, no directory, no container, ldconfig): the transaction removes
\* the directory.
RolledBackNothing == UNCHANGED <<cache, half>>
RolledBack == RemoveAll
GenerateFails ==
    /\ job.step \in {"dir", "conf"}
    /\ RolledBack /\ Failed(job.for)
    /\ UNCHANGED <<now, generator, rpc, mine, changes, deaths>>

\* GenerateCacheFinished, and what the runner makes of it: it goes on in any case.
GenerateCacheFinished ==
    /\ job.step \in {"ran", "failed"} /\ job' = Idle
    /\ IF job.for \in Runners /\ rpc[job.for] = "wait"
       THEN rpc' = [rpc EXCEPT ![job.for] = IF job.step = "ran" THEN "made" ELSE "failed"]
       ELSE UNCHANGED rpc
    /\ UNCHANGED <<now, cache, generator, mine, changes, deaths, half>>

\* The application is uninstalled (and installed again): removeCache() in a job of its own.
RemoveCache ==
    /\ job = Idle /\ cache.dir /\ \A r \in Runners : rpc[r] \in {"idle", "wait"}
    /\ RemoveAll
    /\ UNCHANGED <<now, job, generator, rpc, mine, changes, deaths>>

\* The package manager dies; who waits for GenerateCacheFinished waits on.
Death ==
    /\ deaths < MaxDeaths /\ deaths' = deaths + 1
    /\ job' = Idle /\ generator' = <<>>
    /\ UNCHANGED <<now, cache, rpc, mine, changes, half>>

(***************************************************************************)
(* ll-cli run                                                              *)
(***************************************************************************)
\* ensureCache(): the cache is good if its ld.so.conf is what this container would write.
\* (A file that cannot be opened ends the run.)
Good(conf) == cache.dir /\ cache.conf = conf
EnsureCache(r) ==
    /\ rpc[r] = "idle"
    /\ mine' = [mine EXCEPT ![r] = now]
    /\ IF Good(now)
       THEN rpc' = [rpc EXCEPT ![r] = "found"] /\ UNCHANGED generator
       ELSE rpc' = [rpc EXCEPT ![r] = "wait"] /\ generator' = Append(generator, r)
    /\ UNCHANGED <<now, cache, job, changes, deaths, half>>

\* The application has ended.
RunEnds(r) ==
    /\ rpc[r] \in {"found", "made", "failed"}
    /\ rpc' = [rpc EXCEPT ![r] = "idle"] /\ mine' = [mine EXCEPT ![r] = Absent]
    /\ UNCHANGED <<now, cache, job, generator, changes, deaths, half>>

CacheNext ==
    \/ Change \/ TryGenerateCache \/ NextGeneration \/ WriteConf \/ RunLdconfig \/ GenerateFails
    \/ GenerateCacheFinished \/ RemoveCache \/ Death
    \/ \E r \in Runners : EnsureCache(r) \/ RunEnds(r)

CacheSpec == CacheInit /\ [][CacheNext]_cacheVars
-----------------------------------------------------------------------------
\* As long as the package manager has not died and could remove what it wanted to remove, a
\* cache that nobody is working on is whole: ld.so.cache has been made of the ld.so.conf
\* beside it, whatever was there before and whatever generations have failed in between.
\* ensureCache() relies on it, because it looks at ld.so.conf only.
CacheWhole ==
    deaths = 0 /\ ~half /\ job.step \notin {"dir", "conf"} /\ cache.dir =>
        cache.conf # Absent /\ cache.ld = cache.conf
=============================================================================
