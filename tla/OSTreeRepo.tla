----------------------------- MODULE OSTreeRepo -----------------------------
(***************************************************************************)
(* class OSTreeRepo with its RepoCache: the layers on one machine, kept in *)
(* four places that are written one after the other.                       *)
(*   refs, stored   the ostree repository: which commit a ref names, and   *)
(*                  the commits whose objects are complete,                *)
(*   dirs           layers/<commit>, the checkouts applications run from,  *)
(*   cache, merged  RepoCache in memory,                                   *)
(*   disk, file     states.json: its content and whether it can be read,   *)
(*   mdirs          merged/<id>, modules of one package checked out into   *)
(*                  one directory; the id stands for the set of commits.   *)
(* Every write is a step, so that the process can die between any two.     *)
(* While a pull waits for the network other operations run to completion.  *)
(***************************************************************************)
EXTENDS Naturals, FiniteSets

CONSTANTS Layer,     \* refspecs repo:channel/id/version/arch/module
          Local,     \* the ones imported from files, of repo "local"
          Main,      \* the ones of module binary or runtime
          Package,   \* id/version/arch
          PackageOf, \* [Layer -> Package]
          MaxRev,    \* bound on the commits ever published under one ref
          Faults     \* what may go wrong, and the rarer events

AllFaults == {"crash", "net", "fs", "write", "short", "config", "upgrade", "again"}

ASSUME RepoAssumption ==
    /\ Local \subseteq Layer
    /\ Main \subseteq Layer
    /\ PackageOf \in [Layer -> Package]
    /\ MaxRev \in Nat \ {0}
    /\ Faults \subseteq AllFaults

VARIABLES head,    \* the newest commit of each ref at its remote
          refs, stored, dirs, cache, merged, disk, file, mdirs,
          op,      \* the operation in execution and its next step
          pulling, \* the layers a pull waits for, at most one
          up       \* the process runs

states == <<disk, file>>
vars == <<head, refs, stored, dirs, cache, merged, disk, file, mdirs, op, pulling, up>>

Commit == Layer \X (1..MaxRev)
LayerOf(c) == c[1]

\* Nothing known of a commit, a layer item, or one with the deleted mark.
Mark == {"none", "live", "deleted"}
NoItems == [c \in Commit |-> "none"]

Steps == {"idle", "size", "mkdir", "wipe", "checkout", "fill", "record",
          "unref", "forget", "rmdir", "merge", "rename", "clean"}

\* An operation: its next step, the commit it is about, and for a merge the
\* packages still to be looked at and the merged items found so far.
Operation == [at : Steps, on : SUBSET Commit, todo : SUBSET Package,
              made : SUBSET SUBSET Commit]

Merging(step, commits, packages, items) ==
    [at |-> step, on |-> commits, todo |-> packages, made |-> items]

Doing(step, commits) == Merging(step, commits, {}, {})

Idle == Doing("idle", {})

Init == /\ head = [l \in Layer |-> IF l \in Local THEN 0 ELSE 1]
        /\ refs = [l \in Layer |-> 0]
        /\ stored = {}
        /\ dirs = [c \in Commit |-> "absent"]
        /\ cache = NoItems
        /\ merged = {}
        /\ disk = [cache |-> NoItems, merged |-> {}]
        /\ file = "good"
        /\ mdirs = {}
        /\ op = Idle
        /\ pulling = {}
        /\ up = TRUE

\* No code of the repository is on the stack above the event loop.
Free == up /\ op = Idle

At(step) == up /\ op.at = step

On(c) == op.on = {c}

Step(step) == op' = Doing(step, op.on)
Done == op' = Idle

Items(l) == {c \in Commit : LayerOf(c) = l /\ cache[c] # "none"}

\* getLayerItem(): no item is an error, and so are two of the default repository.  Of two
\* from elsewhere the first is taken, which may be either.
IsItem(c) == cache[c] # "none" /\ (LayerOf(c) \in Local \/ Items(LayerOf(c)) = {c})

\* writeToDisk(): a temporary file is renamed over states.json.  A write that
\* fails is noticed only if the file cannot be opened or renamed; data lost on
\* the way to the temporary file are not missed.  (The .version beside it is written anew,
\* which changes nothing in a repository of this version; see BuilderRepo.)
Saved(c, m) == \/ /\ disk' = [cache |-> c, merged |-> m]
                  /\ file' = "good"
               \/ /\ "short" \in Faults
                  /\ file' = "bad"
                  /\ UNCHANGED disk

NotSaved == "write" \in Faults /\ UNCHANGED states
-----------------------------------------------------------------------------
(* pull() and importLayerDir().                                            *)

\* The remote publishes another commit under an existing ref.
Publish(l) == /\ l \notin Local
              /\ head[l] < MaxRev
              /\ head' = [head EXCEPT ![l] = @ + 1]
              /\ UNCHANGED <<refs, stored, dirs, cache, merged, disk, file, mdirs, op,
                             pulling, up>>

\* pull(): getCommitSize() fetches the commit alone, which sets the ref.  A layer
\* is pulled when it has no item; "again" drops that.
Pull(l) == /\ Free
           /\ l \notin Local
           /\ pulling = {}
           /\ "again" \notin Faults => Items(l) = {}
           /\ pulling' = {l}
           /\ \/ /\ refs' = [refs EXCEPT ![l] = head[l]]
                 /\ op' = Doing("size", {})
              \/ "net" \in Faults /\ UNCHANGED <<refs, op>>
           /\ UNCHANGED <<head, stored, dirs, cache, merged, disk, file, mdirs, up>>

\* getCommitSize() has added up the sizes and deletes the ref.
SizeKnown == /\ At("size")
             /\ \/ refs' = [l \in Layer |-> IF l \in pulling THEN 0 ELSE refs[l]]
                \/ "fs" \in Faults /\ UNCHANGED refs
             /\ Done
             /\ UNCHANGED <<head, stored, dirs, cache, merged, disk, file, mdirs, pulling, up>>

\* (mutant) the ref is deleted after the pull instead of before it.
FetchedThenUnref(l) ==
    /\ Free
    /\ l \in pulling
    /\ pulling' = {}
    /\ refs' = [refs EXCEPT ![l] = 0]
    /\ stored' = stored \cup {<<l, head[l]>>}
    /\ op' = Doing("mkdir", {<<l, head[l]>>})
    /\ UNCHANGED <<head, dirs, cache, merged, disk, file, mdirs, up>>

\* The objects are there and the ref names the commit.
Fetched(l) == /\ Free
              /\ l \in pulling
              /\ pulling' = {}
              /\ refs' = [refs EXCEPT ![l] = head[l]]
              /\ stored' = stored \cup {<<l, head[l]>>}
              /\ \/ op' = Doing("mkdir", {<<l, head[l]>>})
                 \/ "fs" \in Faults /\ Done
              /\ UNCHANGED <<head, dirs, cache, merged, disk, file, mdirs, up>>

\* The remote cannot be reached, or the task was cancelled.
FetchFails == /\ Free
              /\ pulling # {}
              /\ "net" \in Faults
              /\ pulling' = {}
              /\ UNCHANGED <<head, refs, stored, dirs, cache, merged, disk, file, mdirs,
                             op, up>>

\* importLayerDir() commits a directory under a ref of repo "local", unless the
\* layer is there, directory included.
Import(l) ==
    LET c == <<l, head[l] + 1>>
    IN  /\ Free
        /\ l \in Local
        /\ head[l] < MaxRev
        /\ Items(l) = {} \/ \E d \in Items(l) : IsItem(d) /\ dirs[d] = "absent"
        /\ head' = [head EXCEPT ![l] = @ + 1]
        /\ refs' = [refs EXCEPT ![l] = head[l] + 1]
        /\ stored' = stored \cup {c}
        /\ op' = Doing("mkdir", {c})
        /\ UNCHANGED <<dirs, cache, merged, disk, file, mdirs, pulling, up>>

\* ensureEmptyLayerDir().
MakeDir ==
    \E c \in Commit :
        /\ At("mkdir")
        /\ On(c)
        /\ \/ /\ dirs' = [dirs EXCEPT ![c] = IF @ = "absent" THEN "partial" ELSE @]
              /\ Step("wipe")
           \/ "fs" \in Faults /\ UNCHANGED dirs /\ Done
        /\ UNCHANGED <<head, refs, stored, cache, merged, disk, file, mdirs, pulling, up>>

\* A step of handleRepositoryUpdate() on the layer directory; when it fails the
\* operation is over, and neither the ref nor the directory is taken back.
DirStep(step, becomes, next) ==
    \E c \in Commit :
        /\ At(step)
        /\ On(c)
        /\ \/ dirs' = [dirs EXCEPT ![c] = becomes] /\ Step(next)
           \/ "fs" \in Faults /\ dirs' = [dirs EXCEPT ![c] = "partial"] /\ Done
        /\ UNCHANGED <<head, refs, stored, cache, merged, disk, file, mdirs, pulling, up>>

\* (mutant) the item is added before the checkout.
WipeDirThenRecord == DirStep("wipe", "absent", "record")

\* removeRecursively(), then the checkout, which fills the directory file by file.
WipeDir == DirStep("wipe", "absent", "checkout")
StartCheckout == DirStep("checkout", "partial", "fill")
EndCheckout == DirStep("fill", "full", "record")

\* addLayerItem(); when states.json cannot be written the item stays in memory.
AddLayerItem ==
    \E c \in Commit :
        /\ At("record")
        /\ On(c)
        /\ IF cache[c] = "none"
           THEN LET items == [cache EXCEPT ![c] = "live"]
                IN  cache' = items /\ (Saved(items, merged) \/ NotSaved)
           ELSE UNCHANGED <<cache, disk, file>>
        /\ Done
        /\ UNCHANGED <<head, refs, stored, dirs, merged, mdirs, pulling, up>>
-----------------------------------------------------------------------------
(* remove(), markDeleted(), prune(), setConfig().                          *)

\* remove() of a layer that is found, with or without the deleted mark.
Remove(l) == /\ Free
             /\ \E c \in Commit :
                  /\ LayerOf(c) = l
                  /\ IsItem(c)
                  /\ op' = Doing("unref", {c})
             /\ UNCHANGED <<head, refs, stored, dirs, cache, merged, disk, file, mdirs,
                            pulling, up>>

\* removeOstreeRef(), first the ref ...
Unref == \E c \in Commit :
            /\ At("unref")
            /\ On(c)
            /\ \/ refs' = [refs EXCEPT ![LayerOf(c)] = 0] /\ Step("forget")
               \/ "fs" \in Faults /\ UNCHANGED refs /\ Done
            /\ UNCHANGED <<head, stored, dirs, cache, merged, disk, file, mdirs, pulling, up>>

\* (mutant) deleteLayerItem() does not write states.json.
DeleteLayerItemUnsaved ==
    \E c \in Commit :
        /\ At("forget")
        /\ On(c)
        /\ cache' = [cache EXCEPT ![c] = "none"]
        /\ Step("rmdir")
        /\ UNCHANGED <<head, refs, stored, dirs, merged, disk, file, mdirs, pulling, up>>

\* ... then the item.  When states.json cannot be written the item is gone from
\* memory and the directory stays.
DeleteLayerItem ==
    \E c \in Commit :
        /\ At("forget")
        /\ On(c)
        /\ LET items == [cache EXCEPT ![c] = "none"]
           IN  /\ cache' = items
               /\ \/ Saved(items, merged) /\ Step("rmdir")
                  \/ NotSaved /\ Done
        /\ UNCHANGED <<head, refs, stored, dirs, merged, mdirs, pulling, up>>

\* A directory that cannot be removed is only logged.
RemoveDir ==
    \E c \in Commit :
        /\ At("rmdir")
        /\ On(c)
        /\ \/ dirs' = [dirs EXCEPT ![c] = "absent"]
           \/ "fs" \in Faults /\ dirs' = [dirs EXCEPT ![c] = "partial"]
        /\ Done
        /\ UNCHANGED <<head, refs, stored, cache, merged, disk, file, mdirs, pulling, up>>

\* markDeleted(): the one change of the cache that is taken back when states.json
\* cannot be written.
MarkDeleted(l, mark) ==
    /\ Free
    /\ \E c \in Commit :
         /\ LayerOf(c) = l
         /\ IsItem(c)
         /\ cache[c] # mark
         /\ LET items == [cache EXCEPT ![c] = mark]
            IN  cache' = items /\ Saved(items, merged)
    /\ UNCHANGED <<head, refs, stored, dirs, merged, mdirs, op, pulling, up>>

Readable == {c \in stored : refs[LayerOf(c)] = c[2]}

\* prune() keeps what a ref reaches.
Prune == /\ Free
         /\ stored' = Readable
         /\ UNCHANGED <<head, refs, dirs, cache, merged, disk, file, mdirs, op, pulling, up>>

\* What rebuildCache() makes of the refs: every commit it can read is an item,
\* and none has a mark.  (Left out: the refs cannot be listed, which leaves nothing in
\* memory and states.json as it was.)
Rebuilt == [c \in Commit |-> IF c \in Readable THEN "live" ELSE "none"]

\* setConfig() rebuilds the cache.
SetConfig == /\ Free
             /\ "config" \in Faults
             /\ cache' = Rebuilt
             /\ Saved(Rebuilt, merged) \/ NotSaved
             /\ UNCHANGED <<head, refs, stored, dirs, merged, mdirs, op, pulling, up>>
-----------------------------------------------------------------------------
(* mergeModules().                                                         *)

\* The commits of the modules of p that are installed.
Modules(p) == {c \in Commit : PackageOf[LayerOf(c)] = p /\ cache[c] = "live"}

NeedsMerge(p) == /\ Cardinality(Modules(p)) # 1
                 /\ \E c \in Modules(p) : LayerOf(c) \in Main

Merge == /\ Free
         /\ op' = Merging("merge", {}, {p \in Package : NeedsMerge(p)}, {})
         /\ UNCHANGED <<head, refs, stored, dirs, cache, merged, disk, file, mdirs, pulling,
                        up>>

\* The record of an earlier merge of the same commits is trusted.
KeepMerged(p) ==
    /\ At("merge")
    /\ p \in op.todo
    /\ Modules(p) \in merged
    /\ op' = Merging("merge", {}, op.todo \ {p}, op.made \cup {Modules(p)})
    /\ UNCHANGED <<head, refs, stored, dirs, cache, merged, disk, file, mdirs, pulling, up>>

\* Otherwise the modules are checked out into a temporary directory, a stale
\* directory of the same name is removed ...
ClearMerged(p) ==
    /\ At("merge")
    /\ p \in op.todo
    /\ Modules(p) \notin merged
    /\ \/ /\ Modules(p) \subseteq stored
          /\ mdirs' = mdirs \ {Modules(p)}
          /\ op' = Merging("rename", Modules(p), op.todo \ {p}, op.made)
       \/ /\ Modules(p) \subseteq stored => "fs" \in Faults
          /\ UNCHANGED mdirs
          /\ Done
    /\ UNCHANGED <<head, refs, stored, dirs, cache, merged, disk, file, pulling, up>>

\* ... and the temporary one takes its name.
RenameMerged ==
    /\ At("rename")
    /\ \/ /\ mdirs' = mdirs \cup {op.on}
          /\ op' = Merging("merge", {}, op.todo, op.made \cup {op.on})
       \/ "fs" \in Faults /\ UNCHANGED mdirs /\ Done
    /\ UNCHANGED <<head, refs, stored, dirs, cache, merged, disk, file, pulling, up>>

\* updateMergedItems().
SaveMerged ==
    /\ At("merge")
    /\ op.todo = {}
    /\ merged' = op.made
    /\ \/ Saved(cache, op.made) /\ Step("clean")
       \/ NotSaved /\ Done
    /\ UNCHANGED <<head, refs, stored, dirs, cache, mdirs, pulling, up>>

\* (mutant) the directories are looked up under another name.
CleanMergedAll ==
    /\ At("clean")
    /\ mdirs' = {}
    /\ Done
    /\ UNCHANGED <<head, refs, stored, dirs, cache, merged, disk, file, pulling, up>>

\* Directories without a record are removed, those the system lets go of.
CleanMerged ==
    /\ At("clean")
    /\ \E left \in SUBSET (mdirs \ merged) :
         /\ left # {} => "fs" \in Faults
         /\ mdirs' = (mdirs \cap merged) \cup left
    /\ Done
    /\ UNCHANGED <<head, refs, stored, dirs, cache, merged, disk, file, pulling, up>>
-----------------------------------------------------------------------------
(* The process ends and starts again.                                      *)

Stopped == /\ up' = FALSE
           /\ op' = Idle
           /\ pulling' = {}
           /\ cache' = NoItems
           /\ merged' = {}

Stop == /\ Free
        /\ pulling = {}
        /\ Stopped
        /\ UNCHANGED <<head, refs, stored, dirs, disk, file, mdirs>>

Crash == /\ up
         /\ "crash" \in Faults
         /\ Stopped
         /\ UNCHANGED <<head, refs, stored, dirs, disk, file, mdirs>>

\* Another version of the program is installed.
Upgrade == /\ ~up
           /\ "upgrade" \in Faults
           /\ file = "good"
           /\ file' = "outdated"
           /\ UNCHANGED <<head, refs, stored, dirs, cache, merged, disk, mdirs, op,
                          pulling, up>>

\* (mutant) the cache is rebuilt on every start.
StartRebuilding == /\ ~up
                   /\ up' = TRUE
                   /\ cache' = Rebuilt
                   /\ merged' = disk.merged
                   /\ Saved(Rebuilt, disk.merged)
                   /\ UNCHANGED <<head, refs, stored, dirs, mdirs, op, pulling>>

\* RepoCache::create(): a readable states.json of this version is believed, an
\* outdated one only for its merged items.
Start ==
    LET items == IF file = "good" THEN disk.cache ELSE Rebuilt
        kept  == IF file = "bad" THEN {} ELSE disk.merged
    IN  /\ ~up
        /\ up' = TRUE
        /\ cache' = items
        /\ merged' = kept
        /\ IF file = "good" THEN UNCHANGED states ELSE Saved(items, kept)
        /\ UNCHANGED <<head, refs, stored, dirs, mdirs, op, pulling>>
-----------------------------------------------------------------------------
Next == \/ \E l \in Layer : Publish(l) \/ Pull(l) \/ Fetched(l) \/ Import(l) \/ Remove(l)
        \/ \E l \in Layer, mark \in {"live", "deleted"} : MarkDeleted(l, mark)
        \/ SizeKnown \/ FetchFails
        \/ MakeDir \/ WipeDir \/ StartCheckout \/ EndCheckout \/ AddLayerItem
        \/ Unref \/ DeleteLayerItem \/ RemoveDir
        \/ Prune \/ SetConfig
        \/ Merge \/ \E p \in Package : KeepMerged(p) \/ ClearMerged(p)
        \/ RenameMerged \/ SaveMerged \/ CleanMerged
        \/ Stop \/ Crash \/ Upgrade \/ Start

Spec == Init /\ [][Next]_vars
-----------------------------------------------------------------------------
\* The values the four places and the operation in execution take.
TypeOK ==
    /\ head \in [Layer -> 0..MaxRev]
    /\ refs \in [Layer -> 0..MaxRev]
    /\ stored \subseteq Commit
    /\ dirs \in [Commit -> {"absent", "partial", "full"}]
    /\ cache \in [Commit -> Mark]
    /\ merged \subseteq SUBSET Commit
    /\ disk \in [cache : [Commit -> Mark], merged : SUBSET SUBSET Commit]
    /\ file \in {"good", "outdated", "bad"}
    /\ mdirs \subseteq SUBSET Commit
    /\ op \in Operation
    /\ pulling \subseteq Layer
    /\ up \in BOOLEAN

\* What the repository lists as a layer can be run from its directory; a layer
\* whose pull is being repeated excepted.
CheckedOut ==
    \A c \in Commit : cache[c] # "none" /\ ~ On(c) => dirs[c] = "full"

\* The commit of a layer stays reachable, so that prune() keeps what a merge or a
\* push still needs; a removal in progress excepted.
Referenced ==
    \A c \in Commit : cache[c] # "none" /\ ~ On(c) => c \in Readable

\* One ref has one item: getLayerItem() gives up on two.
NoAmbiguousRef ==
    \A l \in Layer : Cardinality(Items(l)) <= 1

\* The items of states.json are the commits the refs name, one per ref, across pulls that
\* set and delete the ref (getCommitSize()) and across rebuilds (rebuildCache()).
ItemsAreRefs == Referenced /\ NoAmbiguousRef

\* A merged item has its directory: mergeModules() never looks again.
MergedBacked == merged \subseteq mdirs

\* A layer that is hidden because an application still runs from it comes back
\* only when markDeleted() says so, whatever happens to the process.
HiddenStaysHidden ==
    [][\A c \in Commit : disk.cache[c] = "deleted" /\ disk'.cache[c] = "live"
                            => cache[c] = "deleted" /\ op = Idle]_vars

\* What survives the process of layer l.
Durable(l) ==
    LET items == {c \in Commit : LayerOf(c) = l /\ disk.cache[c] # "none"}
    IN  IF items = {} THEN "absent"
        ELSE IF \E c \in items : dirs[c] # "full" THEN "broken"
        ELSE IF \E c \in items : disk.cache[c] = "live" THEN "live"
        ELSE "deleted"

Layers == [l \in Layer |-> Durable(l)]

Store == INSTANCE LayerStore WITH layers <- Layers

\* Installing and removing are atomic and durable: states.json is written when the
\* directory is complete and before it is taken apart, so that a crash anywhere in
\* pull(), importLayerDir(), remove() or markDeleted() leaves a layer either
\* installed and usable or not installed.
ImplementsStore == Store!Spec
=============================================================================
