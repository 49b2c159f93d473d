-------------------------- MODULE OSTreeRepoProofs --------------------------
(***************************************************************************)
(* Proofs about OSTreeRepo, for any layers and any number of commits: type *)
(* correctness whatever goes wrong; as long as states.json can be written  *)
(* and is never rebuilt, the atomicity of installing and removing a layer  *)
(* under crashes and failing steps; and what holds when it cannot be       *)
(* written or is rebuilt.  And about BuilderRepo, for any layers,          *)
(* repositories, configurations and versions, and any number of starts     *)
(* that are killed or fail.                                                *)
(***************************************************************************)
EXTENDS RepoFiles, FiniteSetTheorems, TLAPS

\* TypeOK needs to know that a layer which is pulled has been published.
TypeInv == /\ TypeOK
           /\ \A l \in Layer \ Local : head[l] # 0
           /\ pulling \cap Local = {}

\* The empty repository is well-typed.
LEMMA TypeInit == Init => TypeInv
BY RepoAssumption DEF Init, TypeInv, TypeOK, Commit, Mark, NoItems, Merging, Doing, Idle,
   Operation, Steps

\* Every step of the repository keeps its state well-typed.
LEMMA TypeStep == TypeInv /\ [Next]_vars => TypeInv'
<1> SUFFICES ASSUME TypeInv, [Next]_vars PROVE TypeInv'
  OBVIOUS
<1> USE RepoAssumption DEF TypeInv, TypeOK, Commit, Mark, Operation, Steps, Merging, Doing, Idle, Done,
                           Step, At, On, Free, LayerOf
<1>1. ASSUME NEW l \in Layer, Publish(l) PROVE TypeInv'
  BY <1>1 DEF Publish
<1>2. ASSUME NEW l \in Layer, Pull(l) PROVE TypeInv'
  BY <1>2 DEF Pull
<1>3. ASSUME NEW l \in Layer, Fetched(l) PROVE TypeInv'
  BY <1>3 DEF Fetched
<1>4. ASSUME NEW l \in Layer, Import(l) PROVE TypeInv'
  BY <1>4 DEF Import
<1>5. ASSUME NEW l \in Layer, Remove(l) PROVE TypeInv'
  BY <1>5 DEF Remove
<1>6. ASSUME NEW l \in Layer, NEW mark \in {"live", "deleted"}, MarkDeleted(l, mark)
      PROVE TypeInv'
  BY <1>6 DEF MarkDeleted, Saved
<1>7. ASSUME SizeKnown PROVE TypeInv'
  BY <1>7 DEF SizeKnown
<1>8. ASSUME FetchFails PROVE TypeInv'
  BY <1>8 DEF FetchFails
<1>9. ASSUME MakeDir PROVE TypeInv'
  BY <1>9 DEF MakeDir
<1>10. ASSUME WipeDir PROVE TypeInv'
  BY <1>10 DEF WipeDir, DirStep
<1>11. ASSUME StartCheckout PROVE TypeInv'
  BY <1>11 DEF StartCheckout, DirStep
<1>12. ASSUME EndCheckout PROVE TypeInv'
  BY <1>12 DEF EndCheckout, DirStep
<1>13. ASSUME AddLayerItem PROVE TypeInv'
  BY <1>13 DEF AddLayerItem, Saved, NotSaved, states
<1>14. ASSUME Unref PROVE TypeInv'
  BY <1>14 DEF Unref
<1>15. ASSUME DeleteLayerItem PROVE TypeInv'
  BY <1>15 DEF DeleteLayerItem, Saved, NotSaved, states
<1>16. ASSUME RemoveDir PROVE TypeInv'
  BY <1>16 DEF RemoveDir
<1>17. ASSUME Prune PROVE TypeInv'
  BY <1>17 DEF Prune, Readable
<1>18. Rebuilt \in [Commit -> Mark]
  BY DEF Rebuilt
<1>19. ASSUME SetConfig PROVE TypeInv'
  BY <1>18, <1>19 DEF SetConfig, Saved, NotSaved, states
<1>20. ASSUME Merge PROVE TypeInv'
  BY <1>20 DEF Merge
<1>21. \A p \in Package : Modules(p) \in SUBSET Commit
  BY DEF Modules
<1>22. ASSUME NEW p \in Package, KeepMerged(p) PROVE TypeInv'
  BY <1>21, <1>22 DEF KeepMerged
<1>23. ASSUME NEW p \in Package, ClearMerged(p) PROVE TypeInv'
  BY <1>21, <1>23 DEF ClearMerged
<1>24. ASSUME RenameMerged PROVE TypeInv'
  <2>1. op.on \in SUBSET Commit /\ op.todo \in SUBSET Package /\ op.made \in SUBSET SUBSET Commit
    OBVIOUS
  <2>2. mdirs \cup {op.on} \in SUBSET SUBSET Commit /\ op.made \cup {op.on} \in SUBSET SUBSET Commit
    BY <2>1
  <2>3. op' \in Operation /\ mdirs' \in SUBSET SUBSET Commit
    BY <1>24, <2>1, <2>2 DEF RenameMerged
  <2> QED
    BY <1>24, <2>3 DEF RenameMerged
<1>25. ASSUME SaveMerged PROVE TypeInv'
  BY <1>25 DEF SaveMerged, Saved, NotSaved, states
<1>26. ASSUME CleanMerged PROVE TypeInv'
  BY <1>26 DEF CleanMerged
<1>27. ASSUME Stop \/ Crash PROVE TypeInv'
  <2>1. NoItems \in [Commit -> Mark] /\ Idle \in Operation
    BY DEF NoItems
  <2>2. Stopped /\ UNCHANGED <<head, refs, stored, dirs, disk, file, mdirs>>
    BY <1>27 DEF Stop, Crash
  <2> QED
    BY <2>1, <2>2 DEF Stopped
<1>28. ASSUME Upgrade PROVE TypeInv'
  BY <1>28 DEF Upgrade
<1>29. ASSUME Start PROVE TypeInv'
  BY <1>18, <1>29 DEF Start, Saved, states
<1>30. ASSUME UNCHANGED vars PROVE TypeInv'
  BY <1>30 DEF vars
<1> HIDE DEF TypeInv, TypeOK, Commit, Mark, Operation, Steps, Merging, Doing, Idle, Done, Step, At,
             On, Free, LayerOf
<1> QED
  BY <1>1, <1>2, <1>3, <1>4, <1>5, <1>6, <1>7, <1>8, <1>9, <1>10, <1>11, <1>12, <1>13, <1>14,
     <1>15, <1>16, <1>17, <1>19, <1>20, <1>22, <1>23, <1>24, <1>25, <1>26, <1>27, <1>28, <1>29,
     <1>30 DEF Next

\* Whatever fails, is cut short, crashes or is rebuilt, the state of the repository
\* stays well-typed.
THEOREM TypeCorrect == Spec => []TypeOK
<1>1. TypeInv => TypeOK
  BY DEF TypeInv
<1> QED
  BY TypeInit, TypeStep, <1>1, PTL DEF Spec
-----------------------------------------------------------------------------
(* Crashes and failing steps.                                              *)

\* Nothing but crashes, a failing network and a failing file system.
Reliable == Faults \cap {"write", "short", "config", "upgrade", "again"} = {}

\* What is on disk is what is in memory, and nothing else is in progress when the
\* process is down.
InStep == /\ file = "good"
          /\ up => cache = disk.cache
          /\ ~up => cache = NoItems /\ op = Idle /\ pulling = {}

\* An item has its directory, and a ref one item.
Sound == \A c \in Commit : disk.cache[c] # "none" => dirs[c] = "full"
Single == \A c, e \in Commit :
            LayerOf(c) = LayerOf(e) /\ disk.cache[c] # "none" /\ disk.cache[e] # "none" => c = e

\* A layer that is being pulled has no item.
Pulled == \A c \in Commit : LayerOf(c) \in pulling => disk.cache[c] = "none"

Building == {"mkdir", "wipe", "checkout", "fill", "record"}

\* The directory an operation works on belongs to no item, until it is complete.
Working ==
    /\ op.at \in Building \cup {"rmdir"} =>
         \A c \in op.on, e \in Commit : LayerOf(e) = LayerOf(c) => disk.cache[e] = "none"
    /\ op.at \in Building => \A c \in op.on : LayerOf(c) \notin pulling
    /\ op.at = "record" => \A c \in op.on : dirs[c] = "full"
    /\ op.at \in {"unref", "forget"} => \A c \in op.on : disk.cache[c] # "none"

CrashInv == TypeInv /\ InStep /\ Sound /\ Single /\ Pulled /\ Working

\* The empty repository satisfies the crash invariant.
LEMMA CrashInit == Init => CrashInv
<1> SUFFICES ASSUME Init PROVE CrashInv
  OBVIOUS
<1>1. TypeInv
  BY TypeInit
<1> QED
  BY <1>1 DEF Init, CrashInv, InStep, Sound, Single, Pulled, Working, Building, NoItems, Idle,
              Doing, Merging

\* Every step keeps the directories of the items complete.
LEMMA CrashStep == ASSUME Reliable PROVE CrashInv /\ [Next]_vars => CrashInv'
<1> SUFFICES ASSUME CrashInv, [Next]_vars PROVE CrashInv'
  OBVIOUS
<1>0. TypeInv'
  BY TypeStep DEF CrashInv
<1> DEFINE Rest == InStep /\ Sound /\ Single /\ Pulled /\ Working
<1> SUFFICES Rest'
  BY <1>0 DEF CrashInv
<1>T. /\ disk \in [cache : [Commit -> Mark], merged : SUBSET SUBSET Commit]
      /\ cache \in [Commit -> Mark]
      /\ dirs \in [Commit -> {"absent", "partial", "full"}]
      /\ op \in Operation
      /\ up \in BOOLEAN
      /\ pulling \cap Local = {}
  BY DEF CrashInv, TypeInv, TypeOK
<1>C. \A c \in Commit : LayerOf(c) \in Layer
  BY DEF Commit, LayerOf
<1>R. "write" \notin Faults /\ "short" \notin Faults /\ "config" \notin Faults
      /\ "upgrade" \notin Faults /\ "again" \notin Faults
  BY DEF Reliable
<1> USE <1>T, <1>C, <1>R DEF CrashInv, InStep, Sound, Single, Pulled, Working, Building, Merging,
                             Doing, Idle, Done, Step, At, On, Free, Items, IsItem
<1>1. ASSUME NEW l \in Layer, Publish(l) PROVE Rest'
  BY <1>1 DEF Publish
<1>2. ASSUME NEW l \in Layer, Pull(l) PROVE Rest'
  BY <1>2 DEF Pull
<1>3. ASSUME NEW l \in Layer, Fetched(l) PROVE Rest'
  BY <1>3 DEF Fetched, LayerOf
<1>4. ASSUME NEW l \in Layer, Import(l) PROVE Rest'
  BY <1>4 DEF Import, LayerOf
<1>5. ASSUME NEW l \in Layer, Remove(l) PROVE Rest'
  BY <1>5 DEF Remove
<1>6. ASSUME NEW l \in Layer, NEW mark \in {"live", "deleted"}, MarkDeleted(l, mark)
      PROVE Rest'
  BY <1>6 DEF MarkDeleted, Saved
<1>7. ASSUME SizeKnown \/ FetchFails PROVE Rest'
  BY <1>7 DEF SizeKnown, FetchFails
<1>8. ASSUME MakeDir PROVE Rest'
  BY <1>8 DEF MakeDir
<1>9. ASSUME WipeDir PROVE Rest'
  BY <1>9 DEF WipeDir, DirStep
<1>10. ASSUME StartCheckout PROVE Rest'
  BY <1>10 DEF StartCheckout, DirStep
<1>11. ASSUME EndCheckout PROVE Rest'
  BY <1>11 DEF EndCheckout, DirStep
<1>12. ASSUME AddLayerItem PROVE Rest'
  BY <1>12 DEF AddLayerItem, Saved, NotSaved
<1>13. ASSUME Unref PROVE Rest'
  BY <1>13 DEF Unref
<1>14. ASSUME DeleteLayerItem PROVE Rest'
  BY <1>14 DEF DeleteLayerItem, Saved, NotSaved
<1>15. ASSUME RemoveDir PROVE Rest'
  BY <1>15 DEF RemoveDir
<1>16. ASSUME Prune \/ SetConfig \/ Merge PROVE Rest'
  BY <1>16 DEF Prune, SetConfig, Merge
<1>17. ASSUME NEW p \in Package, KeepMerged(p) \/ ClearMerged(p) PROVE Rest'
  BY <1>17 DEF KeepMerged, ClearMerged
<1>18. ASSUME RenameMerged PROVE Rest'
  BY <1>18 DEF RenameMerged
<1>19. ASSUME SaveMerged PROVE Rest'
  BY <1>19 DEF SaveMerged, Saved, NotSaved
<1>20. ASSUME CleanMerged PROVE Rest'
  BY <1>20 DEF CleanMerged
<1>21. ASSUME Stop \/ Crash PROVE Rest'
  BY <1>21 DEF Stop, Crash, Stopped
<1>22. ASSUME Upgrade PROVE Rest'
  BY <1>22 DEF Upgrade
<1>23. ASSUME Start PROVE Rest'
  BY <1>23 DEF Start, states
<1>24. ASSUME UNCHANGED vars PROVE Rest'
  BY <1>24 DEF vars
<1> HIDE DEF Rest, CrashInv, InStep, Sound, Single, Pulled, Working, Building, Merging, Doing, Idle,
             Done, Step, At, On, Free, Items, IsItem
<1> QED
  BY <1>1, <1>2, <1>3, <1>4, <1>5, <1>6, <1>7, <1>8, <1>9, <1>10, <1>11, <1>12, <1>13,
     <1>14, <1>15, <1>16, <1>17, <1>18, <1>19, <1>20, <1>21, <1>22, <1>23, <1>24 DEF Next

\* Whenever the process dies and whichever step fails, a layer the repository lists
\* has a complete directory.
THEOREM ListedIsCheckedOut == ASSUME Reliable PROVE Spec => []CheckedOut
<1>1. CrashInv => CheckedOut
  BY DEF CrashInv, InStep, Sound, CheckedOut, NoItems
<1> QED
  BY CrashInit, CrashStep, <1>1, PTL DEF Spec

\* The steps that change which layers states.json lists.
LEMMA WriteStep ==
    ASSUME Reliable, CrashInv, [Next]_vars
    PROVE  \/ disk'.cache = disk.cache
           \/ \E l \in Layer, mark \in {"live", "deleted"} : MarkDeleted(l, mark)
           \/ AddLayerItem
           \/ DeleteLayerItem
<1>R. "write" \notin Faults /\ "short" \notin Faults /\ "config" \notin Faults
      /\ "upgrade" \notin Faults /\ "again" \notin Faults
  BY DEF Reliable
<1>1. ASSUME SaveMerged \/ Start PROVE disk'.cache = disk.cache
  BY <1>1, <1>R DEF SaveMerged, Start, At, Saved, NotSaved, CrashInv, InStep, states
<1>2. ASSUME SetConfig \/ Upgrade PROVE FALSE
  BY <1>2, <1>R DEF SetConfig, Upgrade
<1>3. ASSUME NEW l \in Layer, Publish(l) \/ Pull(l) \/ Fetched(l) \/ Import(l) \/ Remove(l)
       PROVE  UNCHANGED disk
  BY <1>3 DEF Publish, Pull, Fetched, Import, Remove
<1>4. ASSUME \/ SizeKnown \/ FetchFails \/ MakeDir \/ WipeDir \/ StartCheckout \/ EndCheckout
              \/ Unref \/ RemoveDir \/ Prune
       PROVE  UNCHANGED disk
  BY <1>4 DEF SizeKnown, FetchFails, MakeDir, WipeDir, StartCheckout, EndCheckout, DirStep, Unref,
               RemoveDir, Prune
<1>5. ASSUME Merge \/ (\E p \in Package : KeepMerged(p) \/ ClearMerged(p)) \/ RenameMerged
              \/ CleanMerged \/ Stop \/ Crash \/ UNCHANGED vars
       PROVE  UNCHANGED disk
  BY <1>5 DEF Merge, KeepMerged, ClearMerged, RenameMerged, CleanMerged, Stop, Crash, Stopped, vars
<1> QED
  BY <1>1, <1>2, <1>3, <1>4, <1>5 DEF Next

\* An application that still runs from a replaced layer keeps it hidden across
\* crashes: no step but markDeleted() brings the layer back.
THEOREM HiddenLayersStayHidden == ASSUME Reliable PROVE Spec => HiddenStaysHidden
<1>1. ASSUME CrashInv, [Next]_vars
      PROVE  \A c \in Commit : disk.cache[c] = "deleted" /\ disk'.cache[c] = "live"
                                => cache[c] = "deleted" /\ op = Idle
  <2>1. disk.cache \in [Commit -> Mark]
    BY <1>1 DEF CrashInv, TypeInv, TypeOK
  <2>2. CASE AddLayerItem
    BY <1>1, <2>1, <2>2 DEF AddLayerItem, At, Saved, NotSaved, states, CrashInv, InStep
  <2>3. CASE DeleteLayerItem
    BY <1>1, <2>1, <2>3 DEF DeleteLayerItem, At, Saved, NotSaved, states, CrashInv, InStep
  <2>4. ASSUME NEW l \in Layer, NEW mark \in {"live", "deleted"}, MarkDeleted(l, mark)
        PROVE  \A c \in Commit : disk.cache[c] = "deleted" /\ disk'.cache[c] = "live"
                                  => cache[c] = "deleted" /\ op = Idle
    BY <1>1, <2>1, <2>4 DEF MarkDeleted, Free, Saved, CrashInv, InStep
  <2> QED
    BY <1>1, <2>2, <2>3, <2>4, WriteStep
<1> QED
  BY <1>1, CrashInit, CrashStep, PTL DEF Spec, HiddenStaysHidden
-----------------------------------------------------------------------------
(* Refinement of LayerStore.                                               *)

\* What Durable() says when every item has its directory.
OnDisk(l) == {c \in Commit : LayerOf(c) = l /\ disk.cache[c] # "none"}
Listed(l) == IF OnDisk(l) = {} THEN "absent"
             ELSE IF \E c \in OnDisk(l) : disk.cache[c] = "live" THEN "live" ELSE "deleted"

\* When every recorded item has its whole directory, the refinement mapping reads
\* states.json alone.
LEMMA DurableIsListed ==
    /\ Sound => \A l \in Layer : Durable(l) = Listed(l)
    /\ Sound' => \A l \in Layer : Durable(l)' = Listed(l)'
BY DEF Sound, Durable, Listed, OnDisk

\* The store's variable changes at l alone.
ChangesAt(l, from, to) == /\ Listed(l) = from
                          /\ Listed(l)' = to
                          /\ \A k \in Layer \ {l} : Listed(k)' = Listed(k)

\* A change of what states.json lists of one layer is a change of the store at it.
LEMMA StoreChange ==
    ASSUME Sound, Sound', NEW l \in Layer, NEW from \in {"absent", "live", "deleted"},
           NEW to \in {"absent", "live", "deleted"}, ChangesAt(l, from, to)
    PROVE  Layers[l] = from /\ Layers' = [Layers EXCEPT ![l] = to]
<1>1. \A k \in Layer : Durable(k) = Listed(k) /\ Durable(k)' = Listed(k)'
  BY DurableIsListed
<1>2. Layers[l] = Durable(l) /\ Layers \in [Layer -> {Durable(k) : k \in Layer}]
  BY DEF Layers
<1>3. \A k \in Layer : Layers[k] = Durable(k) /\ Layers'[k] = Durable(k)'
  BY DEF Layers
<1>4. Layers' = [k \in Layer |-> Layers'[k]] /\ Layers = [k \in Layer |-> Layers[k]]
  BY DEF Layers
<1> QED
  BY <1>1, <1>2, <1>3, <1>4 DEF ChangesAt

\* Every step of the repository is a step of the store or leaves it alone.
LEMMA StoreStep ==
    ASSUME Reliable, CrashInv, CrashInv', [Next]_vars
    PROVE  [Store!Next]_Layers
<1>S. Sound /\ Sound' /\ TypeOK
  BY DEF CrashInv, TypeInv
<1>R. "write" \notin Faults /\ "short" \notin Faults /\ "config" \notin Faults
      /\ "upgrade" \notin Faults /\ "again" \notin Faults
  BY DEF Reliable
<1>T. /\ disk.cache \in [Commit -> Mark]
      /\ \A c \in Commit : LayerOf(c) \in Layer
  BY <1>S DEF TypeOK, Commit, LayerOf
<1>1. ASSUME disk'.cache = disk.cache PROVE UNCHANGED Layers
  <2>1. \A l \in Layer : Listed(l)' = Listed(l)
    BY <1>1 DEF Listed, OnDisk
  <2>2. \A l \in Layer : Durable(l)' = Durable(l)
    BY <1>S, <2>1, DurableIsListed
  <2> QED
    BY <2>2 DEF Layers
<1>2. ASSUME NEW c \in Commit, NEW mark \in {"live", "deleted"}, disk.cache[c] # "none",
             disk.cache[c] # mark, disk'.cache = [disk.cache EXCEPT ![c] = mark]
      PROVE  Store!Next
  <2> DEFINE l == LayerOf(c)
  <2>1. l \in Layer /\ disk.cache[c] \in {"live", "deleted"}
    BY <1>2, <1>T DEF Mark
  <2>2. OnDisk(l) = {c} /\ OnDisk(l)' = {c}
    BY <1>2, <1>T DEF CrashInv, Single, OnDisk
  <2>3. \A k \in Layer \ {l} : Listed(k)' = Listed(k)
    BY <1>2, <1>T DEF Listed, OnDisk
  <2>4. ChangesAt(l, disk.cache[c], mark)
    BY <1>2, <1>T, <2>1, <2>2, <2>3 DEF ChangesAt, Listed
  <2>5. Layers[l] = disk.cache[c] /\ Layers' = [Layers EXCEPT ![l] = mark]
    BY <1>S, <2>1, <2>4, StoreChange
  <2> QED
    BY <1>2, <2>1, <2>5 DEF Store!Next, Store!Hide, Store!Reveal, Store!Change
<1>3. ASSUME NEW c \in Commit, disk.cache[c] # "none",
             disk'.cache = [disk.cache EXCEPT ![c] = "none"]
      PROVE  Store!Next
  <2> DEFINE l == LayerOf(c)
  <2>1. l \in Layer /\ disk.cache[c] \in {"live", "deleted"}
    BY <1>3, <1>T DEF Mark
  <2>2. OnDisk(l) = {c} /\ OnDisk(l)' = {}
    BY <1>3, <1>T DEF CrashInv, Single, OnDisk
  <2>3. \A k \in Layer \ {l} : Listed(k)' = Listed(k)
    BY <1>3, <1>T DEF Listed, OnDisk
  <2>4. ChangesAt(l, disk.cache[c], "absent")
    BY <1>3, <1>T, <2>1, <2>2, <2>3 DEF ChangesAt, Listed
  <2>5. Layers[l] = disk.cache[c] /\ Layers' = [Layers EXCEPT ![l] = "absent"]
    BY <1>S, <2>1, <2>4, StoreChange
  <2> QED
    BY <2>1, <2>5 DEF Store!Next, Store!Drop, Store!Change
<1>4. ASSUME NEW c \in Commit, OnDisk(LayerOf(c)) = {},
             disk'.cache = [disk.cache EXCEPT ![c] = "live"]
      PROVE  Store!Next
  <2> DEFINE l == LayerOf(c)
  <2>1. l \in Layer
    BY <1>T
  <2>2. OnDisk(l)' = {c}
    BY <1>4, <1>T DEF OnDisk
  <2>3. \A k \in Layer \ {l} : Listed(k)' = Listed(k)
    BY <1>4, <1>T DEF Listed, OnDisk
  <2>4. ChangesAt(l, "absent", "live")
    BY <1>4, <1>T, <2>2, <2>3 DEF ChangesAt, Listed
  <2>5. Layers[l] = "absent" /\ Layers' = [Layers EXCEPT ![l] = "live"]
    BY <1>S, <2>1, <2>4, StoreChange
  <2> QED
    BY <2>1, <2>5 DEF Store!Next, Store!Add, Store!Change
<1>5. ASSUME NEW l \in Layer, NEW mark \in {"live", "deleted"}, MarkDeleted(l, mark)
      PROVE  Store!Next
  BY <1>2, <1>5, <1>R DEF MarkDeleted, Saved, IsItem, Items, CrashInv, InStep, Free
<1>6. ASSUME AddLayerItem PROVE Store!Next
  <2>1. PICK c \in Commit : op.at = "record" /\ op.on = {c} /\ up
    BY <1>6 DEF AddLayerItem, At, On
  <2>2. OnDisk(LayerOf(c)) = {}
    BY <2>1 DEF CrashInv, Working, Building, OnDisk
  <2>3. cache = disk.cache /\ disk.cache[c] = "none"
    BY <2>1 DEF CrashInv, Working, Building, InStep
  <2>4. disk'.cache = [disk.cache EXCEPT ![c] = "live"]
    BY <1>6, <1>R, <2>1, <2>3 DEF AddLayerItem, On, Saved, NotSaved
  <2> QED
    BY <1>4, <2>2, <2>4
<1>7. ASSUME DeleteLayerItem PROVE Store!Next
  BY <1>3, <1>7, <1>R DEF DeleteLayerItem, At, On, Saved, NotSaved, CrashInv, InStep, Working
<1> QED
  BY <1>1, <1>5, <1>6, <1>7, WriteStep

\* Installing, hiding and removing a layer are atomic and durable although every one
\* of them is a dozen steps on four stores: the repository implements LayerStore.
THEOREM StoreImplemented == ASSUME Reliable PROVE Spec => ImplementsStore
<1>1. Init => Store!Init
  <2> SUFFICES ASSUME Init PROVE \A l \in Layer : Durable(l) = "absent"
    BY DEF Store!Init, Layers
  <2> QED
    BY DEF Init, Durable, NoItems
<1>2. CrashInv /\ CrashInv' /\ [Next]_vars => [Store!Next]_Layers
  BY StoreStep
<1> QED
  BY <1>1, <1>2, CrashInit, CrashStep, PTL DEF Spec, ImplementsStore, Store!Spec
-----------------------------------------------------------------------------
(* Merged directories.                                                     *)

\* states.json is written whenever it is to be written, if perhaps cut short.
Writable == "write" \notin Faults

\* A readable states.json names the merged items of the memory, and has their directories.
MergedOnDisk ==
    /\ file # "bad" => disk.merged \subseteq mdirs
    /\ up /\ file # "bad" => disk.merged = merged
    /\ ~up => op = Idle

\* While the packages are looked at, what was found has its directory; it belongs to
\* packages that are done, so that no later package takes it away.
MergeInProgress ==
    op.at \in {"merge", "rename"} =>
        /\ op.made \subseteq mdirs
        /\ \A p \in op.todo : Modules(p) # {}
        /\ \A m \in op.made : \E q \in Package \ op.todo : m = Modules(q)
        /\ op.at = "rename" => \E q \in Package \ op.todo : op.on = Modules(q)

MergeInv == TypeInv /\ MergedBacked /\ MergedOnDisk /\ MergeInProgress

\* Nothing is merged in an empty repository.
LEMMA MergeInit == Init => MergeInv
<1> SUFFICES ASSUME Init PROVE MergeInv
  OBVIOUS
<1>1. TypeInv
  BY TypeInit
<1> QED
  BY <1>1 DEF Init, MergeInv, MergedBacked, MergedOnDisk, MergeInProgress, Idle, Doing, Merging

\* Every step keeps the directories of merged items.
LEMMA MergeStep == ASSUME Writable PROVE MergeInv /\ [Next]_vars => MergeInv'
<1> SUFFICES ASSUME MergeInv, [Next]_vars PROVE MergeInv'
  OBVIOUS
<1>0. TypeInv'
  BY TypeStep DEF MergeInv
<1> DEFINE Rest == MergedBacked /\ MergedOnDisk /\ MergeInProgress
<1> SUFFICES Rest'
  BY <1>0 DEF MergeInv
<1>T. /\ op \in Operation
      /\ up \in BOOLEAN
      /\ mdirs \subseteq SUBSET Commit
  BY DEF MergeInv, TypeInv, TypeOK
<1> USE DEF MergeInv, MergedBacked, MergedOnDisk, MergeInProgress
<1>1. ASSUME UNCHANGED <<cache, merged, disk, file, mdirs, up>>,
             up => (op'.at \notin {"merge", "rename"} \/ op' = op),
             ~up => op' = op
      PROVE  Rest'
  BY <1>1 DEF Modules
<1>2. ASSUME NEW l \in Layer, Publish(l) \/ Pull(l) \/ Fetched(l) \/ Import(l) \/ Remove(l)
      PROVE  Rest'
  BY <1>1, <1>2 DEF Publish, Pull, Fetched, Import, Remove, Free, Doing, Merging, Done, Idle
<1>3. CASE SizeKnown \/ FetchFails \/ MakeDir \/ WipeDir \/ StartCheckout \/ EndCheckout
           \/ Unref \/ RemoveDir \/ Prune
  BY <1>1, <1>3 DEF SizeKnown, FetchFails, MakeDir, WipeDir, StartCheckout, EndCheckout, DirStep,
                    Unref, RemoveDir, Prune, Free, At, Step, Doing, Merging, Done, Idle
<1>4. ASSUME UNCHANGED <<merged, mdirs, up>>, up, op'.at \notin {"merge", "rename"},
             \E items : Saved(items, merged) \/ UNCHANGED <<disk, file>>
      PROVE  Rest'
  BY <1>4 DEF Saved
<1>5. ASSUME NEW l \in Layer, NEW mark \in {"live", "deleted"}, MarkDeleted(l, mark)
      PROVE  Rest'
  BY <1>4, <1>5 DEF MarkDeleted, Free, Idle, Doing, Merging
<1>6. CASE AddLayerItem \/ DeleteLayerItem
  <2>1. up /\ UNCHANGED <<merged, mdirs, up>>
    BY <1>6 DEF AddLayerItem, DeleteLayerItem, At
  <2>2. op'.at \notin {"merge", "rename"}
    <3>1. op' = Idle \/ op' = Doing("rmdir", op.on)
      BY <1>6 DEF AddLayerItem, DeleteLayerItem, Step, Done
    <3> QED
      BY <3>1 DEF Doing, Merging, Idle
  <2>3. \E items : Saved(items, merged) \/ UNCHANGED <<disk, file>>
    BY <1>6 DEF AddLayerItem, DeleteLayerItem, NotSaved, Writable
  <2> QED
    BY <1>4, <2>1, <2>2, <2>3
<1>7. CASE SetConfig
  BY <1>4, <1>7 DEF SetConfig, Free, NotSaved, Writable, Idle, Doing, Merging
<1>8. CASE Merge
  <2>1. /\ op' = Merging("merge", {}, {p \in Package : NeedsMerge(p)}, {})
        /\ UNCHANGED <<cache, merged, disk, file, mdirs, up>> /\ up
    BY <1>8 DEF Merge, Free
  <2>2. \A p \in Package : NeedsMerge(p) => Modules(p)' # {}
    BY <2>1 DEF NeedsMerge, Modules
  <2> QED
    BY <2>1, <2>2 DEF Merging
<1>9. ASSUME NEW p \in Package, KeepMerged(p) PROVE Rest'
  <2>1. /\ up /\ op.at = "merge" /\ p \in op.todo /\ Modules(p) \in merged
        /\ op' = Merging("merge", {}, op.todo \ {p}, op.made \cup {Modules(p)})
        /\ UNCHANGED <<cache, merged, disk, file, mdirs, up>>
    BY <1>9 DEF KeepMerged, At
  <2>2. \A q : Modules(q)' = Modules(q)
    BY <2>1 DEF Modules
  <2> QED
    BY <2>1, <2>2 DEF Merging
<1>10. ASSUME NEW p \in Package, ClearMerged(p) PROVE Rest'
  <2>1. /\ up /\ op.at = "merge" /\ p \in op.todo /\ Modules(p) \notin merged
        /\ UNCHANGED <<cache, merged, disk, file, up>>
        /\ \/ /\ mdirs' = mdirs \ {Modules(p)}
              /\ op' = Merging("rename", Modules(p), op.todo \ {p}, op.made)
           \/ UNCHANGED mdirs /\ op' = Idle
    BY <1>10 DEF ClearMerged, At, Done
  <2>2. \A q : Modules(q)' = Modules(q)
    BY <2>1 DEF Modules
  <2>3. \A q \in Package : q # p => Modules(q) # Modules(p)
    BY <2>1 DEF Modules
  <2>4. Modules(p) \notin op.made
    BY <2>1, <2>3
  <2> QED
    BY <2>1, <2>2, <2>4 DEF Merging, Idle, Doing
<1>11. CASE RenameMerged
  <2>1. /\ up /\ op.at = "rename"
        /\ UNCHANGED <<cache, merged, disk, file, up>>
        /\ \/ /\ mdirs' = mdirs \cup {op.on}
              /\ op' = Merging("merge", {}, op.todo, op.made \cup {op.on})
           \/ UNCHANGED mdirs /\ op' = Idle
    BY <1>11 DEF RenameMerged, At, Done
  <2>2. \A q : Modules(q)' = Modules(q)
    BY <2>1 DEF Modules
  <2> QED
    BY <2>1, <2>2 DEF Merging, Idle, Doing
<1>12. CASE SaveMerged
  <2>1. op'.at \notin {"merge", "rename"}
    BY <1>12 DEF SaveMerged, NotSaved, Writable, Step, Doing, Merging
  <2> QED
    BY <1>12, <2>1 DEF SaveMerged, At, NotSaved, Writable, Saved
<1>13. CASE CleanMerged
  BY <1>13 DEF CleanMerged, At, Done, Idle, Doing, Merging
<1>14. CASE Stop \/ Crash
  BY <1>14 DEF Stop, Crash, Stopped, Idle, Doing, Merging
<1>15. CASE Upgrade
  BY <1>15 DEF Upgrade, Idle, Doing, Merging
<1>16. CASE Start
  BY <1>16 DEF Start, Saved, states, Idle, Doing, Merging
<1>17. CASE UNCHANGED vars
  BY <1>1, <1>17 DEF vars
<1> QED
  BY <1>2, <1>3, <1>5, <1>6, <1>7, <1>8, <1>9, <1>10, <1>11, <1>12, <1>13, <1>14, <1>15, <1>16,
     <1>17 DEF Next

\* A merged item has its directory, although mergeModules() never looks again, across
\* crashes, failing steps, rebuilds and a states.json that was cut short.
THEOREM MergedItemsBacked == ASSUME Writable PROVE Spec => []MergedBacked
<1>1. MergeInv => MergedBacked
  BY DEF MergeInv
<1> QED
  BY MergeInit, MergeStep, <1>1, PTL DEF Spec
-----------------------------------------------------------------------------
(* Items and refs.                                                         *)

\* No operation is cut short: no crash, no failing file system, no failing write, and
\* nothing is pulled that is there.  The cache may be rebuilt at any time.
Orderly == Faults \cap {"crash", "fs", "write", "again"} = {}

\* The items there are, or will be when the process is started.
Now == IF up THEN cache ELSE IF file = "good" THEN disk.cache ELSE Rebuilt

\* The items of a readable states.json are those of the memory.
CacheOnDisk ==
    /\ up /\ file # "bad" => disk.cache = cache
    /\ up => file # "outdated"
    /\ ~up => op = Idle /\ pulling = {} /\ cache = NoItems

\* An item has a ref that names it, its objects and its directory.
ItemBacked ==
    \A c \in Commit : Now[c] # "none" =>
        /\ dirs[c] = "full"
        /\ c \in stored
        /\ ~(op.at = "forget" /\ On(c)) => refs[LayerOf(c)] = c[2]

\* One item per ref.
ItemSingle == \A c, e \in Commit :
    LayerOf(c) = LayerOf(e) /\ Now[c] # "none" /\ Now[e] # "none" => c = e

\* A ref names an item, or the commit being checked out, or the one whose size is asked for.
RefNamesItem ==
    \A c \in Commit : refs[LayerOf(c)] = c[2] =>
        \/ Now[c] # "none"
        \/ op.at \in Building /\ On(c)
        \/ op.at = "size" /\ LayerOf(c) \in pulling

\* A layer that is being pulled has no item, and no ref once its size is known.
PullClean ==
    \A c \in Commit : LayerOf(c) \in pulling =>
        /\ Now[c] = "none"
        /\ op.at # "size" => refs[LayerOf(c)] = 0

\* What an operation on a commit knows of it.
InProgress ==
    /\ op.at \in Building => \A c \in op.on :
         /\ c \in stored /\ refs[LayerOf(c)] = c[2] /\ LayerOf(c) \notin pulling
         /\ \A e \in Commit : LayerOf(e) = LayerOf(c) => Now[e] = "none"
    /\ op.at = "record" => \A c \in op.on : dirs[c] = "full"
    /\ op.at \in {"unref", "forget"} => \A c \in op.on : Now[c] # "none"
    /\ op.at \in {"forget", "rmdir"} => \A c \in op.on : refs[LayerOf(c)] = 0
    /\ op.at = "rmdir" => \A c \in op.on, e \in Commit : LayerOf(e) = LayerOf(c) => Now[e] = "none"

RefInv == /\ TypeInv /\ CacheOnDisk /\ ItemBacked /\ ItemSingle /\ RefNamesItem
          /\ PullClean /\ InProgress

\* An empty repository has neither items nor refs.
LEMMA RefInit == Init => RefInv
<1> SUFFICES ASSUME Init PROVE RefInv
  OBVIOUS
<1>1. TypeInv
  BY TypeInit
<1> QED
  BY <1>1 DEF Init, RefInv, CacheOnDisk, ItemBacked, ItemSingle, RefNamesItem, PullClean, InProgress,
              Now, NoItems, Idle, Doing, Merging, Building, Commit, LayerOf

\* A write that is not missed leaves states.json unreadable or as it was to be.
LEMMA SavedFacts ==
    ASSUME NEW items, NEW m, Saved(items, m)
    PROVE  (file' # "bad" => disk'.cache = items) /\ file' # "outdated"
  BY DEF Saved

\* Every step keeps items and refs in step.
LEMMA RefStep == ASSUME Orderly PROVE RefInv /\ [Next]_vars => RefInv'
<1> SUFFICES ASSUME RefInv, [Next]_vars PROVE RefInv'
  OBVIOUS
<1>0. TypeInv'
  BY TypeStep DEF RefInv
<1> DEFINE Rest == /\ CacheOnDisk /\ ItemBacked /\ ItemSingle /\ RefNamesItem
                   /\ PullClean /\ InProgress
<1> SUFFICES Rest'
  BY <1>0 DEF RefInv
<1>T. /\ disk \in [cache : [Commit -> Mark], merged : SUBSET SUBSET Commit]
      /\ cache \in [Commit -> Mark]
      /\ dirs \in [Commit -> {"absent", "partial", "full"}]
      /\ refs \in [Layer -> 0..MaxRev] /\ head \in [Layer -> 0..MaxRev]
      /\ stored \subseteq Commit
      /\ file \in {"good", "outdated", "bad"}
      /\ op \in Operation
      /\ up \in BOOLEAN
      /\ pulling \cap Local = {} /\ pulling \subseteq Layer
      /\ \A l \in Layer \ Local : head[l] # 0
  BY DEF RefInv, TypeInv, TypeOK
<1>C. \A c \in Commit : LayerOf(c) \in Layer /\ c[2] \in 1..MaxRev /\ c = <<LayerOf(c), c[2]>>
  BY DEF Commit, LayerOf
<1>F. "crash" \notin Faults /\ "fs" \notin Faults /\ "write" \notin Faults /\ "again" \notin Faults
  BY DEF Orderly
<1> USE DEF RefInv, CacheOnDisk, ItemBacked, ItemSingle, RefNamesItem, PullClean, InProgress, Building
<1>1. ASSUME NEW l \in Layer, Publish(l) PROVE Rest'
  BY <1>1 DEF Publish, On, Now, Rebuilt, Readable
<1>2. ASSUME NEW l \in Layer, Pull(l) PROVE Rest'
  <2>1. /\ up /\ op = Idle /\ l \notin Local /\ pulling = {} /\ pulling' = {l}
        /\ \A c \in Commit : LayerOf(c) = l => cache[c] = "none" /\ refs[l] # c[2]
        /\ UNCHANGED <<head, stored, dirs, cache, merged, disk, file, mdirs, up>>
    BY <1>2, <1>F, <1>C DEF Pull, Free, Items, Now, Idle, Doing, Merging
  <2>2. refs[l] = 0
    <3>1. refs[l] \in 1..MaxRev => <<l, refs[l]>> \in Commit /\ LayerOf(<<l, refs[l]>>) = l
      BY DEF Commit, LayerOf
    <3> QED
      BY <3>1, <2>1, <1>T
  <2>3. CASE refs' = [refs EXCEPT ![l] = head[l]] /\ op' = Doing("size", {})
    BY <2>1, <2>3, <1>T, <1>C DEF On, Now, Doing, Merging, Idle
  <2>4. CASE UNCHANGED <<refs, op>>
    BY <2>1, <2>2, <2>4, <1>T, <1>C DEF On, Now, Doing, Merging, Idle
  <2> QED
    BY <1>2, <2>3, <2>4 DEF Pull
<1>3. ASSUME NEW l \in Layer, Fetched(l) PROVE Rest'
  BY <1>3, <1>T, <1>C, <1>F DEF Fetched, On, Now, Free, Doing, Merging, Idle, LayerOf
<1>4. ASSUME NEW l \in Layer, Import(l) PROVE Rest'
  BY SMTT(60), <1>4, <1>T, <1>C, <1>F DEF Import, On, Now, Free, Items, IsItem, Doing, Merging, Idle, LayerOf
<1>5. ASSUME NEW l \in Layer, Remove(l) PROVE Rest'
  BY <1>5, <1>T, <1>C DEF Remove, On, Now, Free, Items, IsItem, Doing, Merging, Idle
<1>6. ASSUME NEW l \in Layer, NEW mark \in {"live", "deleted"}, MarkDeleted(l, mark)
      PROVE Rest'
  <2> HIDE DEF RefInv, CacheOnDisk, ItemBacked, ItemSingle, RefNamesItem, PullClean, InProgress
  <2>1. PICK c \in Commit : /\ up /\ op = Idle /\ cache[c] # "none"
                            /\ cache' = [cache EXCEPT ![c] = mark]
                            /\ Saved([cache EXCEPT ![c] = mark], merged)
    <3>1. PICK c \in Commit : IsItem(c) /\ cache' = [cache EXCEPT ![c] = mark]
                              /\ Saved([cache EXCEPT ![c] = mark], merged)
      BY <1>6 DEF MarkDeleted
    <3>2. cache[c] # "none"
      BY <3>1 DEF IsItem, Items
    <3> QED
      BY <1>6, <3>1, <3>2 DEF MarkDeleted, Free
  <2>2. UNCHANGED <<head, refs, stored, dirs, merged, mdirs, op, pulling, up>>
    BY <1>6 DEF MarkDeleted
  <2>3. /\ \A e \in Commit : Now'[e] = "none" <=> Now[e] = "none"
        /\ up' /\ (file' # "bad" => disk'.cache = cache') /\ file' # "outdated"
    <3>1. Now = cache /\ Now' = cache' /\ up'
      BY <2>1, <2>2 DEF Now
    <3>2. (file' # "bad" => disk'.cache = cache') /\ file' # "outdated"
      BY <2>1, <2>2, SavedFacts
    <3>3. \A e \in Commit : cache'[e] = "none" <=> cache[e] = "none"
      BY <2>1, <2>2, <1>T DEF Mark
    <3> QED
      BY <3>1, <3>2, <3>3
  <2> QED
    BY <2>1, <2>2, <2>3 DEF On, Doing, Merging, Idle, RefInv, CacheOnDisk, ItemBacked, ItemSingle,
                            RefNamesItem, PullClean, InProgress
<1>7. CASE SizeKnown
  BY <1>7, <1>T, <1>C, <1>F DEF SizeKnown, At, On, Now, Done, Doing, Merging, Idle
<1>8. CASE FetchFails
  BY <1>8, <1>T, <1>C DEF FetchFails, On, Now, Free, Doing, Merging, Idle
<1>D. ASSUME NEW c \in Commit, NEW step \in Building, NEW d \in {"absent", "partial", "full"},
             up, op.at \in Building, op.on = {c}, op' = Doing(step, op.on),
             dirs' = [dirs EXCEPT ![c] = d], step = "record" => d = "full",
             UNCHANGED <<head, refs, stored, cache, merged, disk, file, mdirs, pulling, up>>
      PROVE  Rest'
  <2>1. Now' = Now /\ Now[c] = "none" /\ op'.at = step /\ op'.on = {c}
    BY <1>D DEF Now, Doing, Merging
  <2> HIDE DEF RefInv, CacheOnDisk, ItemBacked, ItemSingle, RefNamesItem, PullClean, InProgress
  <2>2. ItemBacked'
    BY <2>1, <1>D, <1>T DEF On, RefInv, ItemBacked
  <2>3. ItemSingle' /\ PullClean'
    BY <2>1, <1>D DEF RefInv, ItemSingle, PullClean
  <2>4. RefNamesItem'
    BY <2>1, <1>D DEF On, RefInv, RefNamesItem
  <2>5. InProgress'
    BY <2>1, <1>D, <1>T DEF RefInv, InProgress
  <2>6. CacheOnDisk'
    BY <1>D DEF RefInv, CacheOnDisk
  <2> QED
    BY <2>2, <2>3, <2>4, <2>5, <2>6
<1>9. CASE MakeDir
  <2> HIDE DEF Rest, RefInv
  <2>1. PICK c \in Commit : /\ up /\ op.at = "mkdir" /\ op.on = {c} /\ op' = Doing("wipe", op.on)
                            /\ dirs' = [dirs EXCEPT ![c] = IF dirs[c] = "absent" THEN "partial" ELSE dirs[c]]
    BY <1>9, <1>F DEF MakeDir, At, On, Step
  <2>2. UNCHANGED <<head, refs, stored, cache, merged, disk, file, mdirs, pulling, up>>
    BY <1>9 DEF MakeDir
  <2> QED
    BY <2>1, <2>2, <1>D, <1>T
<1>10. CASE WipeDir
  BY <1>10, <1>D, <1>F DEF WipeDir, DirStep, At, On, Step
<1>11. CASE StartCheckout
  BY <1>11, <1>D, <1>F DEF StartCheckout, DirStep, At, On, Step
<1>12. CASE EndCheckout
  BY <1>12, <1>D, <1>F DEF EndCheckout, DirStep, At, On, Step
<1>13. CASE AddLayerItem
  <2>1. PICK c \in Commit : up /\ op.at = "record" /\ op.on = {c}
    BY <1>13 DEF AddLayerItem, At, On
  <2>2. cache[c] = "none"
    BY <2>1 DEF Now
  <2> HIDE DEF RefInv, CacheOnDisk, ItemBacked, ItemSingle, RefNamesItem, PullClean, InProgress
  <2>3. /\ cache' = [cache EXCEPT ![c] = "live"] /\ op' = Idle
        /\ Saved([cache EXCEPT ![c] = "live"], merged)
        /\ UNCHANGED <<head, refs, stored, dirs, merged, mdirs, pulling, up>>
    BY <1>13, <1>F, <2>1, <2>2 DEF AddLayerItem, On, NotSaved, Done
  <2>4. /\ \A e \in Commit : Now'[e] # "none" <=> Now[e] # "none" \/ e = c
        /\ up' /\ (file' # "bad" => disk'.cache = cache') /\ file' # "outdated"
    <3>1. Now = cache /\ Now' = cache' /\ up'
      BY <2>1, <2>2, <2>3 DEF Now
    <3>2. (file' # "bad" => disk'.cache = cache') /\ file' # "outdated"
      BY <2>1, <2>2, <2>3, SavedFacts
    <3>3. \A e \in Commit : cache'[e] # "none" <=> cache[e] # "none" \/ e = c
      BY <2>1, <2>2, <2>3, <1>T DEF Mark
    <3> QED
      BY <3>1, <3>2, <3>3
  <2>5. op'.at = "idle"
    BY <2>3 DEF Idle, Doing, Merging
  <2>6. ItemBacked' /\ ItemSingle' /\ RefNamesItem'
    BY <2>1, <2>3, <2>4, <2>5 DEF On, RefInv, ItemBacked, ItemSingle, RefNamesItem, InProgress
  <2>7. PullClean' /\ InProgress' /\ CacheOnDisk'
    BY <2>1, <2>3, <2>4, <2>5 DEF RefInv, PullClean, InProgress, CacheOnDisk
  <2> QED
    BY <2>6, <2>7
<1>14. CASE Unref
  BY <1>14, <1>T, <1>C, <1>F DEF Unref, At, On, Now, Step, Doing, Merging
<1>15. CASE DeleteLayerItem
  <2>1. PICK c \in Commit : up /\ op.at = "forget" /\ op.on = {c}
    BY <1>15 DEF DeleteLayerItem, At, On
  <2> HIDE DEF RefInv, CacheOnDisk, ItemBacked, ItemSingle, RefNamesItem, PullClean, InProgress
  <2>2. /\ cache' = [cache EXCEPT ![c] = "none"]
        /\ Saved([cache EXCEPT ![c] = "none"], merged)
        /\ op' = Doing("rmdir", {c})
        /\ UNCHANGED <<head, refs, stored, dirs, merged, mdirs, pulling, up>>
    BY <1>15, <1>F, <2>1 DEF DeleteLayerItem, On, NotSaved, Step
  <2>3. /\ \A e \in Commit : Now'[e] # "none" <=> Now[e] # "none" /\ e # c
        /\ up' /\ (file' # "bad" => disk'.cache = cache') /\ file' # "outdated"
    <3>1. Now = cache /\ Now' = cache' /\ up'
      BY <2>1, <2>2 DEF Now
    <3>2. (file' # "bad" => disk'.cache = cache') /\ file' # "outdated"
      BY <2>1, <2>2, SavedFacts
    <3>3. \A e \in Commit : cache'[e] # "none" <=> cache[e] # "none" /\ e # c
      BY <2>1, <2>2, <1>T DEF Mark
    <3> QED
      BY <3>1, <3>2, <3>3
  <2>4. op'.at = "rmdir" /\ op'.on = {c}
    BY <2>2 DEF Doing, Merging
  <2>5. Now[c] # "none" /\ refs[LayerOf(c)] = 0
    BY <2>1 DEF RefInv, InProgress
  <2>6. ItemBacked' /\ ItemSingle' /\ RefNamesItem'
    BY <2>1, <2>2, <2>3, <2>4, <2>5, <1>C DEF On, RefInv, ItemBacked, ItemSingle, RefNamesItem
  <2>7. PullClean'
    BY <2>1, <2>2, <2>3, <2>4 DEF RefInv, PullClean
  <2>8. \A e \in Commit : LayerOf(e) = LayerOf(c) => Now'[e] = "none"
    BY <2>3, <2>5 DEF RefInv, ItemSingle
  <2>9. InProgress'
    BY <2>2, <2>4, <2>5, <2>8 DEF InProgress, Building
  <2>10. CacheOnDisk'
    BY <2>1, <2>2, <2>3 DEF RefInv, CacheOnDisk
  <2> QED
    BY <2>6, <2>7, <2>9, <2>10
<1>16. CASE RemoveDir
  BY <1>16, <1>T, <1>C, <1>F DEF RemoveDir, At, On, Now, Done, Doing, Merging, Idle
<1>17. CASE Prune
  BY <1>17, <1>T, <1>C DEF Prune, On, Now, Readable, Free, Doing, Merging, Idle
<1>18. CASE SetConfig
  BY <1>18, <1>T, <1>C, <1>F DEF SetConfig, Saved, NotSaved, Rebuilt, On, Now, Readable, Free, Doing,
     Merging, Idle
<1>19. CASE Merge
  BY <1>19, <1>T DEF Merge, On, Now, Free, Doing, Merging, Idle
<1>20. ASSUME NEW p \in Package, KeepMerged(p) PROVE Rest'
  BY <1>20, <1>T DEF KeepMerged, At, On, Now, Merging
<1>21. ASSUME NEW p \in Package, ClearMerged(p) PROVE Rest'
  BY <1>21, <1>T DEF ClearMerged, At, On, Now, Done, Doing, Merging, Idle
<1>22. CASE RenameMerged
  BY <1>22, <1>T DEF RenameMerged, At, On, Now, Done, Doing, Merging, Idle
<1>23. CASE SaveMerged
  BY <1>23, <1>T, <1>F DEF SaveMerged, Saved, NotSaved, At, On, Now, Step, Doing, Merging
<1>24. CASE CleanMerged
  BY <1>24, <1>T DEF CleanMerged, At, On, Now, Done, Doing, Merging, Idle
<1>25. CASE Stop \/ Crash
  BY <1>25, <1>T, <1>C, <1>F DEF Stop, Crash, Stopped, On, Now, Rebuilt, Readable, Free, Doing, Merging,
     Idle
<1>26. CASE Upgrade
  BY <1>26, <1>T, <1>C DEF Upgrade, On, Now, Rebuilt, Readable, Doing, Merging, Idle
<1>27. CASE Start
  BY <1>27, <1>T, <1>C DEF Start, Saved, states, On, Now, Doing, Merging, Idle
<1>28. CASE UNCHANGED vars
  BY <1>28 DEF vars, On, Now, Rebuilt, Readable
<1> QED
  BY <1>1, <1>2, <1>3, <1>4, <1>5, <1>6, <1>7, <1>8, <1>9, <1>10, <1>11, <1>12, <1>13, <1>14,
     <1>15, <1>16, <1>17, <1>18, <1>19, <1>20, <1>21, <1>22, <1>23, <1>24, <1>25, <1>26, <1>27,
     <1>28 DEF Next

\* As long as no operation is cut short, the items are the commits the refs name, one per
\* ref: getCommitSize() setting and deleting refs, removals, a changed configuration, an
\* upgrade and a states.json cut short make rebuildCache() neither lose nor add an item.
THEOREM ItemsFollowRefs == ASSUME Orderly PROVE Spec => []ItemsAreRefs
<1>1. RefInv => Referenced
  BY DEF RefInv, TypeInv, TypeOK, CacheOnDisk, ItemBacked, Now, NoItems, Referenced, Readable
<1>2. ASSUME RefInv PROVE NoAmbiguousRef
  <2> SUFFICES ASSUME NEW l \in Layer PROVE Cardinality(Items(l)) <= 1
    BY DEF NoAmbiguousRef
  <2>1. \A c, e \in Items(l) : c = e
    BY <1>2 DEF RefInv, CacheOnDisk, ItemSingle, Now, NoItems, Items, TypeInv, TypeOK
  <2>2. CASE Items(l) = {}
    BY <2>2, FS_EmptySet
  <2>3. ASSUME NEW c \in Items(l) PROVE Cardinality(Items(l)) <= 1
    <3>1. Items(l) = {c}
      BY <2>1, <2>3
    <3> QED
      BY SMTT(60), <3>1, FS_Singleton
  <2> QED
    BY <2>2, <2>3
<1>3. RefInv => ItemsAreRefs
  BY <1>1, <1>2 DEF ItemsAreRefs
<1> QED
  BY RefInit, RefStep, <1>3, PTL DEF Spec
-----------------------------------------------------------------------------
(* states.json cannot be written.                                          *)

\* Nothing but a failing network and a states.json that cannot be written.
Unsaved == Faults \cap {"crash", "fs", "short", "config", "upgrade", "again"} = {}

\* What states.json lists may lag behind the memory: a layer that was removed without its
\* being noted, and is being pulled again, is listed while its directory is made anew.
Lagging ==
    \A c \in Commit : disk.cache[c] # "none" => dirs[c] = "full" \/ (op.at \in Building /\ On(c))

\* What is in memory has its directory.
Known == \A c \in Commit : cache[c] # "none" => dirs[c] = "full"

\* A ref has one item, in memory and in states.json.
Unique(items) ==
    \A c, e \in Commit :
        LayerOf(c) = LayerOf(e) /\ items[c] # "none" /\ items[e] # "none" => c = e

\* An operation works on what is not in memory, and removes a directory only once states.json
\* does not list it.
Behind ==
    /\ file = "good"
    /\ \A c \in Commit : LayerOf(c) \in pulling => cache[c] = "none"
    /\ op.at \in Building =>
         \A c \in op.on, e \in Commit :
            LayerOf(e) = LayerOf(c) => cache[e] = "none" /\ LayerOf(c) \notin pulling
    /\ op.at = "record" => \A c \in op.on : dirs[c] = "full"
    /\ op.at = "rmdir" => \A c \in op.on : cache[c] = "none" /\ disk.cache[c] = "none"
    /\ ~up => op = Idle /\ pulling = {}

UnsavedInv == TypeInv /\ Lagging /\ Known /\ Unique(cache) /\ Unique(disk.cache) /\ Behind

\* Every step keeps the directories of the items complete although states.json lags behind.
LEMMA UnsavedStep == ASSUME Unsaved PROVE UnsavedInv /\ [Next]_vars => UnsavedInv'
<1> SUFFICES ASSUME UnsavedInv, [Next]_vars PROVE UnsavedInv'
  OBVIOUS
<1>0. TypeInv'
  BY TypeStep DEF UnsavedInv
<1> DEFINE Rest == Lagging /\ Known /\ Unique(cache) /\ Unique(disk.cache) /\ Behind
<1> SUFFICES Rest'
  BY <1>0 DEF UnsavedInv
<1>T. /\ disk \in [cache : [Commit -> Mark], merged : SUBSET SUBSET Commit]
      /\ cache \in [Commit -> Mark]
      /\ dirs \in [Commit -> {"absent", "partial", "full"}]
      /\ op \in Operation
      /\ up \in BOOLEAN
      /\ pulling \cap Local = {}
  BY DEF UnsavedInv, TypeInv, TypeOK
<1>C. \A c \in Commit : LayerOf(c) \in Layer
  BY DEF Commit, LayerOf
<1>R. "crash" \notin Faults /\ "fs" \notin Faults /\ "short" \notin Faults
      /\ "config" \notin Faults /\ "upgrade" \notin Faults /\ "again" \notin Faults
  BY DEF Unsaved
<1> USE <1>T, <1>C, <1>R DEF UnsavedInv, Lagging, Known, Unique, Behind, Building, Merging,
                             Doing, Idle, Done, Step, At, On, Free, Items, IsItem
<1>1. ASSUME NEW l \in Layer, Publish(l) PROVE Rest'
  BY <1>1 DEF Publish
<1>2. ASSUME NEW l \in Layer, Pull(l) PROVE Rest'
  BY <1>2 DEF Pull
<1>3. ASSUME NEW l \in Layer, Fetched(l) PROVE Rest'
  BY <1>3 DEF Fetched, LayerOf
<1>4. ASSUME NEW l \in Layer, Import(l) PROVE Rest'
  BY <1>4 DEF Import, LayerOf
<1>5. ASSUME NEW l \in Layer, Remove(l) PROVE Rest'
  BY <1>5 DEF Remove
<1>6. ASSUME NEW l \in Layer, NEW mark \in {"live", "deleted"}, MarkDeleted(l, mark)
      PROVE Rest'
  BY <1>6 DEF MarkDeleted, Saved
<1>7. ASSUME SizeKnown \/ FetchFails PROVE Rest'
  BY <1>7 DEF SizeKnown, FetchFails
<1>8. ASSUME MakeDir PROVE Rest'
  BY <1>8 DEF MakeDir
<1>9. ASSUME WipeDir PROVE Rest'
  BY <1>9 DEF WipeDir, DirStep
<1>10. ASSUME StartCheckout PROVE Rest'
  BY <1>10 DEF StartCheckout, DirStep
<1>11. ASSUME EndCheckout PROVE Rest'
  BY <1>11 DEF EndCheckout, DirStep
<1>12. ASSUME AddLayerItem PROVE Rest'
  BY <1>12 DEF AddLayerItem, Saved, NotSaved, states
<1>13. ASSUME Unref PROVE Rest'
  BY <1>13 DEF Unref
<1>14. ASSUME DeleteLayerItem PROVE Rest'
  BY <1>14 DEF DeleteLayerItem, Saved, NotSaved, states
<1>15. ASSUME RemoveDir PROVE Rest'
  BY <1>15 DEF RemoveDir
<1>16. ASSUME Prune \/ SetConfig \/ Merge PROVE Rest'
  BY <1>16 DEF Prune, SetConfig, Merge
<1>17. ASSUME NEW p \in Package, KeepMerged(p) \/ ClearMerged(p) PROVE Rest'
  BY <1>17 DEF KeepMerged, ClearMerged
<1>18. ASSUME RenameMerged PROVE Rest'
  BY <1>18 DEF RenameMerged
<1>19. ASSUME SaveMerged PROVE Rest'
  BY <1>19 DEF SaveMerged, Saved, NotSaved, states
<1>20. ASSUME CleanMerged PROVE Rest'
  BY <1>20 DEF CleanMerged
<1>21. ASSUME Stop \/ Crash PROVE Rest'
  BY <1>21 DEF Stop, Crash, Stopped, NoItems
<1>22. ASSUME Upgrade PROVE Rest'
  BY <1>22 DEF Upgrade
<1>23. ASSUME Start PROVE Rest'
  BY <1>23 DEF Start, states
<1>24. ASSUME UNCHANGED vars PROVE Rest'
  BY <1>24 DEF vars
<1> HIDE DEF Rest, UnsavedInv, Lagging, Known, Unique, Behind, Building, Merging, Doing, Idle, Done,
             Step, At, On, Free, Items, IsItem
<1> QED
  BY <1>1, <1>2, <1>3, <1>4, <1>5, <1>6, <1>7, <1>8, <1>9, <1>10, <1>11, <1>12, <1>13, <1>14,
     <1>15, <1>16, <1>17, <1>18, <1>19, <1>20, <1>21, <1>22, <1>23, <1>24 DEF Next

\* addLayerItem(), deleteLayerItem() and updateMergedItems() that fail to write: whatever
\* states.json keeps of an earlier state, a layer the repository lists, in this run of the
\* process or in a later one, has a complete directory.
THEOREM UnsavedIsCheckedOut == ASSUME Unsaved PROVE Spec => []CheckedOut
<1>1. Init => UnsavedInv
  <2> SUFFICES ASSUME Init PROVE UnsavedInv
    OBVIOUS
  <2>1. TypeInv
    BY TypeInit
  <2> QED
    BY <2>1 DEF Init, UnsavedInv, Lagging, Known, Unique, Behind, Building, NoItems, Idle, Doing, Merging
<1>2. UnsavedInv => CheckedOut
  BY DEF UnsavedInv, Known, CheckedOut
<1> QED
  BY <1>1, <1>2, UnsavedStep, PTL DEF Spec
-----------------------------------------------------------------------------
(***************************************************************************)
(* ll-builder's repository: configuration.                                 *)
(***************************************************************************)

\* While a command edits the configuration.
Editing == {"save", "remotes", "cache"}

\* Every configuration that is in memory or in the file names its default.
ConfigInv ==
    /\ IsConfiguration(mine) /\ \A c \in config : IsConfiguration(c)
    /\ pc \in Editing => IsConfiguration(next)

\* The remotes are those of the configuration in memory, which is that of the file; or the
\* new one is in both places.
RemotesInv ==
    /\ pc \in Editing \cup {"ready"} => opened
    /\ ~torn /\ opened /\ pc = "off" => remotes = LoadConfig.repos
    /\ ~torn /\ pc \notin Editing \cup {"off"} => mine = LoadConfig
    /\ ~torn /\ opened /\ pc \notin {"off", "cache"} => remotes = mine.repos
    /\ pc \in {"remotes", "cache"} => config = {next}
    /\ pc = "cache" => remotes = next.repos

ConfigurationInv == ConfigInv /\ RemotesInv

\* LoadConfig reads the one configuration of the file.
LEMMA LoadedFacts ==
    /\ config = {} => LoadConfig = System
    /\ \A c : config = {c} => LoadConfig = c
    /\ ConfigInv => IsConfiguration(LoadConfig)
<1>1. config # {} => LoadConfig \in config
  BY DEF LoadConfig, Content
<1>2. config = {} => LoadConfig = System
  BY DEF LoadConfig
<1> QED  BY <1>1, <1>2, ConfigurationAssumption DEF ConfigInv

\* The same for the next state.
LEMMA LoadedFactsPrime ==
    /\ config' = {} => LoadConfig' = System
    /\ \A c : config' = {c} => LoadConfig' = c
    /\ config' = config => LoadConfig' = LoadConfig
<1>1. config' # {} => LoadConfig' \in config'
  BY DEF LoadConfig, Content
<1>2. config' = {} => LoadConfig' = System
  BY DEF LoadConfig
<1>3. config' = config => LoadConfig' = LoadConfig
  BY DEF LoadConfig
<1> QED  BY <1>1, <1>2, <1>3

\* What `ll-builder repo' makes of a configuration is one, if its default is among its
\* repositories.
LEMMA EditedFacts ==
    ASSUME NEW c, IsConfiguration(c), NEW alias \in Aliases, NEW n,
           n \in HandleRepoAdd(c, alias) \cup HandleRepoRemove(c, alias)
                 \cup HandleRepoUpdate(c, alias) \cup HandleRepoSetDefault(c, alias)
                 \cup HandleRepoMirror(c, alias, TRUE) \cup HandleRepoMirror(c, alias, FALSE),
           n.default \in DOMAIN n.repos
    PROVE  IsConfiguration(n)
<1> DEFINE D == DOMAIN c.repos
<1>0. /\ c = [default |-> c.default, repos |-> c.repos] /\ D \subseteq Aliases
      /\ c.repos \in [D -> Repository]
  BY DEF IsConfiguration
<1>1. ASSUME NEW f, NEW S \in SUBSET Aliases, f \in [S -> Repository], NEW v,
             n = [default |-> v, repos |-> f]
      PROVE  IsConfiguration(n)
  BY <1>1 DEF IsConfiguration
<1>2. CASE n \in HandleRepoAdd(c, alias)
  <2> DEFINE f == [q \in D \cup {alias} |->
                      IF q = alias THEN [url |-> "u", mirror |-> FALSE] ELSE c.repos[q]]
  <2>1. f \in [D \cup {alias} -> Repository]
    BY <1>0 DEF Repository
  <2>2. n = With(c, alias, [url |-> "u", mirror |-> FALSE])
    BY <1>2 DEF HandleRepoAdd
  <2>3. n = [c EXCEPT !.repos = f]
    BY <2>2 DEF With
  <2>4. n = [default |-> c.default, repos |-> f]
    BY <1>0, <2>3
  <2> HIDE DEF f
  <2> QED  BY <1>0, <1>1, <2>1, <2>4
<1>3. CASE n \in HandleRepoRemove(c, alias)
  <2> DEFINE f == Part(c.repos, D \ {alias})
  <2>1. f \in [D \ {alias} -> Repository]
    BY <1>0 DEF Part
  <2>2. n = [c EXCEPT !.repos = f]
    BY <1>3 DEF HandleRepoRemove
  <2>3. n = [default |-> c.default, repos |-> f]
    BY <1>0, <2>2
  <2> HIDE DEF f
  <2> QED  BY <1>0, <1>1, <2>1, <2>3
<1>4. CASE n \in HandleRepoUpdate(c, alias)
  <2> DEFINE f == [c.repos EXCEPT ![alias] = [c.repos[alias] EXCEPT !.url = "v"]]
  <2>1. f \in [D -> Repository]
    BY <1>0 DEF Repository
  <2>2. n = [c EXCEPT !.repos = f]
    BY <1>4 DEF HandleRepoUpdate
  <2>3. n = [default |-> c.default, repos |-> f]
    BY <1>0, <2>2
  <2> HIDE DEF f
  <2> QED  BY <1>0, <1>1, <2>1, <2>3
<1>5. CASE n \in HandleRepoSetDefault(c, alias)
  <2>1. n = [c EXCEPT !.default = alias]
    BY <1>5 DEF HandleRepoSetDefault
  <2>2. n = [default |-> alias, repos |-> c.repos]
    BY <1>0, <2>1
  <2> QED  BY <1>0, <1>1, <2>2
<1>6. ASSUME NEW on \in BOOLEAN, n \in HandleRepoMirror(c, alias, on) PROVE IsConfiguration(n)
  <2> DEFINE f == [c.repos EXCEPT ![alias] = [c.repos[alias] EXCEPT !.mirror = on]]
  <2>1. f \in [D -> Repository]
    BY <1>0 DEF Repository
  <2>2. n = [c EXCEPT !.repos = f]
    BY <1>6 DEF HandleRepoMirror
  <2>3. n = [default |-> c.default, repos |-> f]
    BY <1>0, <2>2
  <2> HIDE DEF f
  <2> QED  BY <1>0, <1>1, <2>1, <2>3
<1> QED  BY <1>2, <1>3, <1>4, <1>5, <1>6

\* Steps that leave the configuration alone.
LEMMA ConfigurationFrame ==
    ASSUME ConfigurationInv, UNCHANGED <<config, remotes, opened, mine, next, torn>>,
           pc \notin Editing \cup {"off"}, pc' \notin Editing, pc' = "ready" => opened
    PROVE  ConfigurationInv'
<1>1. LoadConfig' = LoadConfig
  BY LoadedFactsPrime
<1> QED  BY <1>1 DEF ConfigurationInv, ConfigInv, RemotesInv, Editing

\* The repository is moved away or removed, with its configuration.
LEMMA GoneStep ==
    ASSUME ConfigurationInv, Gone, mine' = mine, pc' \in {"open", "off"},
           pc' = "open" => torn' = (mine # System)
    PROVE  ConfigurationInv'
<1>1. LoadConfig' = System /\ config' = {} /\ opened' = FALSE
  BY LoadedFactsPrime DEF Gone
<1> QED  BY <1>1 DEF ConfigurationInv, ConfigInv, RemotesInv, Editing

\* Every step of ll-builder keeps the configuration and the remotes in step.
LEMMA ConfigurationStep == ConfigurationInv /\ [BuilderNext]_builderVars => ConfigurationInv'
<1> SUFFICES ASSUME ConfigurationInv, [BuilderNext]_builderVars PROVE ConfigurationInv'
  OBVIOUS
<1> USE DEF Goto, Exit, files, histories
<1>0. IsConfiguration(LoadConfig) /\ IsConfiguration(mine)
  BY LoadedFacts DEF ConfigurationInv, ConfigInv
<1>1. CASE StartBuilder
  <2>1. LoadConfig' = LoadConfig /\ mine' = LoadConfig /\ pc = "off" /\ pc' = "migrate"
    BY <1>1, LoadedFactsPrime DEF StartBuilder
  <2> QED  BY <1>0, <1>1, <2>1 DEF StartBuilder, ConfigurationInv, ConfigInv, RemotesInv, Editing
<1>2. CASE TryMigrate
  BY <1>2, ConfigurationFrame DEF TryMigrate, Editing
<1>3. CASE MigrateRef
  <2>1. pc = "refs" /\ pc' \in {"version", "link", "failed"}
    BY <1>3 DEF MigrateRef
  <2> QED  BY <1>3, <2>1, ConfigurationFrame DEF MigrateRef, Editing
<1>4. ASSUME NEW l \in BuilderLayers, Link(l) PROVE ConfigurationInv'
  BY <1>4, ConfigurationFrame DEF Link, Editing
<1>5. CASE Linked
  BY <1>5, ConfigurationFrame DEF Linked, Editing
<1>6. CASE OpenVersion \/ Stamp
  BY <1>6, ConfigurationFrame DEF OpenVersion, Stamp, Editing
<1>7. CASE BackupFailedMigrationRepo
  <2>1. CASE Gone
    BY <1>7, <2>1, GoneStep DEF BackupFailedMigrationRepo, Gone
  <2>2. CASE Exit /\ UNCHANGED <<files, unlinked, torn>>
    BY <1>7, <2>2, ConfigurationFrame DEF BackupFailedMigrationRepo, Editing
  <2> QED  BY <1>7, <2>1, <2>2 DEF BackupFailedMigrationRepo
<1>8. CASE OpenRepo
  <2>1. LoadConfig' = LoadConfig
    BY <1>8, LoadedFactsPrime DEF OpenRepo
  <2>2. CASE opened /\ Goto("ready") /\ UNCHANGED <<remotes, torn>>
    BY <1>8, <2>2, ConfigurationFrame DEF OpenRepo, Editing
  <2>3. CASE ~opened /\ Goto("ready") /\ remotes' = mine.repos /\ UNCHANGED torn
    BY <1>8, <2>1, <2>3 DEF OpenRepo, ConfigurationInv, ConfigInv, RemotesInv, Editing
  <2>4. CASE Exit /\ torn' = TRUE
    BY <1>8, <2>1, <2>4 DEF OpenRepo, ConfigurationInv, ConfigInv, RemotesInv, Editing
  <2> QED  BY <1>8, <2>2, <2>3, <2>4 DEF OpenRepo
<1>9. ASSUME NEW l \in BuilderLayers, Obtain(l) PROVE ConfigurationInv'
  BY <1>9, ConfigurationFrame DEF Obtain, Editing
<1>10. CASE HandleRepo
  <2>1. PICK alias \in Aliases :
            next' \in HandleRepoAdd(mine, alias) \cup HandleRepoRemove(mine, alias)
                      \cup HandleRepoUpdate(mine, alias) \cup HandleRepoSetDefault(mine, alias)
                      \cup HandleRepoMirror(mine, alias, TRUE) \cup HandleRepoMirror(mine, alias, FALSE)
    BY <1>10 DEF HandleRepo
  <2>2. /\ pc = "ready"
        /\ UNCHANGED <<remotes, opened, version, brefs, old, bdirs, mine, todo, histories>>
    BY <1>10 DEF HandleRepo
  <2>3. CASE next'.default \in DOMAIN next'.repos /\ config' = {} /\ Goto("save")
    <3>1. IsConfiguration(next')
      BY <1>0, <2>1, <2>3, EditedFacts
    <3>2. IsConfiguration(next)'
      BY <3>1 DEF IsConfiguration
    <3> QED
      BY <2>2, <2>3, <3>2 DEF ConfigurationInv, ConfigInv, RemotesInv, Editing, IsConfiguration
  <2>4. CASE Exit /\ UNCHANGED config
    <3>1. LoadConfig' = LoadConfig
      BY <2>4, LoadedFactsPrime
    <3> QED  BY <2>2, <2>4, <3>1 DEF ConfigurationInv, ConfigInv, RemotesInv, Editing
  <2> QED  BY <1>10, <2>3, <2>4 DEF HandleRepo
<1>11. CASE SaveConfig
  BY <1>11 DEF SaveConfig, ConfigurationInv, ConfigInv, RemotesInv, Editing
<1>12. CASE UpdateOstreeRepoConfig
  BY <1>12 DEF UpdateOstreeRepoConfig, ConfigurationInv, ConfigInv, RemotesInv, Editing
<1>13. CASE RebuildCache
  <2>1. CASE UNCHANGED <<config, remotes>>
    <3>1. LoadConfig' = next
      BY <1>13, <2>1, LoadedFactsPrime DEF RebuildCache, ConfigurationInv, RemotesInv
    <3> QED  BY <1>13, <2>1, <3>1 DEF RebuildCache, ConfigurationInv, ConfigInv, RemotesInv, Editing
  <2>2. CASE RollBack
    <3>1. LoadConfig' = mine
      BY <2>2, LoadedFactsPrime DEF RollBack
    <3> QED
      BY <1>13, <2>2, <3>1 DEF RebuildCache, RollBack, ConfigurationInv, ConfigInv, RemotesInv, Editing
  <2> QED  BY <1>13, <2>1, <2>2 DEF RebuildCache
<1>14. CASE Kill
  <2>1. LoadConfig' = LoadConfig /\ pc' = "off"
    BY <1>14, LoadedFactsPrime DEF Kill
  <2>2. pc = "cache" => LoadConfig = next
    BY LoadedFacts DEF ConfigurationInv, RemotesInv
  <2>3. pc # "remotes" => remotes' = remotes
    BY <1>14 DEF Kill
  <2>4. torn' = (torn \/ pc \in {"save", "remotes"}) /\ UNCHANGED <<config, opened, mine, next>>
    BY <1>14 DEF Kill
  <2>5. ~torn' /\ opened => remotes' = LoadConfig.repos
    <3>1. pc # "off"
      BY <1>14 DEF Kill
    <3> QED  BY <2>2, <2>3, <2>4, <3>1 DEF ConfigurationInv, RemotesInv, Editing
  <2> QED  BY <2>1, <2>4, <2>5 DEF ConfigurationInv, ConfigInv, RemotesInv, Editing
<1>15. CASE UNCHANGED builderVars
  <2>1. LoadConfig' = LoadConfig
    BY <1>15, LoadedFactsPrime DEF builderVars
  <2> QED  BY <1>15, <2>1 DEF builderVars, ConfigurationInv, ConfigInv, RemotesInv
<1> QED
  BY <1>1, <1>2, <1>3, <1>4, <1>5, <1>6, <1>7, <1>8, <1>9, <1>10, <1>11, <1>12, <1>13, <1>14, <1>15
     DEF BuilderNext

\* The configuration is in order at first.
LEMMA ConfigurationInit == BuilderInit => ConfigurationInv
<1> SUFFICES ASSUME BuilderInit PROVE ConfigurationInv
  OBVIOUS
<1>1. config \in {{}, {Custom}} /\ pc = "off" /\ mine = System
  BY DEF BuilderInit
<1>2. ConfigInv
  BY <1>1, ConfigurationAssumption DEF ConfigInv, Editing
<1>3. opened => remotes = LoadConfig.repos
  BY DEF BuilderInit
<1> QED  BY <1>1, <1>2, <1>3 DEF ConfigurationInv, RemotesInv, Editing
-----------------------------------------------------------------------------
(***************************************************************************)
(* ll-builder's repository: migration.                                     *)
(***************************************************************************)

\* A ref of the layer that has a remote, and every ref without one has such a ref.
Given(l) == \E s \in brefs : s[2] = l /\ s[1] # NoRemote
AllGiven == \A r \in brefs : r[1] = NoRemote => Given(r[2])

\* What the transaction of migrateRef() gave to a remote has its link, or will get it in this
\* start.
LinkedOrDue ==
    \A r \in brefs : r[1] = NoRemote /\ Given(r[2]) /\ Source(r[2]) =>
        r[2] \in bdirs \/ (pc = "link" /\ r[2] \in todo)

\* From the transaction on, and in a repository that does not bear an old version, every ref
\* has been given to a remote.
MigrationInv ==
    /\ ~opened => brefs = {}
    /\ ~OldLayout(version) => AllGiven
    /\ pc \in {"link", "version", "stamp", "open", "ready"} \cup Editing => AllGiven
    /\ ~unlinked => LinkedOrDue

\* Steps that leave refs and directories alone.
LEMMA MigrationFrame ==
    ASSUME MigrationInv, UNCHANGED <<opened, version, brefs, old, bdirs, unlinked>>, pc # "link",
           pc' \in {"link", "version", "stamp", "open", "ready"} \cup Editing => AllGiven
    PROVE  MigrationInv'
<1>1. AllGiven' = AllGiven /\ \A l : Given(l)' = Given(l) /\ Source(l)' = Source(l)
  BY DEF AllGiven, Given, Source
<1> QED  BY <1>1 DEF MigrationInv, LinkedOrDue, OldLayout

\* The transaction.
LEMMA MigrateRefStep ==
    ASSUME ConfigurationInv, MigrationInv, MigrateRef
    PROVE  MigrationInv'
<1> USE DEF Goto
<1>1. /\ pc = "refs" /\ UNCHANGED <<opened, version, old, bdirs, unlinked>> /\ mine.default # NoRemote
  BY ConfigurationAssumption DEF MigrateRef, histories, ConfigurationInv, ConfigInv, IsConfiguration
<1>2. CASE /\ \A r \in brefs : r[1] = mine.default
           /\ Goto("version") /\ UNCHANGED <<brefs, todo>>
  BY <1>1, <1>2, MigrationFrame DEF AllGiven
<1>3. ASSUME NEW first \in {r \in brefs : r[1] # mine.default}, NeedMigrate(first) = {},
             Goto("version"), UNCHANGED <<brefs, todo>>
      PROVE  MigrationInv'
  <2>1. \A r \in brefs : r[1] = NoRemote => <<mine.default, r[2]>> \in brefs
    BY <1>1, <1>3 DEF NeedMigrate
  <2>2. AllGiven
    BY <1>1, <2>1 DEF AllGiven, Given
  <2> QED  BY <1>1, <1>3, <2>2, MigrationFrame
<1>4. CASE Goto("failed") /\ UNCHANGED <<brefs, todo>>
  BY <1>1, <1>4, MigrationFrame DEF Editing
<1>5. ASSUME NEW first \in {r \in brefs : r[1] # mine.default},
             brefs' = brefs \cup {<<mine.default, r[2]>> :
                                    r \in {s \in NeedMigrate(first) : s[1] = NoRemote}},
             todo' = {r[2] : r \in {s \in NeedMigrate(first) : s[1] = NoRemote}},
             Goto("link") \/ (old = {} /\ Goto("failed"))
      PROVE  MigrationInv'
  <2>1. \A r \in brefs' : r[1] = NoRemote => r \in brefs
    BY <1>1, <1>5
  <2>2. \A r \in brefs : r[1] = NoRemote => r \in NeedMigrate(first) \/ <<mine.default, r[2]>> \in brefs
    BY <1>1 DEF NeedMigrate
  <2>3. \A r \in brefs : r[1] = NoRemote => <<mine.default, r[2]>> \in brefs'
    BY <1>5, <2>2
  <2>4. AllGiven'
    BY <1>1, <2>1, <2>3 DEF AllGiven, Given
  <2>5. brefs # {} /\ (opened' = opened)
    BY <1>1, <1>5
  <2>6. ASSUME ~unlinked, NEW r \in brefs', r[1] = NoRemote, Source(r[2])'
        PROVE  r[2] \in bdirs' \/ (pc' = "link" /\ r[2] \in todo')
    <3>1. r \in brefs /\ Source(r[2])
      BY <1>1, <2>1, <2>6 DEF Source
    <3>2. pc' = "link"
      BY <1>5, <3>1 DEF Source
    <3>3. CASE r \in NeedMigrate(first)
      BY <1>5, <2>6, <3>2, <3>3
    <3>4. CASE <<mine.default, r[2]>> \in brefs
      <4>1. Given(r[2])
        BY <1>1, <3>4 DEF Given
      <4> QED  BY <1>1, <2>6, <3>1, <4>1 DEF MigrationInv, LinkedOrDue
    <3> QED  BY <2>2, <2>6, <3>1, <3>3, <3>4
  <2>7. ~unlinked' => LinkedOrDue'
    BY <1>1, <2>6 DEF LinkedOrDue
  <2> QED  BY <1>1, <2>4, <2>5, <2>7 DEF MigrationInv
<1> QED  BY <1>2, <1>3, <1>4, <1>5 DEF MigrateRef

\* A link, or its failure.
LEMMA LinkStep ==
    ASSUME MigrationInv, NEW l \in BuilderLayers, Link(l)
    PROVE  MigrationInv'
<1>1. /\ pc = "link" /\ l \in todo /\ UNCHANGED <<opened, version, brefs, old>>
  BY DEF Link
<1>2. AllGiven /\ AllGiven' /\ \A x : Given(x)' = Given(x) /\ Source(x)' = Source(x)
  BY <1>1 DEF MigrationInv, AllGiven, Given, Source
<1>3. ~unlinked' => LinkedOrDue'
  <2>1. CASE /\ bdirs' = IF Source(l) THEN bdirs \cup {l} ELSE bdirs
             /\ todo' = todo \ {l} /\ UNCHANGED <<pc, starts, unlinked>>
    BY <1>1, <1>2, <2>1 DEF MigrationInv, LinkedOrDue
  <2>2. CASE unlinked' = TRUE
    BY <2>2
  <2> QED  BY <2>1, <2>2 DEF Link
<1> QED  BY <1>1, <1>2, <1>3 DEF MigrationInv

\* Every step of ll-builder keeps the migration in order.
LEMMA MigrationStep ==
    ConfigurationInv /\ MigrationInv /\ [BuilderNext]_builderVars => MigrationInv'
<1> SUFFICES ASSUME ConfigurationInv, MigrationInv, [BuilderNext]_builderVars PROVE MigrationInv'
  OBVIOUS
<1> USE DEF Goto, Exit, files, histories
<1>1. CASE StartBuilder
  BY <1>1, MigrationFrame DEF StartBuilder, Editing
<1>2. CASE TryMigrate
  <2>1. pc = "migrate" /\ UNCHANGED <<opened, version, brefs, old, bdirs, unlinked>>
    BY <1>2 DEF TryMigrate
  <2>2. CASE version = Current
    <3>1. AllGiven
      BY <2>2, CurrentAssumption DEF MigrationInv
    <3> QED  BY <2>1, <3>1, MigrationFrame
  <2>3. CASE ~(opened /\ Older(version, <<1, 7, 0>>))
    <3>1. AllGiven
      BY <2>3 DEF Older, OldLayout, MigrationInv, AllGiven
    <3> QED  BY <2>1, <3>1, MigrationFrame
  <2>4. CASE pc' \in {"failed", "refs"}
    BY <2>1, <2>4, MigrationFrame DEF Editing
  <2> QED  BY <1>2, <2>2, <2>3, <2>4 DEF TryMigrate
<1>3. CASE MigrateRef
  BY <1>3, MigrateRefStep
<1>4. ASSUME NEW l \in BuilderLayers, Link(l) PROVE MigrationInv'
  BY <1>4, LinkStep
<1>5. CASE Linked
  <2>1. pc = "link" /\ pc' = "version" /\ todo = {} /\ UNCHANGED <<files, todo, unlinked>>
    BY <1>5 DEF Linked
  <2>2. AllGiven' = AllGiven /\ \A l : Given(l)' = Given(l) /\ Source(l)' = Source(l)
    BY <2>1 DEF AllGiven, Given, Source
  <2> QED  BY <2>1, <2>2 DEF MigrationInv, LinkedOrDue
<1>6. CASE OpenVersion \/ Stamp
  <2>1. /\ pc \in {"version", "stamp"} /\ pc' # "link"
        /\ UNCHANGED <<opened, brefs, old, bdirs, unlinked>>
    BY <1>6 DEF OpenVersion, Stamp
  <2>2. AllGiven /\ AllGiven' /\ \A l : Given(l)' = Given(l) /\ Source(l)' = Source(l)
    BY <2>1 DEF MigrationInv, AllGiven, Given, Source
  <2> QED  BY <2>1, <2>2 DEF MigrationInv, LinkedOrDue
<1>7. CASE BackupFailedMigrationRepo
  <2>1. CASE Gone
    BY <2>1 DEF Gone, MigrationInv, AllGiven, LinkedOrDue
  <2>2. CASE Exit /\ UNCHANGED <<files, unlinked, torn>>
    BY <1>7, <2>2, MigrationFrame DEF BackupFailedMigrationRepo, Editing
  <2> QED  BY <1>7, <2>1, <2>2 DEF BackupFailedMigrationRepo
<1>8. CASE OpenRepo
  <2>1. /\ pc = "open" /\ pc' # "link" /\ opened' = TRUE
        /\ UNCHANGED <<version, brefs, old, bdirs, unlinked>>
    BY <1>8 DEF OpenRepo
  <2>2. AllGiven /\ AllGiven' /\ \A l : Given(l)' = Given(l) /\ Source(l)' = Source(l)
    BY <2>1 DEF MigrationInv, AllGiven, Given, Source
  <2> QED  BY <2>1, <2>2 DEF MigrationInv, LinkedOrDue
<1>9. ASSUME NEW l \in BuilderLayers, Obtain(l) PROVE MigrationInv'
  <2>1. /\ pc = "ready" /\ bdirs' = bdirs \cup {l} /\ UNCHANGED <<opened, version, old, unlinked>>
        /\ brefs' = brefs \cup {<<mine.default, l>>} \/ brefs' = brefs \cup {<<LocalRemote, l>>}
    BY <1>9 DEF Obtain
  <2>2. mine.default # NoRemote /\ LocalRemote # NoRemote
    BY ConfigurationAssumption DEF ConfigurationInv, ConfigInv, IsConfiguration, LocalRemote, NoRemote
  <2>3. opened /\ AllGiven
    BY <2>1 DEF ConfigurationInv, RemotesInv, MigrationInv
  <2>4. /\ brefs \subseteq brefs' /\ \A x : Given(x) => Given(x)'
        /\ \A r \in brefs' : r[1] = NoRemote => r \in brefs
    BY <2>1, <2>2 DEF Given
  <2>5. AllGiven'
    BY <2>3, <2>4 DEF AllGiven
  <2>6. \A x : Source(x)' = Source(x)
    BY <2>1 DEF Source
  <2>7. ~unlinked => LinkedOrDue'
    BY <2>1, <2>3, <2>4, <2>6 DEF MigrationInv, LinkedOrDue, AllGiven
  <2> QED  BY <2>1, <2>3, <2>5, <2>7 DEF MigrationInv
<1>10. CASE HandleRepo \/ SaveConfig \/ UpdateOstreeRepoConfig \/ RebuildCache
  <2>1. /\ pc \in {"ready", "save", "remotes", "cache"}
        /\ UNCHANGED <<opened, version, brefs, old, bdirs, unlinked>>
    BY <1>10 DEF HandleRepo, SaveConfig, UpdateOstreeRepoConfig, RebuildCache
  <2>2. AllGiven
    BY <2>1 DEF MigrationInv, Editing
  <2> QED  BY <2>1, <2>2, MigrationFrame
<1>11. CASE Kill
  <2>1. /\ pc' = "off" /\ UNCHANGED <<opened, version, brefs, old, bdirs>>
        /\ unlinked' = (unlinked \/ \E l \in todo : Source(l) /\ l \notin bdirs)
    BY <1>11 DEF Kill
  <2>2. AllGiven' = AllGiven /\ \A l : Given(l)' = Given(l) /\ Source(l)' = Source(l)
    BY <2>1 DEF AllGiven, Given, Source
  <2>3. ~unlinked' => LinkedOrDue'
    BY <2>1, <2>2 DEF MigrationInv, LinkedOrDue
  <2> QED  BY <2>1, <2>2, <2>3 DEF MigrationInv, OldLayout, Editing
<1>12. CASE UNCHANGED builderVars
  <2>1. AllGiven' = AllGiven /\ \A l : Given(l)' = Given(l) /\ Source(l)' = Source(l)
    BY <1>12 DEF AllGiven, Given, Source, builderVars
  <2> QED  BY <1>12, <2>1 DEF builderVars, MigrationInv, LinkedOrDue, OldLayout
<1> QED
  BY <1>1, <1>2, <1>3, <1>4, <1>5, <1>6, <1>7, <1>8, <1>9, <1>10, <1>11, <1>12 DEF BuilderNext

\* Nothing without a remote has a remote in a repository that was never migrated.
LEMMA MigrationInit == BuilderInit => MigrationInv
<1> SUFFICES ASSUME BuilderInit PROVE MigrationInv
  OBVIOUS
<1>1. pc = "off" /\ IsConfiguration(LoadConfig)
  BY ConfigurationInit, LoadedFacts DEF BuilderInit, ConfigurationInv
<1>2. LoadConfig.default # NoRemote /\ LocalRemote # NoRemote
  BY <1>1, ConfigurationAssumption DEF IsConfiguration, LocalRemote, NoRemote
<1>3. CASE brefs = {}
  BY <1>1, <1>3 DEF MigrationInv, AllGiven, LinkedOrDue, Editing
<1>4. ASSUME NEW S, brefs = {NoRemote} \X S, OldLayout(version), opened PROVE MigrationInv
  <2>1. \A l : ~Given(l)
    BY <1>4 DEF Given
  <2> QED  BY <1>1, <1>4, <2>1 DEF MigrationInv, LinkedOrDue, Editing
<1>5. ASSUME NEW S, NEW T, brefs = ({LoadConfig.default} \X S) \cup ({LocalRemote} \X T), opened
      PROVE  MigrationInv
  <2>1. \A r \in brefs : r[1] # NoRemote
    BY <1>2, <1>5
  <2> QED  BY <1>1, <1>5, <2>1 DEF MigrationInv, AllGiven, LinkedOrDue, Editing
<1>6. CASE opened
  <2>1. PICK S \in SUBSET BuilderLayers, T \in SUBSET BuilderLayers :
            IF OldLayout(version)
            THEN T \subseteq S /\ brefs = {NoRemote} \X S /\ old = T /\ bdirs = {}
            ELSE /\ brefs = ({LoadConfig.default} \X S) \cup ({LocalRemote} \X T)
                 /\ old = {} /\ bdirs = S \cup T
    BY <1>6 DEF BuilderInit
  <2> QED  BY <1>4, <1>5, <1>6, <2>1
<1> QED  BY <1>3, <1>6 DEF BuilderInit
-----------------------------------------------------------------------------
\* setConfig() and its steps back, backupFailedMigrationRepo() and the constructor of
\* OSTreeRepo: after any number of starts, of edits of the configuration, of failing steps
\* and of kills, the remotes a command pulls from are those of its configuration, unless the
\* last one to write them did not come to its end.
THEOREM RemotesStayConfigured == BuilderSpec => []RemotesConfigured
<1>1. ConfigurationInv => RemotesConfigured
  BY DEF ConfigurationInv, ConfigInv, RemotesInv, RemotesConfigured, IsConfiguration, Editing
<1> QED  BY <1>1, ConfigurationInit, ConfigurationStep, PTL DEF BuilderSpec

\* tryMigrate(), migrateRef(): when a command is served every layer of an old repository has
\* been given to a remote and has its directory, however often a start was killed or failed,
\* unless between the transaction and the last link.
THEOREM MigrationIsWhole == BuilderSpec => []MigratedWhole
<1>1. MigrationInv => MigratedWhole
  BY DEF MigrationInv, MigratedWhole, AllGiven, LinkedOrDue, Given
<1> QED  BY <1>1, ConfigurationInit, ConfigurationStep, MigrationInit, MigrationStep, PTL
         DEF BuilderSpec

\* The files of a repository agree: under crashes and failing steps as long as states.json can
\* be written, or while it cannot, and for every start of ll-builder.
THEOREM FilesStayTrue == ASSUME Reliable \/ Unsaved PROVE RepoFilesSpec => []FilesAgree
<1>1. Spec => []CheckedOut
  BY ListedIsCheckedOut, UnsavedIsCheckedOut
<1>2. CheckedOut /\ MigratedWhole /\ RemotesConfigured => FilesAgree
  BY DEF FilesAgree
<1> QED  BY <1>1, <1>2, RemotesStayConfigured, MigrationIsWhole, PTL DEF RepoFilesSpec
=============================================================================
