-------------------------- MODULE ApplicationProofs --------------------------
(***************************************************************************)
(* Theorems about RunApp, for any layers, runners, applications and number *)
(* of launches, kills and removals; about Uab, for any number of instances *)
(* of a bundle; about Unpack, for any files and chunks; about Bundle, for  *)
(* any layers and exports; and about Builder, for any projects and builds. *)
(***************************************************************************)
EXTENDS RunApp, Builder, Bundle, Uab, Unpack, FiniteSetTheorems, TLAPS

\* The steps of a process before it has its state file, while it has, and those of them
\* at which its bundle and its security context may exist.
Early == {"starting", "checked", "loaded"}
Resolved == {"resolved", "delegating", "alone", "filled", "dumped", "running"}
Working == Resolved \cup {"placed", "closing", "quitting"}
Filled == {"filled", "dumped", "running", "closing"}

MaybeRef == Refs \cup {None}
Contexts == {Failed} \cup [ok : {TRUE}, app : MaybeRef, runtime : MaybeRef, base : MaybeRef,
                           resolved : SUBSET Refs, output : {None}, exts : SUBSET Refs]
Records == [id : Runners, app : MaybeRef, refs : SUBSET Refs]
Managers == [step : {"idle", "locked", "remove"},
             why : {None, "replace", "uninstall", "deferred", "rollback"}, ref : MaybeRef, saw : SUBSET Runners]

TypeOK ==
    /\ layers \in [Refs -> {"none", "live", "hidden"}] /\ lock \in BOOLEAN
    /\ pm \in Managers /\ (pm.step # "idle" => pm.ref \in Refs) /\ (pm.step # "remove" => pm.saw = {})
    /\ pc \in [Runners -> Over \cup Early \cup Working]
    /\ want \in [Runners -> Targets \cup {None}] /\ view \in [Runners -> SUBSET Refs]
    /\ ctx \in [Runners -> Contexts] /\ host \in [Runners -> Runners \cup {None}]
    /\ files \subseteq Runners /\ bundles \subseteq Runners /\ own \subseteq Runners
    /\ content \in [Runners -> {<<>>} \cup {<<i>> : i \in Records}]
    /\ sock \in Runners \cup {None} /\ box \in [Runners -> {"none", "running", "over"}]
    /\ killed \subseteq Runners /\ crashed \subseteq Runners /\ late \subseteq Runners
    /\ faults \subseteq {"record", "bundle", "file"} \X Runners

\* What could not be written or removed, as seen from the steps of others.
Lost(what, r) == <<what, r>> \in faults

\* A process has its state file while it works; the file is empty until the layers are
\* chosen, and then it is the record of what was chosen, if it could be written.  A container runs while its
\* process waits for it, or that process was killed.
FileInv ==
    \A r \in Runners :
        /\ pc[r] \in Working => r \in files
        /\ pc[r] \in Early \cup {"placed"} => ctx[r] = Failed
        /\ pc[r] = "placed" => content[r] = <<>>
        /\ pc[r] \in Resolved => ctx[r].ok /\ ctx[r].app # None
        /\ pc[r] \in {"dumped", "running"} => content[r] # <<>> \/ Lost("record", r)
        /\ Alive(r) /\ r \in files /\ content[r] # <<>> /\ ctx[r].ok =>
              content[r] = <<StateInfo(r, ctx[r])>>
        /\ box[r] = "running" => r \in killed \/ pc[r] = "running"

\* Only applications are replaced, hidden and looked for again, and of the layers a process
\* has chosen only its application is one.
KindInv ==
    /\ \A x \in Refs : layers[x] = "hidden" => Info[x].kind = "app"
    /\ pm.step # "idle" /\ pm.why \in {"replace", "deferred"} => Info[pm.ref].kind = "app"
    /\ \A r \in Runners : ctx[r].ok =>
          \A x \in Mounted(ctx[r]) \ {ctx[r].app} : Info[x].kind # "app"

\* A process the package manager saw, and that lives, has a record that does not name the
\* layer, or the file of a process that was killed, which will stop it.
SeenInv ==
    pm.step = "remove" =>
        \A r \in pm.saw : Alive(r) => /\ r \in files /\ pc[r] # "placed"
                                      /\ ctx[r].ok => pm.ref \notin Mounted(ctx[r])

\* The list a process has loaded is true until it has chosen, and then the directories of
\* its base and extensions were there, unless a removal has overtaken it.
ViewInv ==
    \A r \in Runners \ late :
        /\ pc[r] = "placed" \/ (pc[r] = "loaded" /\ r \notin files) => view[r] \subseteq Dirs
        /\ pc[r] \in {"resolved", "delegating", "alone"} => ~FillUndefined(ctx[r])

\* Layers do not go away under a container, and only a base has no directory.
KeptInv ==
    \A r \in Runners \ (killed \cup late) :
        /\ box[r] = "running" => Mounted(ctx[r]) \subseteq Dirs
        /\ r \in crashed /\ pc[r] = "killed" => ctx[r].ok /\ ctx[r].app = None

\* Who was not killed cleans up what is his, where it can be removed, and a socket belongs to
\* somebody who will.
CleanInv ==
    killed \cup crashed = {} =>
        /\ \A r \in files : pc[r] \in Working \/ Lost("file", r)
        /\ \A r \in bundles : pc[r] \in Filled \/ Lost("bundle", r)
        /\ \A r \in own : pc[r] \in Filled
        /\ sock # None => sock \in own

IInv == TypeOK /\ FileInv /\ KindInv /\ SeenInv /\ ViewInv /\ KeptInv /\ CleanInv

-----------------------------------------------------------------------------
\* clearReference() finds a layer of the list, or none: one of them is newest.
LEMMA Cleared ==
    ASSUME NEW v \in SUBSET Refs, NEW id
    PROVE  /\ ClearReference(v, id) \in v \cup {None}
           /\ ClearReference(v, id) # None => Info[ClearReference(v, id)].id = id
<1> DEFINE found == {r \in v : Info[r].id = id}
<1>1. found = {} => ClearReference(v, id) = None
  BY DEF ClearReference
<1>2. ASSUME found # {} PROVE ClearReference(v, id) \in v /\ Info[ClearReference(v, id)].id = id
  <2>1. \E r \in found : \A s \in found : Info[s].ver <= Info[r].ver
    BY <1>2, RefsAssumption
  <2>2. ClearReference(v, id) = CHOOSE r \in found : \A s \in found : Info[s].ver <= Info[r].ver
    BY <1>2 DEF ClearReference
  <2> QED  BY <2>1, <2>2
<1> QED  BY <1>1, <1>2

\* RunContext::resolve(): a context names layers of the list; only a base has no directory;
\* if the list is true every extension has one; and only its application is an application.
LEMMA ResolveFacts ==
    ASSUME NEW v \in SUBSET Refs, NEW ds \in SUBSET Refs, NEW ref \in v, NEW c,
           c = Resolve(v, ds, ref, Opts)
    PROVE  /\ c \in Contexts
           /\ c.ok /\ c.base \notin c.resolved => c.app = None
           /\ c.ok /\ c.base \in c.resolved /\ v \subseteq ds => ~FillUndefined(c)
           /\ c.ok => \A x \in Mounted(c) \ {c.app} : Info[x].kind # "app"
<1> DEFINE kind == Info[ref].kind
           runtimeId == IF Opts.runtime # None THEN Opts.runtime ELSE Info[ref].runtime
           runtime == IF kind = "runtime" THEN ref
                      ELSE IF runtimeId = None THEN None
                      ELSE ClearReference(v, runtimeId)
           base == ClearReference(v, IF Opts.base # None THEN Opts.base ELSE Info[ref].base)
           app == IF kind = "app" THEN ref ELSE None
           exts == (IF runtime = None THEN {} ELSE ResolveExtension(v, runtime))
                     \cup (IF base = None THEN {} ELSE ResolveExtension(v, base))
           alone == [ok |-> TRUE, app |-> None, runtime |-> None, base |-> ref, resolved |-> {},
                     output |-> None, exts |-> ResolveExtension(v, ref)]
           needed == {base, app, runtime} \ {None}
           whole == [ok |-> TRUE, app |-> app, runtime |-> runtime, base |-> base,
                     resolved |-> (needed \cup exts) \cap ds, output |-> None, exts |-> exts]
<1>1. \A x : ResolveExtension(v, x) \in SUBSET v
  BY Cleared DEF ResolveExtension
<1>2. {runtime, base, app} \subseteq v \cup {None} /\ exts \in SUBSET v
  BY <1>1, Cleared
<1>0. \A x \in Refs : \A e \in ResolveExtension(v, x) : Info[e].kind # "app"
  <2> SUFFICES ASSUME NEW x \in Refs, NEW e \in ResolveExtension(v, x) PROVE Info[e].kind # "app"
    OBVIOUS
  <2>1. PICK id \in Info[x].exts : e = ClearReference(v, id) /\ e # None
    BY DEF ResolveExtension
  <2>2. e \in Refs /\ Info[e].id = id
    BY <2>1, Cleared
  <2> QED  BY <2>1, <2>2, KindsAssumption
<1>7. (base # None => Info[base].kind # "app") /\ (runtime # None => Info[runtime].kind # "app")
  <2>1. base # None => Info[base].kind # "app"
    <3>1. base # None => base \in Refs /\ Info[base].id \in {Opts.base, Info[ref].base}
      BY Cleared
    <3> QED  BY <3>1, KindsAssumption
  <2>2. runtime # None => Info[runtime].kind # "app"
    <3>1. CASE kind = "runtime"
      BY <3>1
    <3>2. CASE kind # "runtime"
      <4>1. runtime # None => runtime \in Refs /\ Info[runtime].id \in {Opts.runtime, Info[ref].runtime}
        BY <3>2, Cleared
      <4> QED  BY <4>1, KindsAssumption
    <3> QED  BY <3>1, <3>2
  <2> QED  BY <2>1, <2>2
<1>8. \A e \in exts : Info[e].kind # "app"
  <2>1. (runtime # None => runtime \in Refs) /\ (base # None => base \in Refs)
    BY <1>2
  <2> QED  BY <1>0, <2>1
<1>3. \/ c = Failed
      \/ c = alone /\ kind = "base"
      \/ base # None /\ needed \subseteq ds /\ c = whole
  BY ZenonT(60) DEF Resolve, ResolveLayer
<1> HIDE DEF runtime, base, app, exts
<1>4. CASE c = Failed
  BY <1>4 DEF Failed, Contexts
<1>5. CASE c = alone /\ kind = "base"
  <2>1. ResolveExtension(v, ref) \in SUBSET Refs /\ ref \in Refs
    BY <1>1
  <2>2. c \in Contexts
    BY <1>5, <2>1 DEF Contexts, MaybeRef
  <2>3. c.app = None /\ c.resolved = {}
    BY <1>5
  <2>4. \A x \in Mounted(c) : x = ref \/ x \in ResolveExtension(v, ref)
    BY <1>5 DEF Mounted
  <2>5. \A x \in Mounted(c) : Info[x].kind # "app"
    BY <1>0, <1>5, <2>1, <2>4
  <2> QED  BY <2>2, <2>3, <2>5
<1>6. CASE base # None /\ needed \subseteq ds /\ c = whole
  <2>1. c \in Contexts
    BY <1>2, <1>6 DEF Contexts, MaybeRef
  <2>2. c.base = base /\ c.exts = exts /\ c.resolved = (needed \cup exts) \cap ds
    BY <1>6
  <2>3. base \in needed
    BY <1>6
  <2>4. \A x \in Mounted(c) \ {c.app} : Info[x].kind # "app"
    <3>1. c.app = app /\ c.runtime = runtime
      BY <1>6
    <3>2. Mounted(c) \ {c.app} \subseteq ({base, runtime} \ {None}) \cup exts
      BY <2>2, <3>1 DEF Mounted
    <3> QED  BY <1>7, <1>8, <3>2
  <2> QED  BY <1>2, <1>6, <2>1, <2>2, <2>3, <2>4 DEF FillUndefined
<1> QED  BY <1>3, <1>4, <1>5, <1>6

\* The flag of a context is a truth value.
LEMMA ContextOK ==
    \A c \in Contexts : c.ok \in BOOLEAN /\ (c.ok => c \in Contexts \ {Failed})
<1> SUFFICES ASSUME NEW c \in Contexts PROVE c.ok \in BOOLEAN /\ (c.ok => c \in Contexts \ {Failed})
  OBVIOUS
<1>1. CASE c = Failed
  BY <1>1 DEF Failed
<1>2. CASE c # Failed
  BY <1>2 DEF Contexts
<1> QED  BY <1>1, <1>2

\* What ResolveRun() leaves in the context of the process.
LEMMA ResolveRunFacts ==
    ASSUME TypeOK, NEW r \in Runners, ResolveRun(r)
    PROVE  \E c \in Contexts :
              /\ ctx' = [ctx EXCEPT ![r] = c]
              /\ c.ok => \A x \in Mounted(c) \ {c.app} : Info[x].kind # "app"
              /\ \/ /\ pc' = [pc EXCEPT ![r] = "killed"] /\ crashed' = crashed \cup {r}
                    /\ c.ok /\ c.app = None
                 \/ /\ pc' = [pc EXCEPT ![r] = "resolved"] /\ crashed' = crashed
                    /\ c.ok /\ c.app # None
                    /\ view[r] \subseteq Dirs => ~FillUndefined(c)
                 \/ pc' = [pc EXCEPT ![r] = "closing"] /\ crashed' = crashed
<1> DEFINE ref == ClearReference(view[r], want[r])
           c == IF ref = None THEN Failed ELSE Resolve(view[r], Dirs, ref, Opts)
<1>1. view[r] \in SUBSET Refs /\ Dirs \in SUBSET Refs
  BY DEF TypeOK, Dirs
<1>2. ref \in view[r] \cup {None}
  BY <1>1, Cleared
<1>3. /\ c \in Contexts
      /\ c.ok /\ c.base \notin c.resolved => c.app = None
      /\ c.ok /\ c.base \in c.resolved /\ view[r] \subseteq Dirs => ~FillUndefined(c)
      /\ c.ok => \A x \in Mounted(c) \ {c.app} : Info[x].kind # "app"
  <2>1. CASE ref = None
    BY <2>1 DEF Failed, Contexts
  <2>2. CASE ref # None
    <3>1. ref \in view[r] /\ c = Resolve(view[r], Dirs, ref, Opts)
      BY <1>2, <2>2
    <3> HIDE DEF c, ref
    <3> QED  BY <1>1, <3>1, ResolveFacts
  <2> QED  BY <2>1, <2>2
<1>4. /\ ctx' = [ctx EXCEPT ![r] = c]
      /\ IF c.ok /\ c.base \notin c.resolved
         THEN Goto(r, "killed") /\ crashed' = crashed \cup {r}
         ELSE Goto(r, IF c.ok /\ c.app # None THEN "resolved" ELSE "closing") /\ UNCHANGED crashed
  BY DEF ResolveRun
<1> HIDE DEF c
<1>5. c.ok \in BOOLEAN
  BY <1>3, ContextOK
<1>6. CASE c.ok /\ c.base \notin c.resolved
  BY <1>3, <1>4, <1>6 DEF Goto
<1>7. CASE ~(c.ok /\ c.base \notin c.resolved) /\ c.ok /\ c.app # None
  BY <1>3, <1>4, <1>7 DEF Goto
<1>8. CASE ~(c.ok /\ c.base \notin c.resolved) /\ ~(c.ok /\ c.app # None)
  BY <1>3, <1>4, <1>8 DEF Goto
<1> QED  BY <1>6, <1>7, <1>8

\* What a process records has the type of a record.
LEMMA RecordType ==
    ASSUME NEW r \in Runners, NEW c \in Contexts, c.ok
    PROVE  StateInfo(r, c) \in Records
<1>1. c \in Contexts \ {Failed}
  BY DEF Failed
<1>2. c.app \in MaybeRef /\ Mounted(c) \in SUBSET Refs
  BY <1>1 DEF Contexts, Mounted, MaybeRef
<1> QED  BY <1>2 DEF StateInfo, Records

\* dumpContainerInfo() writes the record, or leaves the file empty.
LEMMA DumpFacts ==
    ASSUME TypeOK, FileInv, NEW r \in Runners, pc[r] \in Resolved, Dump(r)
    PROVE  /\ content' \in [Runners -> {<<>>} \cup {<<i>> : i \in Records}]
           /\ faults' \subseteq {"record", "bundle", "file"} \X Runners
           /\ \A q \in Runners \ {r} : content'[q] = content[q]
           /\ \/ content'[r] = <<StateInfo(r, ctx[r])>> /\ content'[r] # <<>>
              \/ content'[r] = <<>> /\ Lost("record", r)'
<1>1. StateInfo(r, ctx[r]) \in Records
  BY RecordType DEF TypeOK, FileInv
<1> HIDE DEF StateInfo
<1>2. CASE content' = [content EXCEPT ![r] = <<StateInfo(r, ctx[r])>>] /\ UNCHANGED faults
  BY <1>1, <1>2 DEF TypeOK
<1>3. CASE content' = [content EXCEPT ![r] = <<>>] /\ Fault("record", r)
  BY <1>3 DEF TypeOK, Fault, Lost
<1> QED  BY <1>2, <1>3 DEF Dump

\* Type correctness is preserved.
LEMMA TypeStep ==
    ASSUME TypeOK, FileInv, Next \/ UNCHANGED vars
    PROVE  TypeOK'
<1>1. ASSUME NEW r \in Runners, LockCheck(r)  PROVE TypeOK'
  BY <1>1 DEF LockCheck, TypeOK, Over, Early, Resolved, Working, manager, shared, hist, past, Goto,
     Steps
<1>2. ASSUME NEW r \in Runners, LoadRepo(r)  PROVE TypeOK'
  <2>1. Live \in SUBSET Refs
    BY DEF Live
  <2> QED
    BY <1>2, <2>1 DEF LoadRepo, TypeOK, Over, Early, Resolved, Working, manager, shared, hist, past,
       Goto, Steps
<1>3. ASSUME NEW r \in Runners, Placeholder(r)  PROVE TypeOK'
  BY <1>3 DEF Placeholder, TypeOK, Over, Early, Resolved, Working, manager, shared, hist, past,
     Goto,
     Steps
<1>4. ASSUME NEW r \in Runners, ResolveRun(r)  PROVE TypeOK'
  <2>1. PICK c \in Contexts, s \in {"killed", "resolved", "closing"},
             cr \in {crashed, crashed \cup {r}} :
              ctx' = [ctx EXCEPT ![r] = c] /\ pc' = [pc EXCEPT ![r] = s] /\ crashed' = cr
    BY <1>4, ResolveRunFacts
  <2>2. ctx' \in [Runners -> Contexts] /\ crashed' \subseteq Runners
    BY <2>1 DEF TypeOK
  <2>3. pc' \in [Runners -> Over \cup Early \cup Working]
    BY <2>1 DEF TypeOK, Over, Early, Resolved, Working
  <2> QED
    BY <1>4, <2>2, <2>3 DEF ResolveRun, TypeOK, manager, shared
<1>5. ASSUME NEW r \in Runners, LookForContainer(r)  PROVE TypeOK'
  <2>1. /\ content' \in [Runners -> {<<>>} \cup {<<i>> : i \in Records}]
        /\ faults' \subseteq {"record", "bundle", "file"} \X Runners
    <3>1. CASE UNCHANGED <<content, faults>>
      BY <3>1 DEF TypeOK
    <3>2. CASE Dump(r)
      BY <1>5, <3>2, DumpFacts DEF LookForContainer, Resolved
    <3> QED  BY <1>5, <3>1, <3>2 DEF LookForContainer
  <2>2. CurrentContainers \subseteq Runners
    BY DEF CurrentContainers, TypeOK
  <2>3. host' \in [Runners -> Runners \cup {None}]
    BY <1>5, <2>2 DEF LookForContainer, TypeOK
  <2>4. pc' \in [Runners -> Over \cup Early \cup Working]
    BY <1>5 DEF LookForContainer, TypeOK, Over, Early, Resolved, Working, Goto
  <2> QED
    BY <1>5, <2>1, <2>3, <2>4 DEF LookForContainer, TypeOK, manager, past
<1>6. ASSUME NEW r \in Runners, Delegate(r)  PROVE TypeOK'
  BY <1>6 DEF Delegate, TypeOK, Over, Early, Resolved, Working, manager, shared, hist, past, Goto,
     Steps
<1>7. ASSUME NEW r \in Runners, FillContextCfg(r)  PROVE TypeOK'
  BY <1>7 DEF FillContextCfg, TypeOK, Over, Early, Resolved, Working, manager, shared, hist, past,
     Goto,
     Steps
<1>8. ASSUME NEW r \in Runners, DumpContainerInfo(r)  PROVE TypeOK'
  <2>1. /\ content' \in [Runners -> {<<>>} \cup {<<i>> : i \in Records}]
        /\ faults' \subseteq {"record", "bundle", "file"} \X Runners
    <3>1. CASE UNCHANGED <<content, faults>>
      BY <3>1 DEF TypeOK
    <3>2. CASE Dump(r)
      BY <1>8, <3>2, DumpFacts DEF DumpContainerInfo, Resolved
    <3> QED  BY <1>8, <3>1, <3>2 DEF DumpContainerInfo
  <2>2. pc' \in [Runners -> Over \cup Early \cup Working]
    BY <1>8 DEF DumpContainerInfo, TypeOK, Over, Early, Resolved, Working, Goto
  <2> QED
    BY <1>8, <2>1, <2>2 DEF DumpContainerInfo, TypeOK, manager, past
<1>9. ASSUME NEW r \in Runners, RunContainer(r)  PROVE TypeOK'
  BY <1>9 DEF RunContainer, TypeOK, Over, Early, Resolved, Working, manager, shared, hist, past,
     Goto,
     Steps
<1>10. ASSUME NEW r \in Runners, Close(r)  PROVE TypeOK'
  <2>1. bundles' \subseteq Runners /\ faults' \subseteq {"record", "bundle", "file"} \X Runners
    BY <1>10 DEF Close, Fault, TypeOK
  <2> QED
    BY <1>10, <2>1 DEF Close, SocketAfter, TypeOK, Over, Early, Resolved, Working, manager, past, Goto,
       Steps
<1>11. ASSUME NEW r \in Runners, Quit(r)  PROVE TypeOK'
  <2>1. files' \subseteq Runners /\ faults' \subseteq {"record", "bundle", "file"} \X Runners
    BY <1>11 DEF Quit, Fault, TypeOK
  <2> QED
    BY <1>11, <2>1 DEF Quit, TypeOK, Over, Early, Resolved, Working, manager, past, Goto, Steps
<1>12. ASSUME NEW r \in Runners, BoxEnds(r)  PROVE TypeOK'
  BY <1>12 DEF BoxEnds, TypeOK, Over, Early, Resolved, Working, manager, shared, hist, past, Goto,
     Steps
<1>13. ASSUME NEW r \in Runners, Kill(r)  PROVE TypeOK'
  BY <1>13 DEF Kill, TypeOK, Over, Early, Resolved, Working, manager, shared, hist, past, Goto,
     Steps
<1>14. ASSUME NEW r \in Runners, NEW id \in Targets, Launch(r, id)  PROVE TypeOK'
  <2>1. pm' \in Managers /\ pm'.step = pm.step /\ pm'.ref = pm.ref /\ pm'.saw = pm.saw \ {r}
    BY <1>14 DEF Launch, TypeOK, Managers
  <2>2. ctx' \in [Runners -> Contexts]
    BY <1>14 DEF Launch, TypeOK, Contexts
  <2> QED
    BY <1>14, <2>1, <2>2 DEF Launch, TypeOK, Over, Early, Resolved, Working, Goto
<1>15. ASSUME NEW why \in {"replace", "uninstall", "deferred"}, NEW ref \in Removable, PmLock(why, ref)
       PROVE  TypeOK'
  <2>1. pm' \in Managers /\ pm'.ref \in Refs /\ pm'.saw = {}
    BY <1>15, RemovableAssumption DEF PmLock, Idle, Managers, MaybeRef
  <2> QED
    BY <1>15, <2>1 DEF PmLock, TypeOK, shared, hist, past
<1>16. ASSUME PmCheck  PROVE TypeOK'
  <2>1. pm' \in Managers /\ (pm'.step # "idle" => pm'.ref \in Refs) /\ (pm'.step # "remove" => pm'.saw = {})
    <3>1. CASE pm' = Idle
      BY <3>1 DEF Idle, Managers, MaybeRef
    <3>2. CASE pm' = [pm EXCEPT !.step = "remove", !.saw = {r \in files : Alive(r)}]
      BY <1>16, <3>2 DEF PmCheck, TypeOK, Managers
    <3> QED  BY <1>16, <3>1, <3>2 DEF PmCheck
  <2>2. layers' \in [Refs -> {"none", "live", "hidden"}] /\ lock' \in BOOLEAN
    BY <1>16 DEF PmCheck, TypeOK
  <2> QED
    BY <1>16, <2>1, <2>2 DEF PmCheck, TypeOK, shared, hist, past
<1>17. ASSUME PmRemove  PROVE TypeOK'
  <2>1. pm' \in Managers /\ pm'.step = "idle" /\ pm'.saw = {}
    BY <1>17 DEF PmRemove, Idle, Managers, MaybeRef
  <2>2. late' \subseteq Runners
    BY <1>17 DEF PmRemove, TypeOK, Overtaken
  <2> QED
    BY <1>17, <2>1, <2>2 DEF PmRemove, TypeOK, shared
<1>18. ASSUME UNCHANGED vars  PROVE TypeOK'
  BY <1>18 DEF vars, TypeOK, Over, Early, Resolved, Working, manager, shared, hist, past, Goto,
     Steps
<1>19. ASSUME NEW ref \in Removable, PmInstall(ref)  PROVE TypeOK'
  <2>1. pm' \in Managers /\ pm'.ref \in Refs /\ pm'.saw = {}
    BY <1>19, RemovableAssumption DEF PmInstall, Idle, Managers, MaybeRef
  <2>2. pm'.step = "remove" /\ layers' \in [Refs -> {"none", "live", "hidden"}]
    BY <1>19 DEF PmInstall, Idle, TypeOK
  <2> QED
    BY <1>19, <2>1, <2>2 DEF PmInstall, TypeOK, shared, hist, past
<1>20. ASSUME PmInstalled  PROVE TypeOK'
  <2>1. pm' \in Managers /\ pm'.step = "idle" /\ pm'.saw = {}
    BY <1>20 DEF PmInstalled, Idle, Managers, MaybeRef
  <2> QED
    BY <1>20, <2>1 DEF PmInstalled, TypeOK, shared, hist, past
<1>21. ASSUME PmPrune  PROVE TypeOK'
  <2>1. late' \subseteq Runners /\ layers' \in [Refs -> {"none", "live", "hidden"}]
    BY <1>21 DEF PmPrune, TypeOK, Overtaken
  <2> QED
    BY <1>21, <2>1 DEF PmPrune, TypeOK, shared
<1> QED
  BY <1>1, <1>2, <1>3, <1>4, <1>5, <1>6, <1>7, <1>8, <1>9, <1>10, <1>11, <1>12,
     <1>13, <1>14, <1>15, <1>16, <1>17, <1>18, <1>19, <1>20,
     <1>21 DEF Next, RunnerStep

\* What was lost stays lost, but for the record of a process whose pid is taken again.
LEMMA LostStays ==
    ASSUME TypeOK, Next \/ UNCHANGED vars
    PROVE  \A q \in Runners : /\ Lost("record", q) => Lost("record", q)' \/ pc'[q] = "starting"
                              /\ Lost("bundle", q) => Lost("bundle", q)'
                              /\ Lost("file", q) => Lost("file", q)'
<1>1. ASSUME NEW r \in Runners, RunnerStep(r)  PROVE faults \subseteq faults'
  BY <1>1 DEF RunnerStep, LockCheck, LoadRepo, Placeholder, ResolveRun, LookForContainer, Delegate,
     FillContextCfg, DumpContainerInfo, RunContainer, Close, Quit, Dump, Fault, hist, past
<1>2. ASSUME NEW r \in Runners, NEW id \in Targets, Launch(r, id)
      PROVE  faults' = faults \ {<<"record", r>>} /\ pc'[r] = "starting"
  BY <1>2 DEF Launch, Goto, TypeOK
<1>3. ASSUME NEW r \in Runners, BoxEnds(r) \/ Kill(r)  PROVE faults' = faults
  BY <1>3 DEF BoxEnds, Kill, hist
<1>4. ASSUME NEW why, NEW ref, PmLock(why, ref) \/ PmInstall(ref)  PROVE faults' = faults
  BY <1>4 DEF PmLock, PmInstall, hist
<1>5. ASSUME PmCheck \/ PmRemove \/ PmInstalled \/ PmPrune \/ UNCHANGED vars  PROVE faults' = faults
  BY <1>5 DEF PmCheck, PmRemove, PmInstalled, PmPrune, hist, vars
<1>6. \/ faults \subseteq faults'
      \/ \E r \in Runners : faults' = faults \ {<<"record", r>>} /\ pc'[r] = "starting"
  BY <1>1, <1>2, <1>3, <1>4, <1>5 DEF Next
<1>7. CASE faults \subseteq faults'
  BY <1>7 DEF Lost
<1>8. ASSUME NEW r \in Runners, faults' = faults \ {<<"record", r>>}, pc'[r] = "starting"
      PROVE  \A q \in Runners : /\ Lost("record", q) => Lost("record", q)' \/ pc'[q] = "starting"
                                /\ Lost("bundle", q) => Lost("bundle", q)'
                                /\ Lost("file", q) => Lost("file", q)'
  BY <1>8 DEF Lost
<1> QED  BY <1>6, <1>7, <1>8

\* The state files follow the processes.
LEMMA FileStep ==
    ASSUME TypeOK, FileInv, Next \/ UNCHANGED vars
    PROVE  FileInv'
<1>0. \A q \in Runners : /\ Lost("record", q) => Lost("record", q)' \/ pc'[q] = "starting"
                         /\ Lost("bundle", q) => Lost("bundle", q)'
                         /\ Lost("file", q) => Lost("file", q)'
  BY LostStays
<1>1. ASSUME NEW r \in Runners, LockCheck(r)  PROVE FileInv'
  BY <1>0, <1>1 DEF LockCheck, TypeOK, FileInv, Alive, Over, Early, Resolved, Working, manager, shared,
     hist, past, Goto, Steps
<1>2. ASSUME NEW r \in Runners, LoadRepo(r)  PROVE FileInv'
  BY <1>0, <1>2 DEF LoadRepo, TypeOK, FileInv, Alive, Over, Early, Resolved, Working, manager, shared,
     hist, past, Goto, Steps
<1>3. ASSUME NEW r \in Runners, Placeholder(r)  PROVE FileInv'
  BY <1>0, <1>3 DEF Placeholder, TypeOK, FileInv, Alive, Over, Early, Resolved, Working, manager,
     shared, hist, past, Goto, Steps
<1>4. ASSUME NEW r \in Runners, ResolveRun(r)  PROVE FileInv'
  BY <1>0, <1>4 DEF ResolveRun, TypeOK, FileInv, Alive, Over, Early, Resolved, Working, manager, shared,
     hist, past, Goto, Steps
<1>5. ASSUME NEW r \in Runners, LookForContainer(r)  PROVE FileInv'
  <2>1. CASE UNCHANGED <<content, faults>>
    BY <1>0, <1>5, <2>1 DEF LookForContainer, TypeOK, FileInv, Alive, Over, Early, Resolved, Working,
       manager, shared, past, Goto, Steps
  <2>2. CASE Dump(r) /\ Goto(r, "delegating")
    <3>1. /\ \A q \in Runners \ {r} : content'[q] = content[q]
          /\ \/ content'[r] = <<StateInfo(r, ctx[r])>> /\ content'[r] # <<>>
             \/ content'[r] = <<>> /\ Lost("record", r)'
      BY <1>0, <1>5, <2>2, DumpFacts DEF LookForContainer, Resolved
    <3> HIDE DEF StateInfo
    <3> QED
      BY <1>0, <1>5, <2>2, <3>1 DEF LookForContainer, TypeOK, FileInv, Alive, Over, Early, Resolved, Working,
         manager, past, Goto
  <2> QED  BY <1>0, <1>5, <2>1, <2>2 DEF LookForContainer
<1>6. ASSUME NEW r \in Runners, Delegate(r)  PROVE FileInv'
  BY <1>0, <1>6 DEF Delegate, TypeOK, FileInv, Alive, Over, Early, Resolved, Working, manager, shared,
     hist, past, Goto, Steps
<1>7. ASSUME NEW r \in Runners, FillContextCfg(r)  PROVE FileInv'
  BY <1>0, <1>7 DEF FillContextCfg, TypeOK, FileInv, Alive, Over, Early, Resolved, Working, manager,
     shared, hist, past, Goto, Steps
<1>8. ASSUME NEW r \in Runners, DumpContainerInfo(r)  PROVE FileInv'
  <2>1. CASE UNCHANGED <<content, faults>> /\ Goto(r, "closing")
    BY <1>0, <1>8, <2>1 DEF DumpContainerInfo, TypeOK, FileInv, Alive, Over, Early, Resolved, Working,
       manager, shared, past, Goto, Steps
  <2>2. CASE Dump(r) /\ Goto(r, "dumped")
    <3>1. /\ \A q \in Runners \ {r} : content'[q] = content[q]
          /\ \/ content'[r] = <<StateInfo(r, ctx[r])>> /\ content'[r] # <<>>
             \/ content'[r] = <<>> /\ Lost("record", r)'
      BY <1>0, <1>8, <2>2, DumpFacts DEF DumpContainerInfo, Resolved
    <3> HIDE DEF StateInfo
    <3> QED
      BY <1>0, <1>8, <2>2, <3>1 DEF DumpContainerInfo, TypeOK, FileInv, Alive, Over, Early, Resolved, Working,
         manager, past, Goto
  <2> QED  BY <1>0, <1>8, <2>1, <2>2 DEF DumpContainerInfo
<1>9. ASSUME NEW r \in Runners, RunContainer(r)  PROVE FileInv'
  BY <1>0, <1>9 DEF RunContainer, TypeOK, FileInv, Alive, Over, Early, Resolved, Working, manager,
     shared, hist, past, Goto, Steps
<1>10. ASSUME NEW r \in Runners, Close(r)  PROVE FileInv'
  BY <1>0, <1>10 DEF Close, TypeOK, FileInv, Alive, Over, Early, Resolved, Working, manager, shared,
     hist, past, Goto, Steps
<1>11. ASSUME NEW r \in Runners, Quit(r)  PROVE FileInv'
  BY <1>0, <1>11 DEF Quit, TypeOK, FileInv, Alive, Over, Early, Resolved, Working, manager, shared,
     hist, past, Goto, Steps
<1>12. ASSUME NEW r \in Runners, BoxEnds(r)  PROVE FileInv'
  BY <1>0, <1>12 DEF BoxEnds, TypeOK, FileInv, Alive, Over, Early, Resolved, Working, manager, shared,
     hist, past, Goto, Steps
<1>13. ASSUME NEW r \in Runners, Kill(r)  PROVE FileInv'
  BY <1>0, <1>13 DEF Kill, TypeOK, FileInv, Alive, Over, Early, Resolved, Working, manager, shared,
     hist, past, Goto, Steps
<1>14. ASSUME NEW r \in Runners, NEW id \in Targets, Launch(r, id)  PROVE FileInv'
  <2>1. /\ pc'[r] = "starting" /\ ctx'[r] = Failed /\ ~ctx'[r].ok /\ box'[r] = "none"
        /\ \A q \in Runners \ {r} : pc'[q] = pc[q] /\ ctx'[q] = ctx[q] /\ box'[q] = box[q]
        /\ files' = files /\ content' = content /\ killed' = killed
    BY <1>0, <1>14 DEF Launch, Goto, TypeOK, Failed
  <2> HIDE DEF Failed
  <2> QED
    BY <1>0, <1>14, <2>1 DEF FileInv, Alive, Over, Early, Resolved, Working
<1>15. ASSUME NEW why \in {"replace", "uninstall", "deferred"}, NEW ref \in Removable, PmLock(why, ref)
       PROVE  FileInv'
  BY <1>0, <1>15 DEF PmLock, TypeOK, FileInv, Alive, Over, Early, Resolved, Working, manager, shared,
     hist, past, Goto, Steps
<1>16. ASSUME PmCheck  PROVE FileInv'
  BY <1>0, <1>16 DEF PmCheck, TypeOK, FileInv, Alive, Over, Early, Resolved, Working, manager, shared,
     hist, past, Goto, Steps
<1>17. ASSUME PmRemove  PROVE FileInv'
  BY <1>0, <1>17 DEF PmRemove, TypeOK, FileInv, Alive, Over, Early, Resolved, Working, manager, shared,
     hist, past, Goto, Steps
<1>18. ASSUME UNCHANGED vars  PROVE FileInv'
  BY <1>0, <1>18 DEF vars, TypeOK, FileInv, Alive, Over, Early, Resolved, Working, manager, shared,
     hist, past, Goto, Steps
<1>19. ASSUME NEW ref \in Removable, PmInstall(ref)  PROVE FileInv'
  BY <1>0, <1>19 DEF PmInstall, TypeOK, FileInv, Alive, Over, Early, Resolved, Working, manager, shared,
     hist, past
<1>20. ASSUME PmInstalled  PROVE FileInv'
  BY <1>0, <1>20 DEF PmInstalled, TypeOK, FileInv, Alive, Over, Early, Resolved, Working, manager,
     shared, hist, past
<1>21. ASSUME PmPrune  PROVE FileInv'
  BY <1>0, <1>21 DEF PmPrune, TypeOK, FileInv, Alive, Over, Early, Resolved, Working, manager, shared,
     hist, past
<1> QED
  BY <1>1, <1>2, <1>3, <1>4, <1>5, <1>6, <1>7, <1>8, <1>9, <1>10, <1>11, <1>12,
     <1>13, <1>14, <1>15, <1>16, <1>17, <1>18, <1>19, <1>20,
     <1>21 DEF Next, RunnerStep

\* Applications stay apart from what they need.
LEMMA KindStep ==
    ASSUME TypeOK, KindInv, Next \/ UNCHANGED vars
    PROVE  KindInv'
<1>1. ASSUME NEW r \in Runners, ResolveRun(r)  PROVE KindInv'
  <2>1. PICK c \in Contexts : /\ ctx' = [ctx EXCEPT ![r] = c]
                              /\ c.ok => \A x \in Mounted(c) \ {c.app} : Info[x].kind # "app"
    BY <1>1, ResolveRunFacts
  <2>2. layers' = layers /\ pm' = pm
    BY <1>1 DEF ResolveRun, manager
  <2>3. ctx'[r] = c /\ \A q \in Runners \ {r} : ctx'[q] = ctx[q]
    BY <2>1 DEF TypeOK
  <2> HIDE DEF Mounted
  <2> QED  BY <2>1, <2>2, <2>3 DEF KindInv
<1>2. ASSUME NEW r \in Runners, NEW id \in Targets, Launch(r, id)  PROVE KindInv'
  <2>1. layers' = layers /\ pm'.step = pm.step /\ pm'.why = pm.why /\ pm'.ref = pm.ref
    BY <1>2 DEF Launch, TypeOK, Managers
  <2>2. ~ctx'[r].ok /\ \A q \in Runners \ {r} : ctx'[q] = ctx[q]
    BY <1>2 DEF Launch, TypeOK, Failed
  <2> HIDE DEF Mounted
  <2> QED  BY <2>1, <2>2 DEF KindInv
<1>3. ASSUME NEW r \in Runners, RunnerStep(r), ~ResolveRun(r)
      PROVE  layers' = layers /\ pm' = pm /\ ctx' = ctx
  BY <1>3 DEF RunnerStep, LockCheck, LoadRepo, Placeholder, LookForContainer, Delegate, FillContextCfg,
     DumpContainerInfo, RunContainer, Close, Quit, manager
<1>4. ASSUME NEW r \in Runners, BoxEnds(r) \/ Kill(r)  PROVE layers' = layers /\ pm' = pm /\ ctx' = ctx
  BY <1>4 DEF BoxEnds, Kill, manager
<1>5. ASSUME UNCHANGED vars  PROVE layers' = layers /\ pm' = pm /\ ctx' = ctx
  BY <1>5 DEF vars
<1>6. ASSUME layers' = layers, pm' = pm, ctx' = ctx  PROVE KindInv'
  BY <1>6 DEF KindInv
<1>7. ASSUME NEW why \in {"replace", "uninstall", "deferred"}, NEW ref \in Removable, PmLock(why, ref)
      PROVE  KindInv'
  <2>1. ref \in Refs /\ layers' = layers /\ ctx' = ctx /\ pm'.why = why /\ pm'.ref = ref
    BY <1>7, RemovableAssumption DEF PmLock, Idle
  <2>2. why \in {"replace", "deferred"} => Info[ref].kind = "app"
    BY <1>7, <2>1 DEF PmLock, KindInv
  <2> QED  BY <2>1, <2>2 DEF KindInv
<1>8. ASSUME PmCheck  PROVE KindInv'
  <2>1. /\ ctx' = ctx
        /\ \/ pm' = Idle
           \/ pm' = [pm EXCEPT !.step = "remove", !.saw = {r \in files : Alive(r)}]
    BY <1>8 DEF PmCheck
  <2>5. pm'.step # "idle" => pm'.why = pm.why /\ pm'.ref = pm.ref
    <3>1. CASE pm' = Idle
      BY <3>1 DEF Idle
    <3>2. CASE pm' = [pm EXCEPT !.step = "remove", !.saw = {r \in files : Alive(r)}]
      BY <3>2 DEF TypeOK, Managers
    <3> QED  BY <2>1, <3>1, <3>2
  <2>2. \/ layers' = layers
        \/ pm.why = "replace" /\ layers' = [layers EXCEPT ![pm.ref] = "hidden"]
    BY <1>8 DEF PmCheck
  <2>3. pm.step # "idle" /\ pm.ref \in Refs
    BY <1>8 DEF PmCheck, TypeOK
  <2>4. \A x \in Refs : layers'[x] = "hidden" => Info[x].kind = "app"
    BY <2>2, <2>3 DEF KindInv, TypeOK
  <2> QED  BY <2>1, <2>3, <2>4, <2>5 DEF KindInv
<1>9. ASSUME PmRemove  PROVE KindInv'
  BY <1>9 DEF PmRemove, Idle, TypeOK, KindInv
<1>10. ASSUME NEW ref \in Removable, PmInstall(ref)  PROVE KindInv'
  BY <1>10 DEF PmInstall, Idle, TypeOK, KindInv
<1>11. ASSUME PmInstalled  PROVE KindInv'
  BY <1>11 DEF PmInstalled, Idle, KindInv
<1>12. ASSUME PmPrune  PROVE KindInv'
  BY <1>12 DEF PmPrune, TypeOK, KindInv
<1> QED
  BY <1>1, <1>2, <1>3, <1>4, <1>5, <1>6, <1>7, <1>8, <1>9, <1>10, <1>11, <1>12 DEF Next

\* A step of a process that lives, and that neither chooses layers nor loses its file.
LEMMA SeenFrame ==
    ASSUME TypeOK, SeenInv, NEW r \in Runners, NEW s, s # "placed", Alive(r),
           pm' = pm, ctx' = ctx, files \subseteq files', pc' = [pc EXCEPT ![r] = s]
    PROVE  SeenInv'
<1> SUFFICES ASSUME pm.step = "remove", NEW q \in pm.saw, Alive(q)'
             PROVE  q \in files' /\ pc'[q] # "placed" /\ (ctx'[q].ok => pm.ref \notin Mounted(ctx'[q]))
  BY DEF SeenInv
<1>1. q \in Runners
  BY DEF TypeOK, Managers
<1>2. Alive(q) /\ (q # r => pc'[q] = pc[q]) /\ (q = r => pc'[q] = s)
  BY <1>1 DEF Alive, TypeOK
<1> QED  BY <1>1, <1>2 DEF SeenInv

\* What the package manager saw stays true until it removes the layer.
LEMMA SeenStep ==
    ASSUME TypeOK, FileInv, KindInv, SeenInv, Next \/ UNCHANGED vars
    PROVE  SeenInv'
<1>1. ASSUME NEW r \in Runners, LockCheck(r)  PROVE SeenInv'
  BY <1>1, SeenFrame DEF LockCheck, FileInv, Over, Working, Resolved, Alive, manager, shared,
     hist, past, Goto, Steps
<1>2. ASSUME NEW r \in Runners, LoadRepo(r)  PROVE SeenInv'
  BY <1>2, SeenFrame DEF LoadRepo, FileInv, Over, Working, Resolved, Alive, manager, shared, hist,
     past,
     Goto, Steps
<1>3. ASSUME NEW r \in Runners, Placeholder(r)  PROVE SeenInv'
  <2>1. CASE r \in files
    BY <1>3, <2>1, SeenFrame DEF Placeholder, Alive, Over, manager, shared, hist, past, Goto, Steps
  <2>2. CASE r \notin files
    <3>1. pm.step = "remove" => r \notin pm.saw
      BY <1>3, <2>2 DEF Placeholder, SeenInv, Alive, Over
    <3>2. /\ pm' = pm /\ ctx' = ctx /\ files \subseteq files'
          /\ pc' = [pc EXCEPT ![r] = "placed"]
      BY <1>3, <2>2 DEF Placeholder, Goto, manager
    <3> HIDE DEF Mounted
    <3> QED  BY <3>1, <3>2 DEF SeenInv, Alive, TypeOK, Managers
  <2> QED  BY <2>1, <2>2
<1>4. ASSUME NEW r \in Runners, ResolveRun(r)  PROVE SeenInv'
  <2>1. pm.step = "remove" => r \notin pm.saw
    BY <1>4 DEF ResolveRun, SeenInv, Alive, Over
  <2>2. pm' = pm /\ files' = files /\ \A q \in Runners \ {r} : pc'[q] = pc[q] /\ ctx'[q] = ctx[q]
    <3>1. pc' = [pc EXCEPT ![r] = pc'[r]] /\ ctx' = [ctx EXCEPT ![r] = ctx'[r]]
      BY <1>4, ResolveRunFacts DEF TypeOK
    <3> QED  BY <1>4, <3>1 DEF ResolveRun, TypeOK, manager, shared
  <2> HIDE DEF Mounted
  <2> QED  BY <2>1, <2>2 DEF SeenInv, Alive, TypeOK, Managers
<1>5. ASSUME NEW r \in Runners, LookForContainer(r)  PROVE SeenInv'
  BY <1>5, SeenFrame DEF LookForContainer, FileInv, Over, Working, Resolved, Alive, manager,
     shared, hist, past, Goto, Steps
<1>6. ASSUME NEW r \in Runners, Delegate(r)  PROVE SeenInv'
  BY <1>6, SeenFrame DEF Delegate, FileInv, Over, Working, Resolved, Alive, manager, shared, hist,
     past,
     Goto, Steps
<1>7. ASSUME NEW r \in Runners, FillContextCfg(r)  PROVE SeenInv'
  BY <1>7, SeenFrame DEF FillContextCfg, FileInv, Over, Working, Resolved, Alive, manager, shared,
     hist, past, Goto, Steps
<1>8. ASSUME NEW r \in Runners, DumpContainerInfo(r)  PROVE SeenInv'
  BY <1>8, SeenFrame DEF DumpContainerInfo, FileInv, Over, Working, Resolved, Alive, manager,
     shared, hist, past, Goto, Steps
<1>9. ASSUME NEW r \in Runners, RunContainer(r)  PROVE SeenInv'
  BY <1>9, SeenFrame DEF RunContainer, FileInv, Over, Working, Resolved, Alive, manager, shared,
     hist, past, Goto, Steps
<1>10. ASSUME NEW r \in Runners, Close(r)  PROVE SeenInv'
  BY <1>10, SeenFrame DEF Close, FileInv, Over, Working, Resolved, Alive, manager, shared, hist,
     past,
     Goto, Steps
<1>11. ASSUME NEW r \in Runners, Quit(r)  PROVE SeenInv'
  BY <1>11 DEF Quit, TypeOK, FileInv, SeenInv, Alive, Over, Early, Resolved, Working, manager,
     shared, hist, past, Goto, Steps
<1>12. ASSUME NEW r \in Runners, BoxEnds(r)  PROVE SeenInv'
  <2>1. CASE pc[r] = "running"
    BY <1>12, <2>1, SeenFrame DEF BoxEnds, Goto, Alive, Over, manager
  <2>2. CASE pc[r] # "running"
    BY <1>12, <2>2 DEF BoxEnds, SeenInv, Alive, manager
  <2> QED  BY <2>1, <2>2
<1>13. ASSUME NEW r \in Runners, Kill(r)  PROVE SeenInv'
  BY <1>13, SeenFrame DEF Kill, FileInv, Over, Working, Resolved, Alive, manager, shared, hist,
     past,
     Goto, Steps
<1>14. ASSUME NEW r \in Runners, NEW id \in Targets, Launch(r, id)  PROVE SeenInv'
  BY <1>14 DEF Launch, TypeOK, FileInv, SeenInv, Alive, Over, Early, Resolved, Working, manager,
     shared, hist, past, Goto, Steps
<1>15. ASSUME NEW why \in {"replace", "uninstall", "deferred"}, NEW ref \in Removable, PmLock(why, ref)
       PROVE  SeenInv'
  BY <1>15 DEF PmLock, TypeOK, FileInv, SeenInv, Alive, Over, Early, Resolved, Working, manager,
     shared, hist, past, Goto, Steps
<1>16. ASSUME PmCheck  PROVE SeenInv'
  <2> SUFFICES ASSUME pm'.step = "remove", NEW r \in pm'.saw, Alive(r)'
               PROVE  r \in files' /\ pc'[r] # "placed" /\ (ctx'[r].ok => pm'.ref \notin Mounted(ctx'[r]))
    BY DEF SeenInv
  <2>1. /\ pm' = [pm EXCEPT !.step = "remove", !.saw = {q \in files : Alive(q)}] /\ ~Unreadable
        /\ IF pm.why = "deferred" THEN ~RunsApp(pm.ref) ELSE ~Busy(pm.ref)
    BY <1>16 DEF PmCheck, Idle
  <2>2. pm'.ref = pm.ref /\ r \in files /\ Alive(r) /\ r \in Runners
    BY <2>1 DEF TypeOK, Managers
  <2>3. pc' = pc /\ ctx' = ctx /\ files' = files
    BY <1>16 DEF PmCheck, shared
  <2>4. content[r] # <<>>
    BY <2>1, <2>2 DEF Unreadable
  <2>5. ctx[r].ok => content[r] = <<StateInfo(r, ctx[r])>>
    BY <2>2, <2>4 DEF FileInv
  <2>6. ctx[r].ok => content[r][1].refs = Mounted(ctx[r]) /\ content[r][1].app = ctx[r].app
    BY <2>5 DEF StateInfo
  <2>7. ASSUME ctx[r].ok  PROVE pm.ref \notin Mounted(ctx[r])
    <3>1. CASE pm.why = "deferred"
      <4>1. pm.ref # ctx[r].app
        BY <2>1, <2>2, <2>4, <2>6, <2>7, <3>1 DEF RunsApp
      <4>2. Info[pm.ref].kind = "app"
        BY <1>16, <3>1 DEF PmCheck, KindInv
      <4> QED  BY <2>2, <2>7, <4>1, <4>2 DEF KindInv
    <3>2. CASE pm.why # "deferred"
      BY <2>1, <2>2, <2>4, <2>6, <2>7, <3>2 DEF Busy
    <3> QED  BY <3>1, <3>2
  <2> QED  BY <2>2, <2>3, <2>4, <2>7 DEF FileInv
<1>17. ASSUME PmRemove  PROVE SeenInv'
  BY <1>17 DEF PmRemove, SeenInv, Idle
<1>18. ASSUME UNCHANGED vars  PROVE SeenInv'
  BY <1>18 DEF vars, TypeOK, FileInv, SeenInv, Alive, Over, Early, Resolved, Working, manager,
     shared, hist, past, Goto, Steps
<1>19. ASSUME NEW ref \in Removable, PmInstall(ref)  PROVE SeenInv'
  BY <1>19 DEF PmInstall, Idle, SeenInv
<1>20. ASSUME PmInstalled  PROVE SeenInv'
  BY <1>20 DEF PmInstalled, Idle, SeenInv
<1>21. ASSUME PmPrune  PROVE SeenInv'
  BY <1>21 DEF PmPrune, SeenInv
<1> QED
  BY <1>1, <1>2, <1>3, <1>4, <1>5, <1>6, <1>7, <1>8, <1>9, <1>10, <1>11, <1>12,
     <1>13, <1>14, <1>15, <1>16, <1>17, <1>18, <1>19, <1>20,
     <1>21 DEF Next, RunnerStep

\* The list a process has loaded stays true, or a removal has overtaken it.
LEMMA ViewStep ==
    ASSUME TypeOK, FileInv, SeenInv, ViewInv, Next \/ UNCHANGED vars
    PROVE  ViewInv'
<1>1. ASSUME NEW r \in Runners, LockCheck(r)  PROVE ViewInv'
  BY <1>1 DEF LockCheck, TypeOK, FileInv, SeenInv, ViewInv, Dirs, Live, Alive, Over, Early,
     Resolved, Working, manager, shared, hist, past, Goto, Steps
<1>2. ASSUME NEW r \in Runners, LoadRepo(r)  PROVE ViewInv'
  BY <1>2 DEF LoadRepo, TypeOK, FileInv, SeenInv, ViewInv, Dirs, Live, Alive, Over, Early,
     Resolved, Working, manager, shared, hist, past, Goto, Steps
<1>3. ASSUME NEW r \in Runners, Placeholder(r)  PROVE ViewInv'
  BY <1>3 DEF Placeholder, TypeOK, FileInv, SeenInv, ViewInv, Dirs, Live, Alive, Over, Early,
     Resolved, Working, manager, shared, hist, past, Goto, Steps
<1>4. ASSUME NEW r \in Runners, ResolveRun(r)  PROVE ViewInv'
  <2>1. PICK c \in Contexts :
              /\ ctx' = [ctx EXCEPT ![r] = c]
              /\ \/ pc' = [pc EXCEPT ![r] = "killed"] \/ pc' = [pc EXCEPT ![r] = "closing"]
                 \/ /\ pc' = [pc EXCEPT ![r] = "resolved"]
                    /\ view[r] \subseteq Dirs => ~FillUndefined(c)
    BY <1>4, ResolveRunFacts
  <2>2. /\ \A q \in Runners \ {r} : pc'[q] = pc[q] /\ ctx'[q] = ctx[q]
        /\ ctx'[r] = c /\ pc'[r] \in {"killed", "closing", "resolved"}
        /\ pc'[r] = "resolved" /\ view[r] \subseteq Dirs => ~FillUndefined(c)
    BY <2>1 DEF TypeOK
  <2>3. pc[r] = "placed" /\ layers' = layers /\ view' = view /\ late' = late /\ files' = files
    BY <1>4 DEF ResolveRun, manager, shared
  <2>4. Dirs' = Dirs
    BY <2>3 DEF Dirs
  <2> HIDE DEF Dirs, FillUndefined
  <2> QED  BY <2>2, <2>3, <2>4 DEF ViewInv
<1>5. ASSUME NEW r \in Runners, LookForContainer(r)  PROVE ViewInv'
  BY <1>5 DEF LookForContainer, TypeOK, FileInv, SeenInv, ViewInv, Dirs, Live, Alive, Over, Early,
     Resolved, Working, manager, shared, hist, past, Goto, Steps
<1>6. ASSUME NEW r \in Runners, Delegate(r)  PROVE ViewInv'
  BY <1>6 DEF Delegate, TypeOK, FileInv, SeenInv, ViewInv, Dirs, Live, Alive, Over, Early,
     Resolved, Working, manager, shared, hist, past, Goto, Steps
<1>7. ASSUME NEW r \in Runners, FillContextCfg(r)  PROVE ViewInv'
  BY <1>7 DEF FillContextCfg, TypeOK, FileInv, SeenInv, ViewInv, Dirs, Live, Alive, Over, Early,
     Resolved, Working, manager, shared, hist, past, Goto, Steps
<1>8. ASSUME NEW r \in Runners, DumpContainerInfo(r)  PROVE ViewInv'
  BY <1>8 DEF DumpContainerInfo, TypeOK, FileInv, SeenInv, ViewInv, Dirs, Live, Alive, Over,
     Early, Resolved, Working, manager, shared, hist, past, Goto, Steps
<1>9. ASSUME NEW r \in Runners, RunContainer(r)  PROVE ViewInv'
  BY <1>9 DEF RunContainer, TypeOK, FileInv, SeenInv, ViewInv, Dirs, Live, Alive, Over, Early,
     Resolved, Working, manager, shared, hist, past, Goto, Steps
<1>10. ASSUME NEW r \in Runners, Close(r)  PROVE ViewInv'
  BY <1>10 DEF Close, TypeOK, FileInv, SeenInv, ViewInv, Dirs, Live, Alive, Over, Early, Resolved,
     Working, manager, shared, hist, past, Goto, Steps
<1>11. ASSUME NEW r \in Runners, Quit(r)  PROVE ViewInv'
  BY <1>11 DEF Quit, TypeOK, FileInv, SeenInv, ViewInv, Dirs, Live, Alive, Over, Early, Resolved,
     Working, manager, shared, hist, past, Goto, Steps
<1>12. ASSUME NEW r \in Runners, BoxEnds(r)  PROVE ViewInv'
  BY <1>12 DEF BoxEnds, TypeOK, FileInv, SeenInv, ViewInv, Dirs, Live, Alive, Over, Early,
     Resolved, Working, manager, shared, hist, past, Goto, Steps
<1>13. ASSUME NEW r \in Runners, Kill(r)  PROVE ViewInv'
  BY <1>13 DEF Kill, TypeOK, FileInv, SeenInv, ViewInv, Dirs, Live, Alive, Over, Early, Resolved,
     Working, manager, shared, hist, past, Goto, Steps
<1>14. ASSUME NEW r \in Runners, NEW id \in Targets, Launch(r, id)  PROVE ViewInv'
  BY <1>14 DEF Launch, TypeOK, FileInv, SeenInv, ViewInv, Dirs, Live, Alive, Over, Early,
     Resolved, Working, manager, shared, hist, past, Goto, Steps
<1>15. ASSUME NEW why \in {"replace", "uninstall", "deferred"}, NEW ref \in Removable, PmLock(why, ref)
       PROVE  ViewInv'
  BY <1>15 DEF PmLock, TypeOK, FileInv, SeenInv, ViewInv, Dirs, Live, Alive, Over, Early,
     Resolved, Working, manager, shared, hist, past, Goto, Steps
<1>16. ASSUME PmCheck  PROVE ViewInv'
  BY <1>16 DEF PmCheck, TypeOK, FileInv, SeenInv, ViewInv, Dirs, Live, Alive, Over, Early,
     Resolved, Working, manager, shared, hist, past, Goto, Steps
<1>17. ASSUME PmRemove  PROVE ViewInv'
  <2>1. late' = late \cup Overtaken({pm.ref}) /\ layers' = [layers EXCEPT ![pm.ref] = "none"]
    BY <1>17 DEF PmRemove
  <2>2. pm.step = "remove" /\ pc' = pc /\ view' = view /\ ctx' = ctx /\ files' = files
    BY <1>17 DEF PmRemove, shared
  <2>3. ASSUME NEW r \in Runners \ late', pc[r] = "placed" \/ (pc[r] = "loaded" /\ r \notin files)
        PROVE  FALSE
    <3>1. Alive(r) /\ ctx[r] = Failed
      BY <2>3 DEF FileInv, Alive, Over, Early
    <3>0. ~ctx[r].ok
      BY <3>1 DEF Failed
    <3>2. r \in pm.saw
      BY <2>1, <2>3, <3>0, <3>1 DEF Overtaken
    <3> QED  BY <2>2, <2>3, <3>1, <3>2 DEF SeenInv
  <2> QED  BY <2>1, <2>2, <2>3 DEF ViewInv
<1>18. ASSUME UNCHANGED vars  PROVE ViewInv'
  BY <1>18 DEF vars, TypeOK, FileInv, SeenInv, ViewInv, Dirs, Live, Alive, Over, Early, Resolved,
     Working, manager, shared, hist, past, Goto, Steps
<1>19. ASSUME NEW ref \in Removable, PmInstall(ref)  PROVE ViewInv'
  BY <1>19 DEF PmInstall, TypeOK, FileInv, ViewInv, Dirs, manager, shared, hist, past
<1>20. ASSUME PmInstalled  PROVE ViewInv'
  BY <1>20 DEF PmInstalled, TypeOK, FileInv, ViewInv, Dirs, manager, shared, hist, past
<1>21. ASSUME PmPrune  PROVE ViewInv'
  <2>1. late' = late \cup Overtaken(Unused) /\ pm.saw = {}
    BY <1>21 DEF PmPrune, TypeOK
  <2>2. pc' = pc /\ view' = view /\ ctx' = ctx /\ files' = files
    BY <1>21 DEF PmPrune, shared
  <2>3. ASSUME NEW r \in Runners \ late', pc[r] = "placed" \/ (pc[r] = "loaded" /\ r \notin files)
        PROVE  FALSE
    <3>1. Alive(r) /\ ctx[r] = Failed
      BY <2>3 DEF FileInv, Alive, Over, Early
    <3>0. ~ctx[r].ok
      BY <3>1 DEF Failed
    <3> QED  BY <2>1, <2>3, <3>0, <3>1 DEF Overtaken
  <2> QED  BY <2>1, <2>2, <2>3 DEF ViewInv
<1> QED
  BY <1>1, <1>2, <1>3, <1>4, <1>5, <1>6, <1>7, <1>8, <1>9, <1>10, <1>11, <1>12,
     <1>13, <1>14, <1>15, <1>16, <1>17, <1>18, <1>19, <1>20,
     <1>21 DEF Next, RunnerStep

\* Layers stay under the containers that run.
LEMMA KeptStep ==
    ASSUME TypeOK, FileInv, SeenInv, ViewInv, KeptInv, Next \/ UNCHANGED vars
    PROVE  KeptInv'
<1>1. ASSUME NEW r \in Runners, LockCheck(r)  PROVE KeptInv'
  BY <1>1 DEF LockCheck, TypeOK, FileInv, SeenInv, ViewInv, KeptInv, Dirs, Alive, Over, Early,
     Resolved, Working, manager, shared, hist, past, Goto, Steps
<1>2. ASSUME NEW r \in Runners, LoadRepo(r)  PROVE KeptInv'
  BY <1>2 DEF LoadRepo, TypeOK, FileInv, SeenInv, ViewInv, KeptInv, Dirs, Alive, Over, Early,
     Resolved, Working, manager, shared, hist, past, Goto, Steps
<1>3. ASSUME NEW r \in Runners, Placeholder(r)  PROVE KeptInv'
  BY <1>3 DEF Placeholder, TypeOK, FileInv, SeenInv, ViewInv, KeptInv, Dirs, Alive, Over, Early,
     Resolved, Working, manager, shared, hist, past, Goto, Steps
<1>4. ASSUME NEW r \in Runners, ResolveRun(r)  PROVE KeptInv'
  <2>1. PICK c \in Contexts :
              /\ ctx' = [ctx EXCEPT ![r] = c]
              /\ \/ pc' = [pc EXCEPT ![r] = "killed"] /\ c.ok /\ c.app = None /\ crashed' = crashed \cup {r}
                 \/ pc' = [pc EXCEPT ![r] = "closing"] /\ crashed' = crashed
                 \/ pc' = [pc EXCEPT ![r] = "resolved"] /\ crashed' = crashed
    BY <1>4, ResolveRunFacts
  <2>2. /\ \A q \in Runners \ {r} : /\ pc'[q] = pc[q] /\ ctx'[q] = ctx[q]
                                    /\ q \in crashed' <=> q \in crashed
        /\ ctx'[r] = c /\ (pc'[r] = "killed" => c.ok /\ c.app = None)
    BY <2>1 DEF TypeOK
  <2>3. pc[r] = "placed" /\ layers' = layers /\ box' = box /\ late' = late /\ killed' = killed
    BY <1>4 DEF ResolveRun, manager, shared
  <2>4. Dirs' = Dirs
    BY <2>3 DEF Dirs
  <2>5. box[r] = "running" => r \in killed
    BY <2>3 DEF FileInv
  <2> HIDE DEF Dirs, Mounted
  <2> QED  BY <2>2, <2>3, <2>4, <2>5 DEF KeptInv
<1>5. ASSUME NEW r \in Runners, LookForContainer(r)  PROVE KeptInv'
  BY <1>5 DEF LookForContainer, TypeOK, FileInv, SeenInv, ViewInv, KeptInv, Dirs, Alive, Over,
     Early, Resolved, Working, manager, shared, hist, past, Goto, Steps
<1>6. ASSUME NEW r \in Runners, Delegate(r)  PROVE KeptInv'
  BY <1>6 DEF Delegate, TypeOK, FileInv, SeenInv, ViewInv, KeptInv, Dirs, Alive, Over, Early,
     Resolved, Working, manager, shared, hist, past, Goto, Steps
<1>7. ASSUME NEW r \in Runners, FillContextCfg(r)  PROVE KeptInv'
  BY <1>7 DEF FillContextCfg, TypeOK, FileInv, SeenInv, ViewInv, KeptInv, Dirs, Alive, Over,
     Early, Resolved, Working, manager, shared, hist, past, Goto, Steps
<1>8. ASSUME NEW r \in Runners, DumpContainerInfo(r)  PROVE KeptInv'
  BY <1>8 DEF DumpContainerInfo, TypeOK, FileInv, SeenInv, ViewInv, KeptInv, Dirs, Alive, Over,
     Early, Resolved, Working, manager, shared, hist, past, Goto, Steps
<1>9. ASSUME NEW r \in Runners, RunContainer(r)  PROVE KeptInv'
  BY <1>9 DEF RunContainer, TypeOK, FileInv, SeenInv, ViewInv, KeptInv, Dirs, Alive, Over, Early,
     Resolved, Working, manager, shared, hist, past, Goto, Steps
<1>10. ASSUME NEW r \in Runners, Close(r)  PROVE KeptInv'
  BY <1>10 DEF Close, TypeOK, FileInv, SeenInv, ViewInv, KeptInv, Dirs, Alive, Over, Early,
     Resolved, Working, manager, shared, hist, past, Goto, Steps
<1>11. ASSUME NEW r \in Runners, Quit(r)  PROVE KeptInv'
  BY <1>11 DEF Quit, TypeOK, FileInv, SeenInv, ViewInv, KeptInv, Dirs, Alive, Over, Early,
     Resolved, Working, manager, shared, hist, past, Goto, Steps
<1>12. ASSUME NEW r \in Runners, BoxEnds(r)  PROVE KeptInv'
  BY <1>12 DEF BoxEnds, TypeOK, FileInv, SeenInv, ViewInv, KeptInv, Dirs, Alive, Over, Early,
     Resolved, Working, manager, shared, hist, past, Goto, Steps
<1>13. ASSUME NEW r \in Runners, Kill(r)  PROVE KeptInv'
  BY <1>13 DEF Kill, TypeOK, FileInv, SeenInv, ViewInv, KeptInv, Dirs, Alive, Over, Early,
     Resolved, Working, manager, shared, hist, past, Goto, Steps
<1>14. ASSUME NEW r \in Runners, NEW id \in Targets, Launch(r, id)  PROVE KeptInv'
  BY <1>14 DEF Launch, TypeOK, FileInv, SeenInv, ViewInv, KeptInv, Dirs, Alive, Over, Early,
     Resolved, Working, manager, shared, hist, past, Goto, Steps
<1>15. ASSUME NEW why \in {"replace", "uninstall", "deferred"}, NEW ref \in Removable, PmLock(why, ref)
       PROVE  KeptInv'
  BY <1>15 DEF PmLock, TypeOK, FileInv, SeenInv, ViewInv, KeptInv, Dirs, Alive, Over, Early,
     Resolved, Working, manager, shared, hist, past, Goto, Steps
<1>16. ASSUME PmCheck  PROVE KeptInv'
  BY <1>16 DEF PmCheck, TypeOK, FileInv, SeenInv, ViewInv, KeptInv, Dirs, Alive, Over, Early,
     Resolved, Working, manager, shared, hist, past, Goto, Steps
<1>17. ASSUME PmRemove  PROVE KeptInv'
  <2>1. late' = late \cup Overtaken({pm.ref}) /\ layers' = [layers EXCEPT ![pm.ref] = "none"]
    BY <1>17 DEF PmRemove
  <2>2. /\ pm.step = "remove" /\ pc' = pc /\ ctx' = ctx /\ box' = box
        /\ killed' = killed /\ crashed' = crashed
    BY <1>17 DEF PmRemove, shared
  <2>3. ASSUME NEW r \in Runners \ (killed \cup late'), box[r] = "running"
        PROVE  Mounted(ctx[r]) \subseteq Dirs'
    <3>1. Alive(r) /\ ctx[r].ok /\ Mounted(ctx[r]) \subseteq Dirs
      BY <2>1, <2>3 DEF FileInv, KeptInv, Alive, Over, Resolved
    <3>2. pm.ref \notin Mounted(ctx[r])
      <4>1. CASE r \in pm.saw
        BY <2>2, <3>1, <4>1 DEF SeenInv
      <4>2. CASE r \notin pm.saw
        BY <2>1, <2>3, <3>1, <4>2 DEF Overtaken
      <4> QED  BY <4>1, <4>2
    <3> HIDE DEF Mounted
    <3> QED  BY <2>1, <3>1, <3>2 DEF Dirs, TypeOK
  <2> QED  BY <2>1, <2>2, <2>3 DEF KeptInv
<1>18. ASSUME UNCHANGED vars  PROVE KeptInv'
  BY <1>18 DEF vars, TypeOK, FileInv, SeenInv, ViewInv, KeptInv, Dirs, Alive, Over, Early,
     Resolved, Working, manager, shared, hist, past, Goto, Steps
<1>19. ASSUME NEW ref \in Removable, PmInstall(ref)  PROVE KeptInv'
  BY <1>19 DEF PmInstall, TypeOK, FileInv, KeptInv, Dirs, manager, shared, hist, past
<1>20. ASSUME PmInstalled  PROVE KeptInv'
  BY <1>20 DEF PmInstalled, TypeOK, FileInv, KeptInv, Dirs, manager, shared, hist, past
<1>21. ASSUME PmPrune  PROVE KeptInv'
  <2>1. /\ late' = late \cup Overtaken(Unused) /\ pm.saw = {}
        /\ layers' = [r \in Refs |-> IF r \in Unused THEN "none" ELSE layers[r]]
    BY <1>21 DEF PmPrune, TypeOK
  <2>2. pc' = pc /\ ctx' = ctx /\ box' = box /\ killed' = killed /\ crashed' = crashed
    BY <1>21 DEF PmPrune, shared
  <2>3. ASSUME NEW r \in Runners \ (killed \cup late'), box[r] = "running"
        PROVE  Mounted(ctx[r]) \subseteq Dirs'
    <3>1. Alive(r) /\ ctx[r].ok /\ Mounted(ctx[r]) \subseteq Dirs
      BY <2>1, <2>3 DEF FileInv, KeptInv, Alive, Over, Resolved
    <3>2. Unused \cap Mounted(ctx[r]) = {}
      BY <2>1, <2>3, <3>1 DEF Overtaken
    <3> HIDE DEF Mounted, Unused
    <3> QED  BY <2>1, <3>1, <3>2 DEF Dirs
  <2> QED  BY <2>1, <2>2, <2>3 DEF KeptInv
<1> QED
  BY <1>1, <1>2, <1>3, <1>4, <1>5, <1>6, <1>7, <1>8, <1>9, <1>10, <1>11, <1>12,
     <1>13, <1>14, <1>15, <1>16, <1>17, <1>18, <1>19, <1>20,
     <1>21 DEF Next, RunnerStep

\* Who was not killed leaves nothing.
LEMMA CleanStep ==
    ASSUME TypeOK, FileInv, CleanInv, Next \/ UNCHANGED vars
    PROVE  CleanInv'
<1>0. \A q \in Runners : /\ Lost("record", q) => Lost("record", q)' \/ pc'[q] = "starting"
                         /\ Lost("bundle", q) => Lost("bundle", q)'
                         /\ Lost("file", q) => Lost("file", q)'
  BY LostStays
<1>1. ASSUME NEW r \in Runners, LockCheck(r)  PROVE CleanInv'
  BY <1>0, <1>1 DEF LockCheck, TypeOK, FileInv, CleanInv, SocketAfter, Alive, Over, Early, Resolved,
     Working, Filled, manager, shared, hist, past, Goto, Steps
<1>2. ASSUME NEW r \in Runners, LoadRepo(r)  PROVE CleanInv'
  BY <1>0, <1>2 DEF LoadRepo, TypeOK, FileInv, CleanInv, SocketAfter, Alive, Over, Early, Resolved,
     Working, Filled, manager, shared, hist, past, Goto, Steps
<1>3. ASSUME NEW r \in Runners, Placeholder(r)  PROVE CleanInv'
  BY <1>0, <1>3 DEF Placeholder, TypeOK, FileInv, CleanInv, SocketAfter, Alive, Over, Early, Resolved,
     Working, Filled, manager, shared, hist, past, Goto, Steps
<1>4. ASSUME NEW r \in Runners, ResolveRun(r)  PROVE CleanInv'
  <2>1. /\ pc[r] = "placed"
        /\ UNCHANGED <<files, bundles, own, sock, killed>>
    BY <1>4 DEF ResolveRun, TypeOK, shared
  <2>2. \/ pc' = [pc EXCEPT ![r] = "killed"] /\ crashed' = crashed \cup {r}
        \/ pc' = [pc EXCEPT ![r] = "resolved"] /\ crashed' = crashed
        \/ pc' = [pc EXCEPT ![r] = "closing"] /\ crashed' = crashed
    BY <1>4, ResolveRunFacts
  <2>3. CASE pc' = [pc EXCEPT ![r] = "killed"] /\ crashed' = crashed \cup {r}
    BY <2>3 DEF CleanInv
  <2>4. ASSUME NEW s \in {"resolved", "closing"}, pc' = [pc EXCEPT ![r] = s], crashed' = crashed
        PROVE  CleanInv'
    BY <1>0, <2>1, <2>4 DEF CleanInv, Working, Resolved, Filled, TypeOK
  <2> QED  BY <2>2, <2>3, <2>4
<1>5. ASSUME NEW r \in Runners, LookForContainer(r)  PROVE CleanInv'
  BY <1>0, <1>5 DEF LookForContainer, TypeOK, FileInv, CleanInv, SocketAfter, Alive, Over, Early,
     Resolved, Working, Filled, manager, shared, hist, past, Goto, Steps
<1>6. ASSUME NEW r \in Runners, Delegate(r)  PROVE CleanInv'
  BY <1>0, <1>6 DEF Delegate, TypeOK, FileInv, CleanInv, SocketAfter, Alive, Over, Early, Resolved,
     Working, Filled, manager, shared, hist, past, Goto, Steps
<1>7. ASSUME NEW r \in Runners, FillContextCfg(r)  PROVE CleanInv'
  <2> SUFFICES ASSUME killed' \cup crashed' = {}
               PROVE  /\ \A q \in files' : pc'[q] \in Working \/ Lost("file", q)'
                      /\ \A q \in bundles' : pc'[q] \in Filled \/ Lost("bundle", q)'
                      /\ \A q \in own' : pc'[q] \in Filled
                      /\ sock' # None => sock' \in own'
    BY DEF CleanInv
  <2>1. /\ \A q \in files : pc[q] \in Working \/ Lost("file", q)
        /\ \A q \in bundles : pc[q] \in Filled \/ Lost("bundle", q)
        /\ \A q \in own : pc[q] \in Filled
        /\ sock # None => sock \in own
    BY <1>0, <1>7 DEF FillContextCfg, CleanInv
  <2>2. pc[r] = "alone" /\ files' = files
    BY <1>7 DEF FillContextCfg
  <2>3. PICK s \in {"closing", "filled"} :
          /\ pc' = [pc EXCEPT ![r] = s] /\ bundles' \subseteq bundles \cup {r}
          /\ \/ sock' \in {sock, None} /\ own' = own
             \/ sock' = r /\ own' = own \cup {r}
    BY <1>0, <1>7 DEF FillContextCfg, Goto
  <2> QED  BY <1>0, <2>1, <2>2, <2>3 DEF TypeOK, Working, Resolved, Filled
<1>8. ASSUME NEW r \in Runners, DumpContainerInfo(r)  PROVE CleanInv'
  BY <1>0, <1>8 DEF DumpContainerInfo, TypeOK, FileInv, CleanInv, SocketAfter, Alive, Over, Early,
     Resolved, Working, Filled, manager, shared, hist, past, Goto, Steps
<1>9. ASSUME NEW r \in Runners, RunContainer(r)  PROVE CleanInv'
  BY <1>0, <1>9 DEF RunContainer, TypeOK, FileInv, CleanInv, SocketAfter, Alive, Over, Early, Resolved,
     Working, Filled, manager, shared, hist, past, Goto, Steps
<1>10. ASSUME NEW r \in Runners, Close(r)  PROVE CleanInv'
  <2>1. r \in bundles' => Lost("bundle", r)'
    BY <1>10 DEF Close, Fault, Lost
  <2>2. bundles' \subseteq bundles
    BY <1>10 DEF Close
  <2> QED
    BY <1>0, <1>10, <2>1, <2>2 DEF Close, TypeOK, CleanInv, SocketAfter, Resolved, Working, Filled,
       manager, past, Goto, Steps
<1>11. ASSUME NEW r \in Runners, Quit(r)  PROVE CleanInv'
  <2>1. r \in files' => Lost("file", r)'
    BY <1>11 DEF Quit, Fault, Lost
  <2>2. files' \subseteq files
    BY <1>11 DEF Quit
  <2> QED
    BY <1>0, <1>11, <2>1, <2>2 DEF Quit, TypeOK, CleanInv, Resolved, Working, Filled, manager, past,
       Goto, Steps
<1>12. ASSUME NEW r \in Runners, BoxEnds(r)  PROVE CleanInv'
  BY <1>0, <1>12 DEF BoxEnds, TypeOK, FileInv, CleanInv, SocketAfter, Alive, Over, Early, Resolved,
     Working, Filled, manager, shared, hist, past, Goto, Steps
<1>13. ASSUME NEW r \in Runners, Kill(r)  PROVE CleanInv'
  BY <1>0, <1>13 DEF Kill, TypeOK, FileInv, CleanInv, SocketAfter, Alive, Over, Early, Resolved,
     Working, Filled, manager, shared, hist, past, Goto, Steps
<1>14. ASSUME NEW r \in Runners, NEW id \in Targets, Launch(r, id)  PROVE CleanInv'
  BY <1>0, <1>14 DEF Launch, TypeOK, FileInv, CleanInv, SocketAfter, Alive, Over, Early, Resolved,
     Working, Filled, manager, shared, hist, past, Goto, Steps
<1>15. ASSUME NEW why \in {"replace", "uninstall", "deferred"}, NEW ref \in Removable, PmLock(why, ref)
       PROVE  CleanInv'
  BY <1>0, <1>15 DEF PmLock, TypeOK, FileInv, CleanInv, SocketAfter, Alive, Over, Early, Resolved,
     Working, Filled, manager, shared, hist, past, Goto, Steps
<1>16. ASSUME PmCheck  PROVE CleanInv'
  BY <1>0, <1>16 DEF PmCheck, TypeOK, FileInv, CleanInv, SocketAfter, Alive, Over, Early, Resolved,
     Working, Filled, manager, shared, hist, past, Goto, Steps
<1>17. ASSUME PmRemove  PROVE CleanInv'
  BY <1>0, <1>17 DEF PmRemove, TypeOK, FileInv, CleanInv, SocketAfter, Alive, Over, Early, Resolved,
     Working, Filled, manager, shared, hist, past, Goto, Steps
<1>18. ASSUME UNCHANGED vars  PROVE CleanInv'
  BY <1>0, <1>18 DEF vars, TypeOK, FileInv, CleanInv, SocketAfter, Alive, Over, Early, Resolved,
     Working, Filled, manager, shared, hist, past, Goto, Steps
<1>19. ASSUME NEW ref \in Removable, PmInstall(ref)  PROVE CleanInv'
  BY <1>0, <1>19 DEF PmInstall, TypeOK, CleanInv, manager, shared, hist, past
<1>20. ASSUME PmInstalled  PROVE CleanInv'
  BY <1>0, <1>20 DEF PmInstalled, TypeOK, CleanInv, manager, shared, hist, past
<1>21. ASSUME PmPrune  PROVE CleanInv'
  BY <1>0, <1>21 DEF PmPrune, TypeOK, CleanInv, manager, shared, hist, past
<1> QED
  BY <1>1, <1>2, <1>3, <1>4, <1>5, <1>6, <1>7, <1>8, <1>9, <1>10, <1>11, <1>12,
     <1>13, <1>14, <1>15, <1>16, <1>17, <1>18, <1>19, <1>20,
     <1>21 DEF Next, RunnerStep

-----------------------------------------------------------------------------
\* The inductive invariant holds in every reachable state, whatever is launched, killed and
\* removed.
THEOREM Invariance == Spec => []IInv
<1>1. Init => IInv
  <2> SUFFICES ASSUME Init PROVE IInv
    OBVIOUS
  <2>1. TypeOK
    BY DEF Init, TypeOK, Idle, Managers, MaybeRef, Contexts, Over
  <2>2. FileInv /\ KindInv /\ SeenInv /\ ViewInv /\ KeptInv /\ CleanInv
    BY DEF Init, FileInv, KindInv, SeenInv, ViewInv, KeptInv, CleanInv, Idle, Alive, Over, Early,
       Resolved, Working, Failed
  <2> QED  BY <2>1, <2>2 DEF IInv
<1>2. IInv /\ [Next]_vars => IInv'
  BY TypeStep, FileStep, KindStep, SeenStep, ViewStep, KeptStep, CleanStep DEF IInv
<1> QED  BY <1>1, <1>2, PTL DEF Spec

\* Type correctness of `ll-cli run' and the package manager beside it.
THEOREM TypeCorrect == Spec => []TypeOK
<1>1. IInv => TypeOK
  BY DEF IInv
<1> QED  BY <1>1, Invariance, PTL

\* The placeholder, isRefBusy() and the look of deferredUninstall(): layers go away under a
\* container, or under a process that has its state file, only if ll-cli was killed, or if
\* whoever removed them did not look (Prune(), a rollback) or had looked before it came.
THEOREM LayersStay == Spec => []RunningLayersKept
<1>1. IInv => RunningLayersKept
  BY DEF IInv, KeptInv, SeenInv, RunningLayersKept
<1> QED  BY <1>1, Invariance, PTL

\* dumpContainerInfo() and the destructors: what runs is on record under its own pid if the
\* record could be written, and who was not killed leaves no socket, and no file or bundle
\* but one that could not be removed.
THEOREM RecordsAreTrue == Spec => []RecordsTrue
<1>1. IInv => RecordsTrue
  <2> SUFFICES ASSUME IInv PROVE RecordsTrue
    OBVIOUS
  <2>1. ASSUME NEW r \in Runners \ killed, box[r] = "running"
        PROVE  /\ Alive(r) /\ r \in files
               /\ <<"record", r>> \notin faults => content[r] = <<StateInfo(r, ctx[r])>>
    <3>1. /\ pc[r] = "running" /\ Alive(r) /\ r \in files /\ ctx[r].ok
          /\ <<"record", r>> \notin faults => content[r] # <<>>
      BY <2>1 DEF IInv, FileInv, Alive, Over, Working, Resolved, Lost
    <3> QED  BY <3>1 DEF IInv, FileInv
  <2>2. ASSUME killed \cup crashed = {}, \A r \in Runners : pc[r] \in {"idle", "ended"}
        PROVE  /\ \A r \in files : <<"file", r>> \in faults
               /\ \A r \in bundles : <<"bundle", r>> \in faults
               /\ sock = None
    BY <2>2 DEF IInv, CleanInv, TypeOK, Working, Resolved, Filled, Lost
  <2> QED  BY <2>1, <2>2 DEF RecordsTrue
<1> QED  BY <1>1, Invariance, PTL

---------------------------------------------------------------------------
(***************************************************************************)
(* Instances of a bundle that run on one machine (Uab), any number of them.  *)
(***************************************************************************)

\* The steps of a process before it has a loader, and those of the loader.
Loaderless == {"idle", "none", "verify", "waitfuse", "mounting", "serving", "failed",
               "flag", "run"}
UabSteps == Loaderless \cup {"wait", "clean", "unmounted", "rmdir", "gone"}

Loaders == [pc : {"none", "init", "box", "failed", "rmdir", "gone"}, mount : Instances \cup {"none"}]

UabTypeOK ==
    /\ rpc \in [Procs -> UabSteps] /\ created \in [Procs -> BOOLEAN]
    /\ mounted \in [Procs -> BOOLEAN] /\ handler \subseteq Procs \X {"once", "again"}
    /\ stack \in Seq(Instances) /\ extra \in Nat /\ early \subseteq Procs /\ held \subseteq Procs
    /\ loader \in [Procs -> Loaders]

\* The fork of an instance has mounted the bundle, at some time.
HadMount(p) == rpc[Fuse(p)] \notin {"none", "mounting", "failed"}

\* An instance forks once, and is past its waiting only if its fork has mounted the bundle,
\* or has failed, or a signal sent it on early; mountFlag is up from the mount to the unmount.
InstanceOf(p) ==
    /\ rpc[p] \notin {"none", "mounting", "serving", "failed"}
    /\ rpc[p] \in {"idle", "verify"} => rpc[Fuse(p)] = "none"
    /\ rpc[p] = "waitfuse" => rpc[Fuse(p)] # "none"
    /\ rpc[p] \in {"flag", "run", "wait"} \/ mounted[p] => HadMount(p)
    /\ rpc[Fuse(p)] = "mounting" => rpc[p] = "waitfuse" \/ p \in early
ProcessOf(p) ==
    /\ p[2] = "fuse" => rpc[p] \notin {"idle", "verify", "waitfuse"}
    /\ mounted[p] => rpc[p] \in {"run", "wait", "clean", "unmounted", "gone"}
    /\ rpc[p] \in {"run", "wait"} => mounted[p]
    /\ <<p, "again">> \in handler => rpc[p] \in {"clean", "unmounted", "rmdir", "gone"}
    /\ rpc[p] \in Loaderless => loader[p].pc = "none"
ControlInv == \A p \in Procs : (p[2] = "main" => InstanceOf(p)) /\ ProcessOf(p)

\* The instances that have a mount to take away, and will: one that was interrupted in
\* cleanResource() after its unmount takes another's.
ToUnmount(p) == rpc[p] \in {"waitfuse", "flag", "run", "wait"} \/ (rpc[p] = "clean" /\ mounted[p])
Holders == {p \in Procs : /\ p[2] = "main" /\ HadMount(p) /\ ToUnmount(p)
                          /\ <<p, "again">> \notin handler}
\* The instances that may have left a mount: those, and the ones that were stopped too early
\* or could not unmount.
Leavers == Holders \cup {p \in early \cup held : p[2] = "main" /\ HadMount(p)}

MountInv ==
    /\ Len(stack) + extra >= Cardinality(Holders)
    /\ Len(stack) <= Cardinality(Leavers)

UabInv == UabTypeOK /\ ControlInv /\ MountInv

\* Processes are told apart by instance and role.
LEMMA ProcessPairs ==
    /\ \A p \in Procs : /\ p[1] \in Instances /\ p[2] \in {"main", "fuse"}
                        /\ Fuse(p) \in Procs /\ Fuse(p)[1] = p[1] /\ Fuse(p)[2] = "fuse"
    /\ \A p, q \in Procs : p[1] = q[1] /\ p[2] = q[2] => p = q
BY DEF Procs, Fuse

\* There are finitely many.
LEMMA ProcessesFinite == IsFiniteSet(Procs)
<1>1. IsFiniteSet({"main"} \cup {"fuse"})
  BY FS_Singleton, FS_AddElement
<1>2. {"main"} \cup {"fuse"} = {"main", "fuse"}
  OBVIOUS
<1> QED
  BY <1>1, <1>2, FS_Product, InstancesAssumption DEF Procs

\* Of two sets of processes, the one with the other's members and at most one more, and the
\* one without a member of the other.
LEMMA OneMore ==
    ASSUME NEW S \in SUBSET Procs, NEW T \in SUBSET Procs, NEW x, T \subseteq S \cup {x}
    PROVE  /\ Cardinality(S) \in Nat /\ Cardinality(T) \in Nat
           /\ Cardinality(T) <= Cardinality(S) + 1
           /\ x \in S => Cardinality(T) <= Cardinality(S)
           /\ x \notin T => Cardinality(T) <= Cardinality(S)
           /\ x \in S /\ x \notin T => Cardinality(T) <= Cardinality(S) - 1
<1>1. IsFiniteSet(S) /\ IsFiniteSet(T)
  BY ProcessesFinite, FS_Subset
<1>2. Cardinality(S) \in Nat /\ Cardinality(T) \in Nat
  BY <1>1, FS_CardinalityType
<1>3. /\ IsFiniteSet(S \cup {x})
      /\ Cardinality(S \cup {x}) = IF x \in S THEN Cardinality(S) ELSE Cardinality(S) + 1
  BY <1>1, FS_AddElement
<1>4. Cardinality(T) <= Cardinality(S \cup {x})
  BY <1>3, FS_Subset
<1>5. CASE x \notin T
  <2>1. /\ IsFiniteSet(S \ {x})
        /\ Cardinality(S \ {x}) = IF x \in S THEN Cardinality(S) - 1 ELSE Cardinality(S)
    BY <1>1, FS_RemoveElement
  <2>2. T \subseteq S \ {x}
    BY <1>5
  <2>3. Cardinality(T) <= Cardinality(S \ {x})
    BY <2>1, <2>2, FS_Subset
  <2> QED
    BY <1>2, <1>5, <2>1, <2>3
<1>6. CASE x \in T
  BY <1>2, <1>3, <1>4, <1>6
<1> QED
  BY <1>5, <1>6

\* Before any instance has started, nothing is mounted.
LEMMA UabInitial == UabInit => UabInv
<1> SUFFICES ASSUME UabInit PROVE UabInv
  OBVIOUS
<1>1. UabTypeOK
  BY ProcessPairs DEF UabInit, UabTypeOK, UabSteps, Loaderless, Loaders, NoLoader
<1>2. ControlInv
  BY ProcessPairs DEF UabInit, ControlInv, InstanceOf, ProcessOf, HadMount, Loaderless, NoLoader
<1>3. Holders = {} /\ Leavers = {}
  BY ProcessPairs DEF UabInit, Holders, Leavers, HadMount
<1>4. MountInv
  BY <1>3, FS_EmptySet DEF UabInit, MountInv
<1> QED
  BY <1>1, <1>2, <1>4 DEF UabInv

\* The stack of mounts: one more on top, the top taken away.
LEMMA StackOfMounts ==
    ASSUME NEW s \in Seq(Instances), NEW i \in Instances
    PROVE  /\ Len(s) \in Nat /\ <<i>> \o s \in Seq(Instances) /\ Len(<<i>> \o s) = Len(s) + 1
           /\ s = <<>> => Len(s) = 0
           /\ s # <<>> => /\ Head(s) \in Instances /\ Tail(s) \in Seq(Instances)
                         /\ Len(s) >= 1 /\ Len(Tail(s)) = Len(s) - 1
OBVIOUS

\* A loader goes on to its next step.
LEMMA LoaderMoves ==
    ASSUME loader \in [Procs -> Loaders], NEW p \in Procs, NEW s \in {"box", "rmdir", "gone"}
    PROVE  [loader EXCEPT ![p].pc = s] \in [Procs -> Loaders]
BY DEF Loaders

\* Every step keeps the types ...
LEMMA UabTypeStep ==
    ASSUME UabTypeOK, UabNext PROVE UabTypeOK'
<1> PICK p \in Procs :
         \/ CreateMountPoint(p) \/ ForkFuse(p) \/ Mount(p) \/ FuseMounted(p) \/ Served(p)
         \/ MountSelf(p) \/ RunAppLoader(p) \/ ChildCleans(p) \/ ChildRemovesDir(p)
         \/ LoaderInit(p) \/ LoaderEnds(p) \/ LoaderWaited(p)
         \/ CleanResource(p) \/ ClearFlag(p) \/ RemoveDir(p) \/ Signal(p)
  BY DEF UabNext
<1> USE ProcessPairs DEF UabTypeOK, UabSteps, Loaderless, mountVars
<1>1. CASE ChildCleans(p)
  <2>1. loader' \in [Procs -> Loaders]
    <3>1. PICK s \in {"rmdir", "gone"} : loader' = [loader EXCEPT ![p].pc = s]
      BY <1>1 DEF ChildCleans
    <3> QED
      BY <3>1, LoaderMoves
  <2>2. Unmounted \in Seq(Instances)
    <3>1. <<>> \in Seq(Instances) /\ (stack # <<>> => Tail(stack) \in Seq(Instances))
      OBVIOUS
    <3> QED
      BY <3>1 DEF Unmounted
  <2>3. stack' \in Seq(Instances) /\ extra' \in Nat
    BY <1>1, <2>2 DEF ChildCleans
  <2> QED
    BY <1>1, <2>1, <2>3 DEF ChildCleans
<1>16. CASE ChildRemovesDir(p)
  <2>1. loader' \in [Procs -> Loaders]
    BY <1>16, LoaderMoves DEF ChildRemovesDir
  <2> QED
    BY <1>16, <2>1 DEF ChildRemovesDir
<1>2. CASE CreateMountPoint(p)
  BY <1>2 DEF CreateMountPoint
<1>3. CASE ForkFuse(p)
  <2>1. rpc' \in [Procs -> UabSteps]
    BY <1>3 DEF ForkFuse
  <2> QED
    BY <1>3, <2>1 DEF ForkFuse
<1>4. CASE Mount(p)
  <2>1. <<p[1]>> \o stack \in Seq(Instances)
    BY StackOfMounts
  <2>2. stack' \in Seq(Instances)
    BY <1>4, <2>1 DEF Mount
  <2> QED
    BY <1>4, <2>2 DEF Mount
<1>5. CASE FuseMounted(p)
  BY <1>5 DEF FuseMounted
<1>6. CASE Served(p)
  BY <1>6 DEF Served
<1>7. CASE MountSelf(p)
  BY <1>7 DEF MountSelf
<1>8. CASE RunAppLoader(p)
  <2>1. stack # <<>> => Head(stack) \in Instances
    OBVIOUS
  <2>2. rpc' \in [Procs -> UabSteps]
    BY <1>8 DEF RunAppLoader
  <2>3. loader' \in [Procs -> Loaders]
    <3>1. CASE loader' = [loader EXCEPT ![p] = [pc |-> "init", mount |-> Head(stack)]] /\ stack # <<>>
      <4>1. [pc |-> "init", mount |-> Head(stack)] \in Loaders
        BY <2>1, <3>1 DEF Loaders
      <4> QED
        BY <3>1, <4>1
    <3>2. CASE loader' = [loader EXCEPT ![p] = [pc |-> "failed", mount |-> "none"]]
      <4>1. [pc |-> "failed", mount |-> "none"] \in Loaders
        BY DEF Loaders
      <4> QED
        BY <3>2, <4>1
    <3>3. CASE loader' = loader
      BY <3>3
    <3> QED
      BY <1>8, <3>1, <3>2, <3>3 DEF RunAppLoader
  <2> QED
    BY <1>8, <2>2, <2>3 DEF RunAppLoader
<1>9. CASE LoaderInit(p)
  <2>1. loader' \in [Procs -> Loaders]
    <3>1. CASE loader' = [loader EXCEPT ![p].pc = "box"]
      BY <3>1, LoaderMoves
    <3>2. CASE loader' = [loader EXCEPT ![p].pc = "gone"]
      BY <3>2, LoaderMoves
    <3> QED
      BY <1>9, <3>1, <3>2 DEF LoaderInit
  <2> QED
    BY <1>9, <2>1 DEF LoaderInit
<1>10. CASE LoaderEnds(p)
  <2>1. loader' \in [Procs -> Loaders]
    BY <1>10, LoaderMoves DEF LoaderEnds
  <2> QED
    BY <1>10, <2>1 DEF LoaderEnds
<1>11. CASE LoaderWaited(p)
  BY <1>11 DEF LoaderWaited
<1>12. CASE CleanResource(p)
  <2>1. <<>> \in Seq(Instances) /\ (stack # <<>> => Tail(stack) \in Seq(Instances))
    OBVIOUS
  <2>2. stack' \in Seq(Instances)
    BY <1>12, <2>1 DEF CleanResource, Unmounted
  <2>3. extra' \in Nat /\ held' \subseteq Procs
    BY <1>12 DEF CleanResource
  <2>4. rpc' \in [Procs -> UabSteps]
    BY <1>12 DEF CleanResource
  <2> QED
    BY <1>12, <2>2, <2>3, <2>4 DEF CleanResource
<1>13. CASE ClearFlag(p)
  BY <1>13 DEF ClearFlag
<1>14. CASE RemoveDir(p)
  BY <1>14 DEF RemoveDir
<1>15. CASE Signal(p)
  BY <1>15 DEF Signal
<1> QED
  BY <1>1, <1>2, <1>3, <1>4, <1>5, <1>6, <1>7, <1>8, <1>9, <1>10, <1>11, <1>12, <1>13, <1>14, <1>15, <1>16

\* ... what is known of each instance and its fork ...
LEMMA ControlStep ==
    ASSUME UabTypeOK, ControlInv, UabNext PROVE ControlInv'
<1> PICK p \in Procs :
         \/ CreateMountPoint(p) \/ ForkFuse(p) \/ Mount(p) \/ FuseMounted(p) \/ Served(p)
         \/ MountSelf(p) \/ RunAppLoader(p) \/ ChildCleans(p) \/ ChildRemovesDir(p)
         \/ LoaderInit(p) \/ LoaderEnds(p) \/ LoaderWaited(p)
         \/ CleanResource(p) \/ ClearFlag(p) \/ RemoveDir(p) \/ Signal(p)
  BY DEF UabNext
<1> SUFFICES ASSUME NEW q \in Procs PROVE (q[2] = "main" => InstanceOf(q)') /\ ProcessOf(q)'
  BY DEF ControlInv
<1> /\ q[2] = "main" => InstanceOf(q) /\ ProcessOf(Fuse(q))
    /\ p[2] = "main" => InstanceOf(p) /\ ProcessOf(Fuse(p))
    /\ ProcessOf(q) /\ ProcessOf(p)
  BY ProcessPairs DEF ControlInv
<1> USE ProcessPairs DEF UabTypeOK, InstanceOf, ProcessOf, HadMount, UabSteps, Loaderless, Loaders,
                         mountVars
<1>1. CASE ChildCleans(p)
  <2>1. /\ UNCHANGED <<rpc, mounted, handler, early>> /\ loader[p].pc = "failed"
        /\ \E s \in {"rmdir", "gone"} : loader' = [loader EXCEPT ![p].pc = s]
    BY <1>1 DEF ChildCleans
  <2> QED
    BY <2>1
<1>16. CASE ChildRemovesDir(p)
  BY <1>16 DEF ChildRemovesDir
<1>2. CASE CreateMountPoint(p)
  BY <1>2 DEF CreateMountPoint
<1>3. CASE ForkFuse(p)
  <2>1. p[2] = "main" /\ rpc[p] = "verify" /\ UNCHANGED <<mounted, handler, early, loader>>
    BY <1>3 DEF ForkFuse
  <2>2. CASE rpc' = [rpc EXCEPT ![p] = "waitfuse", ![Fuse(p)] = "mounting"]
    <3>1. rpc'[p] = "waitfuse" /\ rpc'[Fuse(p)] = "mounting"
      BY <2>1, <2>2
    <3>2. CASE q = p
      BY <2>1, <3>1, <3>2
    <3>3. CASE q = Fuse(p)
      BY <2>1, <3>1, <3>3
    <3>4. CASE q # p /\ q # Fuse(p)
      <4>1. rpc'[q] = rpc[q] /\ (q[2] = "main" => rpc'[Fuse(q)] = rpc[Fuse(q)])
        BY <2>1, <2>2, <3>4
      <4> QED
        BY <2>1, <4>1
    <3> QED
      BY <3>2, <3>3, <3>4
  <2>3. CASE rpc' = [rpc EXCEPT ![p] = "clean"]
    BY <2>1, <2>3
  <2> QED
    BY <1>3, <2>2, <2>3 DEF ForkFuse
<1>4. CASE Mount(p)
  BY <1>4 DEF Mount
<1>5. CASE FuseMounted(p)
  BY <1>5 DEF FuseMounted
<1>6. CASE Served(p)
  BY <1>6 DEF Served
<1>7. CASE MountSelf(p)
  BY <1>7 DEF MountSelf
<1>8. CASE RunAppLoader(p)
  BY <1>8 DEF RunAppLoader
<1>9. CASE LoaderInit(p)
  BY <1>9 DEF LoaderInit
<1>10. CASE LoaderEnds(p)
  BY <1>10 DEF LoaderEnds
<1>11. CASE LoaderWaited(p)
  BY <1>11 DEF LoaderWaited
<1>12. CASE CleanResource(p)
  BY <1>12 DEF CleanResource, ToClean
<1>13. CASE ClearFlag(p)
  BY <1>13 DEF ClearFlag
<1>14. CASE RemoveDir(p)
  BY <1>14 DEF RemoveDir
<1>15. CASE Signal(p)
  BY <1>15 DEF Signal
<1> QED
  BY <1>1, <1>2, <1>3, <1>4, <1>5, <1>6, <1>7, <1>8, <1>9, <1>10, <1>11, <1>12, <1>13, <1>14, <1>15, <1>16

\* Where no mount is made or taken away, no instance may come to have one, or cease to be one
\* that may have left its own.
LEMMA CountsKept ==
    ASSUME UabTypeOK, UabTypeOK', MountInv, UNCHANGED <<stack, extra>>,
           Holders' \subseteq Holders, Leavers \subseteq Leavers'
    PROVE  MountInv'
<1>1. Holders \in SUBSET Procs /\ Leavers \in SUBSET Procs /\ Leavers' \in SUBSET Procs
  BY DEF Holders, Leavers, UabTypeOK
<1>2. IsFiniteSet(Holders) /\ IsFiniteSet(Leavers')
  BY <1>1, ProcessesFinite, FS_Subset
<1>3. Cardinality(Holders') <= Cardinality(Holders) /\ Cardinality(Leavers) <= Cardinality(Leavers')
  BY <1>2, FS_Subset
<1>4. /\ Cardinality(Holders) \in Nat /\ Cardinality(Holders') \in Nat
      /\ Cardinality(Leavers) \in Nat /\ Cardinality(Leavers') \in Nat
  BY <1>1, <1>2, FS_Subset, FS_CardinalityType
<1>5. Len(stack) \in Nat /\ extra \in Nat
  BY DEF UabTypeOK
<1>6. Cardinality(Holders)' = Cardinality(Holders') /\ Cardinality(Leavers)' = Cardinality(Leavers')
  OBVIOUS
<1> QED
  BY <1>3, <1>4, <1>5, <1>6 DEF MountInv

\* ... and the counts of mounts and of those who have to take one away.
LEMMA MountStep ==
    ASSUME UabTypeOK, UabTypeOK', ControlInv, MountInv, UabNext PROVE MountInv'
<1> PICK p \in Procs :
         \/ CreateMountPoint(p) \/ ForkFuse(p) \/ Mount(p) \/ FuseMounted(p) \/ Served(p)
         \/ MountSelf(p) \/ RunAppLoader(p) \/ ChildCleans(p) \/ ChildRemovesDir(p)
         \/ LoaderInit(p) \/ LoaderEnds(p) \/ LoaderWaited(p)
         \/ CleanResource(p) \/ ClearFlag(p) \/ RemoveDir(p) \/ Signal(p)
  BY DEF UabNext
<1>0. \A q \in Procs : /\ q[2] = "main" => InstanceOf(q) /\ ProcessOf(Fuse(q))
                       /\ ProcessOf(q)
  BY ProcessPairs DEF ControlInv
<1>a. /\ Holders \in SUBSET Procs /\ Holders' \in SUBSET Procs
      /\ Leavers \in SUBSET Procs /\ Leavers' \in SUBSET Procs
  BY DEF Holders, Leavers, UabTypeOK
<1>1. CASE ChildCleans(p)
  <2>1. UNCHANGED <<rpc, mounted, handler, early, held>>
    BY <1>1 DEF ChildCleans
  <2>2. Holders' = Holders /\ Leavers' = Leavers
    BY <2>1 DEF Holders, Leavers, HadMount, ToUnmount
  <2>3. /\ Cardinality(Holders) \in Nat /\ Cardinality(Leavers) \in Nat
        /\ Len(stack) \in Nat /\ extra \in Nat
    BY <1>a, OneMore DEF UabTypeOK
  <2>4. CASE UNCHANGED <<stack, extra>>
    BY <2>2, <2>4 DEF MountInv
  <2>5. CASE stack' = Unmounted /\ extra' = IF stack = <<>> THEN extra ELSE extra + 1
    <3>1. CASE stack = <<>>
      BY <2>2, <2>5, <3>1 DEF MountInv, Unmounted
    <3>2. CASE stack # <<>>
      <4>1. Len(stack') = Len(stack) - 1 /\ extra' = extra + 1
        BY <2>5, <3>2 DEF Unmounted, UabTypeOK
      <4> QED
        BY <2>2, <2>3, <4>1 DEF MountInv
    <3> QED
      BY <3>1, <3>2
  <2> QED
    BY <1>1, <2>4, <2>5 DEF ChildCleans
<1>16. CASE ChildRemovesDir(p)
  <2>1. UNCHANGED <<rpc, mounted, handler, early, held, stack, extra>>
    BY <1>16 DEF ChildRemovesDir
  <2>2. Holders' \subseteq Holders /\ Leavers \subseteq Leavers'
    BY <2>1 DEF Holders, Leavers, HadMount, ToUnmount
  <2> QED
    BY <2>1, <2>2, CountsKept
<1>2. CASE CreateMountPoint(p)
  <2>1. Holders' \subseteq Holders /\ Leavers \subseteq Leavers'
    BY <1>0, <1>2, ProcessPairs
       DEF CreateMountPoint, Holders, Leavers, HadMount, ToUnmount, UabTypeOK, InstanceOf, ProcessOf,
           mountVars
  <2> QED
    BY <1>2, <2>1, CountsKept DEF CreateMountPoint, mountVars
<1>3. CASE ForkFuse(p)
  <2>1. p[2] = "main" /\ rpc[p] = "verify" /\ rpc[Fuse(p)] = "none" /\ ~mounted[p]
    BY <1>0, <1>3, ProcessPairs DEF ForkFuse, InstanceOf, ProcessOf
  <2>2. ASSUME NEW q \in Procs, q[2] = "main"
        PROVE  /\ HadMount(q)' = HadMount(q)
               /\ q # p => ToUnmount(q)' = ToUnmount(q)
    <3>1. /\ rpc'[q] = rpc[q] \/ q = p
          /\ rpc'[Fuse(q)] = rpc[Fuse(q)] \/ (q = p /\ rpc'[Fuse(q)] = "mounting")
      <4>1. \/ rpc' = [rpc EXCEPT ![p] = "waitfuse", ![Fuse(p)] = "mounting"]
            \/ rpc' = [rpc EXCEPT ![p] = "clean"]
        BY <1>3 DEF ForkFuse
      <4>2. Fuse(q) # p /\ (q # p => Fuse(q) # Fuse(p)) /\ q # Fuse(p) /\ Fuse(p) # p
        BY <2>1, <2>2, ProcessPairs
      <4> QED
        BY <4>1, <4>2, ProcessPairs DEF UabTypeOK
    <3>2. mounted' = mounted
      BY <1>3 DEF ForkFuse
    <3> QED
      BY <2>1, <3>1, <3>2 DEF HadMount, ToUnmount
  <2>3. ~HadMount(p)
    BY <2>1 DEF HadMount
  <2>4. Holders' \subseteq Holders /\ Leavers \subseteq Leavers'
    BY <1>3, <2>2, <2>3 DEF ForkFuse, Holders, Leavers, UabTypeOK, mountVars
  <2> QED
    BY <1>3, <2>4, CountsKept DEF ForkFuse, mountVars
<1>4. CASE Mount(p)
  <2>1. CASE rpc' = [rpc EXCEPT ![p] = "failed"] /\ UNCHANGED stack
    <3>1. Holders' \subseteq Holders /\ Leavers \subseteq Leavers'
      BY <1>0, <1>4, <2>1, ProcessPairs
         DEF Mount, Holders, Leavers, HadMount, ToUnmount, UabTypeOK, ProcessOf
    <3> QED
      BY <1>4, <2>1, <3>1, CountsKept DEF Mount
  <2>2. CASE stack' = <<p[1]>> \o stack /\ rpc' = [rpc EXCEPT ![p] = "serving"]
    <3>1. p[2] = "fuse"
      BY <1>0, <1>4, ProcessPairs DEF Mount, InstanceOf
    <3> DEFINE m == <<p[1], "main">>
    <3>2. m \in Procs /\ m[1] = p[1] /\ m[2] = "main" /\ Fuse(m) = p
      BY <3>1 DEF Procs, Fuse
    <3> HIDE DEF m
    <3>3. Holders' \subseteq Holders \cup {m}
      BY <1>4, <2>2, <3>2, ProcessPairs DEF Mount, Holders, HadMount, ToUnmount, UabTypeOK
    <3>4. Leavers \subseteq Leavers' /\ m \in Leavers' /\ m \notin Leavers
      <4>1. UNCHANGED <<mounted, handler, early, held>>
        BY <1>4 DEF Mount
      <4>2. rpc[p] = "mounting" /\ rpc'[p] = "serving" /\ \A q \in Procs : q # p => rpc'[q] = rpc[q]
        BY <1>4, <2>2 DEF Mount, UabTypeOK
      <4>3. ~HadMount(m) /\ HadMount(m)'
        BY <3>2, <4>2 DEF HadMount
      <4>4. \A q \in Procs : q[2] = "main" => (HadMount(q) => HadMount(q)') /\ (ToUnmount(q)' = ToUnmount(q))
        BY <3>1, <4>1, <4>2, ProcessPairs DEF HadMount, ToUnmount
      <4>5. m \in early \/ (ToUnmount(m) /\ <<m, "again">> \notin handler)
        BY <1>0, <3>2, <4>2 DEF InstanceOf, ProcessOf, ToUnmount
      <4>6. m \in Leavers'
        BY <3>2, <4>1, <4>3, <4>4, <4>5 DEF Leavers, Holders
      <4>7. Leavers \subseteq Leavers' /\ m \notin Leavers
        BY <4>1, <4>3, <4>4 DEF Leavers, Holders, UabTypeOK
      <4> QED
        BY <4>6, <4>7
    <3>5. Len(stack') = Len(stack) + 1 /\ Len(stack) \in Nat /\ extra' = extra /\ extra \in Nat
      BY <1>4, <2>2, ProcessPairs, StackOfMounts DEF Mount, UabTypeOK
    <3>6. Cardinality(Holders') \in Nat /\ Cardinality(Holders) \in Nat
          /\ Cardinality(Holders') <= Cardinality(Holders) + 1
      BY <1>a, <3>3, OneMore
    <3>7. Cardinality(Leavers') \in Nat /\ Cardinality(Leavers) \in Nat
          /\ Cardinality(Leavers) <= Cardinality(Leavers') - 1
      BY <1>a, <3>4, OneMore
    <3> QED
      BY <3>5, <3>6, <3>7 DEF MountInv
  <2> QED
    BY <1>4, <2>1, <2>2 DEF Mount
<1>5. CASE FuseMounted(p)
  <2>1. Holders' \subseteq Holders /\ Leavers \subseteq Leavers'
    BY <1>0, <1>5, ProcessPairs
       DEF FuseMounted, Holders, Leavers, HadMount, ToUnmount, UabTypeOK, InstanceOf, ProcessOf,
           mountVars
  <2> QED
    BY <1>5, <2>1, CountsKept DEF FuseMounted, mountVars
<1>6. CASE Served(p)
  <2>1. Holders' \subseteq Holders /\ Leavers \subseteq Leavers'
    <3>1. ASSUME NEW q \in Procs, q[2] = "main"
          PROVE  (HadMount(q)' <=> HadMount(q)) /\ (ToUnmount(q)' <=> ToUnmount(q))
      <4>1. /\ rpc[p] = "serving" /\ rpc'[p] \in {"flag"} /\ mounted' = mounted
            /\ \A x \in Procs : x # p => rpc'[x] = rpc[x]
        BY <1>6 DEF Served, UabTypeOK
      <4>2. p[2] = "fuse"
        BY <1>0, <4>1, ProcessPairs DEF InstanceOf, ProcessOf
      <4>3. rpc'[Fuse(q)] = rpc[Fuse(q)] \/ Fuse(q) = p
        BY <3>1, <4>1, ProcessPairs
      <4>4. HadMount(q)' <=> HadMount(q)
        BY <4>1, <4>3 DEF HadMount
      <4>5. ToUnmount(q)' <=> ToUnmount(q)
        BY <3>1, <4>1, <4>2 DEF ToUnmount
      <4> QED
        BY <4>4, <4>5
    <3>2. UNCHANGED <<handler, early, held>>
      BY <1>6 DEF Served, mountVars
    <3> QED
      BY <3>1, <3>2 DEF Holders, Leavers, UabTypeOK
  <2> QED
    BY <1>6, <2>1, CountsKept DEF Served, mountVars
<1>7. CASE MountSelf(p)
  <2>1. Holders' \subseteq Holders /\ Leavers \subseteq Leavers'
    BY <1>0, <1>7, ProcessPairs
       DEF MountSelf, Holders, Leavers, HadMount, ToUnmount, UabTypeOK, InstanceOf, ProcessOf,
           mountVars
  <2> QED
    BY <1>7, <2>1, CountsKept DEF MountSelf, mountVars
<1>8. CASE RunAppLoader(p)
  <2>1. Holders' \subseteq Holders /\ Leavers \subseteq Leavers'
    <3>1. ASSUME NEW q \in Procs, q[2] = "main"
          PROVE  (HadMount(q)' <=> HadMount(q)) /\ (ToUnmount(q)' <=> ToUnmount(q))
      <4>1. /\ rpc[p] = "run" /\ rpc'[p] \in {"wait", "clean"} /\ mounted' = mounted
            /\ \A x \in Procs : x # p => rpc'[x] = rpc[x]
        BY <1>8 DEF RunAppLoader, UabTypeOK
      <4>2. mounted[p]
        BY <1>0, <4>1, ProcessPairs DEF InstanceOf, ProcessOf
      <4>3. rpc'[Fuse(q)] = rpc[Fuse(q)] \/ Fuse(q) = p
        BY <3>1, <4>1, ProcessPairs
      <4>4. HadMount(q)' <=> HadMount(q)
        BY <4>1, <4>3 DEF HadMount
      <4>5. ToUnmount(q)' <=> ToUnmount(q)
        BY <3>1, <4>1, <4>2 DEF ToUnmount
      <4> QED
        BY <4>4, <4>5
    <3>2. UNCHANGED <<handler, early, held>>
      BY <1>8 DEF RunAppLoader, mountVars
    <3> QED
      BY <3>1, <3>2 DEF Holders, Leavers, UabTypeOK
  <2> QED
    BY <1>8, <2>1, CountsKept DEF RunAppLoader, mountVars
<1>9. CASE LoaderInit(p)
  <2>1. Holders' \subseteq Holders /\ Leavers \subseteq Leavers'
    BY <1>9, ProcessPairs
       DEF LoaderInit, Holders, Leavers, HadMount, ToUnmount, UabTypeOK, mountVars
  <2> QED
    BY <1>9, <2>1, CountsKept DEF LoaderInit, mountVars
<1>10. CASE LoaderEnds(p)
  <2>1. Holders' \subseteq Holders /\ Leavers \subseteq Leavers'
    BY <1>10, ProcessPairs
       DEF LoaderEnds, Holders, Leavers, HadMount, ToUnmount, UabTypeOK, mountVars
  <2> QED
    BY <1>10, <2>1, CountsKept DEF LoaderEnds, mountVars
<1>11. CASE LoaderWaited(p)
  <2>1. Holders' \subseteq Holders /\ Leavers \subseteq Leavers'
    <3>1. ASSUME NEW q \in Procs, q[2] = "main"
          PROVE  (HadMount(q)' <=> HadMount(q)) /\ (ToUnmount(q)' <=> ToUnmount(q))
      <4>1. /\ rpc[p] = "wait" /\ rpc'[p] \in {"clean"} /\ mounted' = mounted
            /\ \A x \in Procs : x # p => rpc'[x] = rpc[x]
        BY <1>11 DEF LoaderWaited, UabTypeOK
      <4>2. mounted[p]
        BY <1>0, <4>1, ProcessPairs DEF InstanceOf, ProcessOf
      <4>3. rpc'[Fuse(q)] = rpc[Fuse(q)] \/ Fuse(q) = p
        BY <3>1, <4>1, ProcessPairs
      <4>4. HadMount(q)' <=> HadMount(q)
        BY <4>1, <4>3 DEF HadMount
      <4>5. ToUnmount(q)' <=> ToUnmount(q)
        BY <3>1, <4>1, <4>2 DEF ToUnmount
      <4> QED
        BY <4>4, <4>5
    <3>2. UNCHANGED <<handler, early, held>>
      BY <1>11 DEF LoaderWaited, mountVars
    <3> QED
      BY <3>1, <3>2 DEF Holders, Leavers, UabTypeOK
  <2> QED
    BY <1>11, <2>1, CountsKept DEF LoaderWaited, mountVars
<1>12. CASE CleanResource(p)
  <2>a. UNCHANGED <<mounted, handler, early>>
    BY <1>12 DEF CleanResource
  <2>1. CASE ~mounted[p] /\ rpc' = [rpc EXCEPT ![p] = "gone"] /\ UNCHANGED <<stack, extra, held>>
    <3>1. Holders' \subseteq Holders /\ Leavers \subseteq Leavers'
      BY <1>12, <2>1, <2>a, ProcessPairs
         DEF CleanResource, Holders, Leavers, HadMount, ToUnmount, UabTypeOK
    <3> QED
      BY <2>1, <3>1, CountsKept
  <2>b. ASSUME NEW s \in {"unmounted", "gone"}, rpc' = [rpc EXCEPT ![p] = s], mounted[p]
        PROVE  /\ Holders' \subseteq Holders /\ p \notin Holders'
               /\ \A q \in Procs : q # p => (q \in Holders' <=> q \in Holders)
               /\ \A q \in Procs : HadMount(q) => HadMount(q)'
    BY <1>12, <2>a, <2>b, ProcessPairs DEF CleanResource, Holders, HadMount, ToUnmount, UabTypeOK
  <2>2. CASE /\ mounted[p] /\ UNCHANGED <<stack, extra>>
             /\ held' = IF ItsOwn(p) THEN held \cup {p} ELSE held
             /\ \E s \in {"unmounted", "gone"} : rpc' = [rpc EXCEPT ![p] = s]
    <3>1. Holders' \subseteq Holders
      BY <2>2, <2>b
    <3>2. p \in Holders => ItsOwn(p)
      BY DEF Holders, ItsOwn
    <3>3. Leavers \subseteq Leavers'
      <4> SUFFICES ASSUME NEW q \in Leavers PROVE q \in Leavers'
        OBVIOUS
      <4>1. q \in Procs /\ q[2] = "main" /\ HadMount(q)
        BY DEF Leavers, Holders, UabTypeOK
      <4>2. HadMount(q)' /\ (q # p => (q \in Holders' <=> q \in Holders))
        BY <2>2, <2>b, <4>1
      <4>3. q \in Holders /\ q = p => q \in held'
        BY <2>2, <3>2
      <4>4. held \subseteq held'
        BY <2>2
      <4>5. q \in Holders' \/ q \in early' \cup held'
        BY <2>a, <4>2, <4>3, <4>4 DEF Leavers
      <4> QED
        BY <4>1, <4>2, <4>5 DEF Leavers
    <3> QED
      BY <2>2, <3>1, <3>3, CountsKept
  <2>3. CASE /\ mounted[p] /\ rpc' = [rpc EXCEPT ![p] = "unmounted"] /\ UNCHANGED held
             /\ stack' = Unmounted
             /\ extra' = IF stack # <<>> /\ ~ItsOwn(p) THEN extra + 1 ELSE extra
    <3>1. Holders' \subseteq Holders /\ p \notin Holders' /\ Leavers \subseteq Leavers' \cup {p}
      BY <1>a, <2>3, <2>a, <2>b DEF Leavers, Holders, UabTypeOK
    <3>2. ItsOwn(p) => p \in Holders
      BY <1>0, <1>12, <2>3 DEF CleanResource, Holders, HadMount, ToUnmount, InstanceOf, ItsOwn
    <3>3. Len(stack) \in Nat /\ extra \in Nat /\ Len(stack') \in Nat
      BY DEF UabTypeOK
    <3>4. /\ Cardinality(Holders') \in Nat /\ Cardinality(Holders) \in Nat
          /\ Cardinality(Holders') <= Cardinality(Holders)
          /\ p \in Holders => Cardinality(Holders') <= Cardinality(Holders) - 1
      BY <1>a, <3>1, OneMore
    <3>5. /\ Cardinality(Leavers') \in Nat /\ Cardinality(Leavers) \in Nat
          /\ Cardinality(Leavers) <= Cardinality(Leavers') + 1
      BY <1>a, <3>1, OneMore
    <3>6. CASE stack = <<>>
      <4>1. Len(stack') = 0 /\ Len(stack) = 0 /\ extra' = extra
        BY <2>3, <3>6 DEF Unmounted
      <4> QED
        BY <3>3, <3>4, <3>5, <4>1 DEF MountInv
    <3>7. CASE stack # <<>>
      <4>1. Len(stack') = Len(stack) - 1
        BY <2>3, <3>7 DEF Unmounted, UabTypeOK
      <4>2. \/ extra' = extra /\ Cardinality(Holders') <= Cardinality(Holders) - 1
            \/ extra' = extra + 1
        BY <2>3, <3>2, <3>4, <3>7
      <4> QED
        BY <3>3, <3>4, <3>5, <4>1, <4>2 DEF MountInv
    <3> QED
      BY <3>6, <3>7
  <2> QED
    BY <1>12, <2>1, <2>2, <2>3 DEF CleanResource, ToClean
<1>13. CASE ClearFlag(p)
  <2>1. Holders' \subseteq Holders /\ Leavers \subseteq Leavers'
    BY <1>0, <1>13, ProcessPairs
       DEF ClearFlag, Holders, Leavers, HadMount, ToUnmount, UabTypeOK, InstanceOf, ProcessOf,
           mountVars
  <2> QED
    BY <1>13, <2>1, CountsKept DEF ClearFlag, mountVars
<1>14. CASE RemoveDir(p)
  <2>1. Holders' \subseteq Holders /\ Leavers \subseteq Leavers'
    BY <1>14, ProcessPairs
       DEF RemoveDir, Holders, Leavers, HadMount, ToUnmount, UabTypeOK, mountVars
  <2> QED
    BY <1>14, <2>1, CountsKept DEF RemoveDir, mountVars
<1>15. CASE Signal(p)
  <2>1. Holders' \subseteq Holders /\ Leavers \subseteq Leavers'
    <3>1. /\ p[2] = "main" /\ rpc' = [rpc EXCEPT ![p] = "clean"] /\ UNCHANGED <<mounted, held>>
          /\ early \subseteq early' /\ (rpc[p] \in {"waitfuse", "flag"} => p \in early')
          /\ handler \subseteq handler' /\ (rpc[p] = "unmounted" => <<p, "again">> \in handler')
          /\ \A q \in Procs : q # p \/ rpc[p] # "unmounted" =>
                (<<q, "again">> \in handler' <=> <<q, "again">> \in handler)
      BY <1>15 DEF Signal
    <3>2. \A q \in Procs : q[2] = "main" => Fuse(q) # p
      BY <3>1, ProcessPairs
    <3>3. \A q \in Procs : /\ q[2] = "main" => HadMount(q)' = HadMount(q)
                           /\ q # p => ToUnmount(q)' = ToUnmount(q)
      BY <3>1, <3>2, ProcessPairs DEF HadMount, ToUnmount, UabTypeOK
    <3>4. ToUnmount(p)' => ToUnmount(p) \/ rpc[p] = "unmounted"
      <4>1. rpc[p] # "gone"
        BY <1>15 DEF Signal
      <4>2. ToUnmount(p)' => mounted[p]
        BY <3>1 DEF ToUnmount, UabTypeOK
      <4> QED
        BY <1>0, <4>1, <4>2 DEF ToUnmount, ProcessOf
    <3>5. ToUnmount(p) => ToUnmount(p)' \/ p \in early'
      BY <1>0, <3>1 DEF ToUnmount, UabTypeOK, ProcessOf
    <3>6. ToUnmount(p) => rpc[p] # "unmounted"
      BY DEF ToUnmount
    <3> QED
      BY <3>1, <3>3, <3>4, <3>5, <3>6 DEF Holders, Leavers, UabTypeOK
  <2> QED
    BY <1>15, <2>1, CountsKept DEF Signal, mountVars
<1> QED
  BY <1>1, <1>2, <1>3, <1>4, <1>5, <1>6, <1>7, <1>8, <1>9, <1>10, <1>11, <1>12, <1>13, <1>14, <1>15, <1>16

\* What instances keep, however they and their signals interleave.
THEOREM UabInvariance == UabSpec => []UabInv
<1>1. UabInv /\ [UabNext]_uabVars => UabInv'
  <2>1. ASSUME UabInv, UabNext PROVE UabInv'
    BY <2>1, UabTypeStep, ControlStep, MountStep DEF UabInv
  <2>2. ASSUME UabInv, UNCHANGED uabVars PROVE UabInv'
    BY <2>2 DEF UabInv, uabVars, UabTypeOK, ControlInv, InstanceOf, ProcessOf, HadMount, MountInv,
                Holders, Leavers, ToUnmount
  <2> QED
    BY <2>1, <2>2
<1> QED
  BY <1>1, UabInitial, PTL DEF UabSpec

\* Any number of instances of a bundle that share the directory (mountSelf(), cleanResource(),
\* handleSig() of the header of a bundle) leave each other the mounts they run from, and leave
\* no mount behind but one for each instance that was stopped between mount and mountFlag or
\* could not unmount.
THEOREM MountsAreTakenAway == UabSpec => []NothingLeftMounted
<1>1. ASSUME UabInv PROVE NothingLeftMounted
  <2> DEFINE R == {p \in Running : <<p, "again">> \notin handler}
  <2>1. R \subseteq Holders
    BY <1>1 DEF UabInv, ControlInv, InstanceOf, Running, Holders, ToUnmount
  <2>2. IsFiniteSet(Holders)
    BY ProcessesFinite, FS_Subset DEF Holders
  <2>3. /\ Cardinality(R) <= Cardinality(Holders)
        /\ Cardinality(R) \in Nat /\ Cardinality(Holders) \in Nat
    BY <2>1, <2>2, FS_Subset, FS_CardinalityType
  <2>4. Len(stack) + extra >= Cardinality(R)
    BY <1>1, <2>3 DEF UabInv, MountInv, UabTypeOK
  <2>5. ASSUME AllGone PROVE Len(stack) <= Cardinality(early \cup held)
    <3>1. Leavers \subseteq early \cup held
      BY <2>5 DEF AllGone, Leavers, Holders, ToUnmount
    <3>2. IsFiniteSet(early \cup held)
      BY <1>1, ProcessesFinite, FS_Subset DEF UabInv, UabTypeOK
    <3>3. /\ Cardinality(Leavers) <= Cardinality(early \cup held)
          /\ Cardinality(Leavers) \in Nat /\ Cardinality(early \cup held) \in Nat
      BY <3>1, <3>2, FS_Subset, FS_CardinalityType
    <3> QED
      BY <1>1, <3>3 DEF UabInv, MountInv, UabTypeOK
  <2> QED
    BY <2>4, <2>5 DEF NothingLeftMounted
<1> QED
  BY <1>1, UabInvariance, PTL

---------------------------------------------------------------------------
(***************************************************************************)
(* Unpacking (Unpack), for files of any length and chunks of any size.     *)
(***************************************************************************)

LayerFiles == [kind : {"layer"}, length : Nat, tail : Nat, missing : Nat, damaged : BOOLEAN]
KnownFiles == UabFiles \cup {f \in LayerFiles : f.missing <= f.length}
Unpackings == [pc : {"verify", "mkdir", "unpack", "extract", "ready", "destroy", "gone"},
               file : KnownFiles, tool : {"erofsfuse", "fsck.erofs", "none"}, readable : BOOLEAN,
               dir : BOOLEAN, path : BOOLEAN, read : Nat, refused : BOOLEAN, image : Nat,
               mount : BOOLEAN, isMounted : BOOLEAN, failed : BOOLEAN,
               undone : SUBSET {"unmount", "remove"}]

UnpackTypeOK ==
    /\ packed \subseteq KnownFiles /\ \A f \in packed : f.kind = "layer"
    /\ un.pc # "idle" => un \in Unpackings

\* The loop of verify() stands before the end of the image or behind it: behind it only if the
\* image does not fill whole chunks.  It has read whole chunks, or all there is.
VerifyInv ==
    un.pc = "verify" =>
        /\ un.file.kind = "uab" /\ un.read <= Available(un.file) /\ un.read # un.file.length
        /\ un.read % Chunk = 0 \/ un.read = Available(un.file)
        /\ un.file.length % Chunk = 0 => un.read < un.file.length
\* What verify() let through is whole, what it refused is not, or has bytes after an image
\* that ends inside a chunk.
VerifiedInv ==
    un.pc # "idle" =>
        /\ un.refused => un.file.missing > 0 \/ un.file.damaged
                         \/ (un.file.length % Chunk # 0 /\ un.file.tail > 0)
        /\ un.file.kind = "uab" /\ un.pc \in {"mkdir", "unpack", "extract", "ready"} =>
              ~un.file.damaged /\ un.file.missing <= un.file.tail
        /\ un.pc \in {"extract", "ready"} =>
              /\ un.file.kind = "uab" => un.image = un.file.length
              /\ un.file.missing <= un.file.tail => un.image >= un.file.length
\* The destructor knows of every mount, and of every directory once something is in it.
LeftInv ==
    un.pc # "idle" =>
        /\ un.mount => un.isMounted
        /\ un.file.kind = "layer" => un.path
        /\ un.pc = "ready" => un.path
        /\ un.pc = "destroy" => un.failed
        /\ un.pc = "gone" => /\ un.mount => "unmount" \in un.undone
                             /\ un.dir => (un.failed /\ un.file.kind = "uab") \/ un.undone # {}

UnpackInv == UnpackTypeOK /\ VerifyInv /\ VerifiedInv /\ LeftInv

\* Between a multiple of the chunk and a larger one there is room for a chunk.
LEMMA WholeChunks ==
    ASSUME NEW a \in Nat, NEW b \in Nat, NEW c \in Nat \ {0}, a % c = 0, b % c = 0, a < b
    PROVE  a + c <= b
<1> DEFINE j == a \div c
           k == b \div c
<1>1. a = c * j /\ b = c * k /\ j \in Nat /\ k \in Nat
  OBVIOUS
<1> HIDE DEF j, k
<1>2. j < k
  <2>1. ASSUME k <= j PROVE FALSE
    <3>1. PICK d \in Nat : j = k + d
      BY <1>1, <2>1, j - k \in Nat
    <3>2. c * d \in Nat
      BY <3>1
    <3>3. c * j = c * k + c * d
      BY <1>1, <3>1
    <3> QED
      BY <1>1, <3>2, <3>3
  <2> QED
    BY <1>1, <2>1
<1>3. PICK d \in Nat : k = (j + 1) + d
  BY <1>1, <1>2, k - (j + 1) \in Nat
<1>4. c * k = c * j + c + c * d /\ c * d \in Nat
  BY <1>1, <1>3
<1> QED
  BY <1>1, <1>4

\* A chunk after whole chunks.
LEMMA NextChunk ==
    ASSUME NEW a \in Nat, NEW c \in Nat \ {0}, a % c = 0 PROVE (a + c) % c = 0
<1> DEFINE j == a \div c
<1>1. a = c * j /\ j \in Nat
  OBVIOUS
<1> HIDE DEF j
<1>2. a + c = c * (j + 1)
  BY <1>1
<1>3. (c * (j + 1)) % c = 0
  BY <1>1
<1> QED
  BY <1>2, <1>3

\* What is known of a file.
LEMMA FileFacts ==
    ASSUME NEW f \in KnownFiles
    PROVE  /\ f.length \in Nat /\ f.tail \in Nat /\ f.missing \in Nat /\ f.damaged \in BOOLEAN
           /\ f.kind \in {"uab", "layer"} /\ Available(f) \in Nat
           /\ Available(f) = f.length + f.tail - f.missing
           /\ f.kind = "uab" => f \in UabFiles /\ f.length > 0
<1>1. CASE f \in UabFiles
  <2>1. f \in [kind : {"uab"}, length : Nat \ {0}, tail : Nat, missing : Nat, damaged : BOOLEAN]
        /\ f.missing <= f.length + f.tail
    BY <1>1, UnpackAssumption
  <2> QED
    BY <1>1, <2>1 DEF Available
<1>2. CASE f \in LayerFiles /\ f.missing <= f.length
  BY <1>2 DEF LayerFiles, Available
<1> QED
  BY <1>1, <1>2 DEF KnownFiles

\* Before anything is opened.
LEMMA UnpackInitial == UnpackInit => UnpackInv
BY DEF UnpackInit, UnpackInv, UnpackTypeOK, VerifyInv, VerifiedInv, LeftInv

\* Every step of packing and unpacking.
LEMMA UnpackStep ==
    ASSUME UnpackInv, UnpackNext PROVE UnpackInv'
<1> USE DEF UnpackInv
<1>1. ASSUME NEW l \in Images, Pack(l) PROVE UnpackInv'
  <2>1. l \in Nat
    BY UnpackAssumption
  <2>2. packed' \subseteq KnownFiles /\ \A f \in packed' : f.kind = "layer"
    <3>1. ASSUME NEW m \in 0..l, packed' = {LayerFile(l, 0, m)}
          PROVE  packed' \subseteq KnownFiles /\ \A f \in packed' : f.kind = "layer"
      BY <2>1, <3>1 DEF LayerFile, KnownFiles, LayerFiles
    <3>2. ASSUME NEW old \in Images, packed' = {LayerFile(old, l + 1, 0)}
          PROVE  packed' \subseteq KnownFiles /\ \A f \in packed' : f.kind = "layer"
      <4>1. old \in Nat /\ l + 1 \in Nat
        BY <2>1, UnpackAssumption
      <4> QED
        BY <3>2, <4>1 DEF LayerFile, KnownFiles, LayerFiles
    <3> QED
      BY <1>1, <3>1, <3>2 DEF Pack
  <2>3. un' = un
    BY <1>1 DEF Pack
  <2> QED
    BY <2>2, <2>3 DEF UnpackTypeOK, VerifyInv, VerifiedInv, LeftInv
<1>2. ASSUME NEW f \in UabFiles \cup packed, Open(f) PROVE UnpackInv'
  <2>1. f \in KnownFiles
    BY DEF UnpackTypeOK, KnownFiles
  <2>2. PICK tool \in {"erofsfuse", "fsck.erofs", "none"}, readable \in BOOLEAN :
             un' = [pc |-> IF f.kind = "uab" THEN "verify" ELSE "unpack", file |-> f,
                    tool |-> tool, readable |-> readable,
                    dir |-> f.kind = "layer", path |-> f.kind = "layer",
                    read |-> 0, refused |-> FALSE, image |-> 0, mount |-> FALSE, isMounted |-> FALSE,
                    failed |-> FALSE, undone |-> {}]
    BY <1>2 DEF Open
  <2>3. un' \in Unpackings
    BY <2>1, <2>2 DEF Unpackings
  <2>4. UnpackTypeOK'
    BY <1>2, <2>3 DEF Open, UnpackTypeOK
  <2>5. VerifyInv'
    <3>1. 0 % Chunk = 0
      BY UnpackAssumption
    <3> QED
      BY <2>1, <2>2, <3>1, FileFacts DEF VerifyInv
  <2>6. VerifiedInv'
    BY <2>1, <2>2, FileFacts DEF VerifiedInv
  <2>7. LeftInv'
    BY <2>1, <2>2, FileFacts DEF LeftInv
  <2> QED
    BY <2>4, <2>5, <2>6, <2>7
<1>3. ASSUME un.pc \notin {"idle", "gone"}, UNCHANGED packed, UnpackFails PROVE UnpackInv'
  <2>1. un' \in Unpackings /\ un \in Unpackings
    BY <1>3 DEF UnpackFails, UnpackTypeOK, Unpackings
  <2>2. UnpackTypeOK' /\ VerifyInv' /\ VerifiedInv'
    BY <1>3, <2>1 DEF UnpackFails, UnpackTypeOK, Unpackings, VerifyInv, VerifiedInv
  <2>3. LeftInv'
    BY <1>3, <2>1 DEF UnpackFails, Unpackings, LeftInv
  <2> QED
    BY <2>2, <2>3
<1>4. CASE Verify
  <2>0. un \in Unpackings /\ un.pc = "verify" /\ un.file \in KnownFiles /\ un.read \in Nat
    BY <1>4 DEF Verify, UnpackTypeOK, Unpackings
  <2>a. /\ un.file.kind = "uab" /\ un.read <= Available(un.file) /\ un.read # un.file.length
        /\ un.read % Chunk = 0 \/ un.read = Available(un.file)
        /\ un.file.length % Chunk = 0 => un.read < un.file.length
    BY <2>0 DEF VerifyInv
  <2>b. /\ Read \in Nat /\ un.read <= Read /\ Read <= Available(un.file)
        /\ Read = un.read + Chunk \/ Read = Available(un.file)
        /\ Read = un.read => un.read = Available(un.file)
    BY <2>0, <2>a, FileFacts, UnpackAssumption DEF Read, Smaller
  <2>1. CASE Read # un.read /\ ~Digest /\ un' = [un EXCEPT !.read = Read]
    <3>1. un' \in Unpackings
      BY <2>0, <2>1, <2>b DEF Unpackings
    <3>2. UnpackTypeOK' /\ VerifiedInv' /\ LeftInv'
      BY <1>4, <2>0, <2>1, <3>1 DEF Verify, UnpackTypeOK, Unpackings, VerifiedInv, LeftInv
    <3>3. un'.read = Read /\ un'.file = un.file /\ Read # un.file.length
      BY <2>0, <2>1 DEF Unpackings, Digest
    <3>4. Read % Chunk = 0 \/ Read = Available(un.file)
      <4>1. CASE Read # Available(un.file)
        <5>a. Available(un.file) \in Nat
          BY <2>0, FileFacts
        <5>1. un.read % Chunk = 0 /\ Read = un.read + Chunk
          BY <2>0, <2>a, <2>b, <4>1, <5>a
        <5>2. (un.read + Chunk) % Chunk = 0
          BY <2>0, <5>1, UnpackAssumption, NextChunk
        <5> QED
          BY <5>1, <5>2
      <4> QED
        BY <4>1
    <3>5. ASSUME un.file.length % Chunk = 0 PROVE Read < un.file.length
      <4>1. un.read < un.file.length /\ un.file.length \in Nat
        BY <2>0, <2>a, <3>5, FileFacts
      <4>2. CASE un.read = Available(un.file)
        BY <2>1, <2>b, <2>0, <4>2, FileFacts
      <4>3. CASE un.read % Chunk = 0
        <5>1. un.read + Chunk <= un.file.length
          BY <2>0, <3>5, <4>1, <4>3, WholeChunks, UnpackAssumption
        <5>2. Read <= un.read + Chunk
          BY <2>0, <2>a, FileFacts, UnpackAssumption DEF Read, Smaller
        <5> QED
          BY <2>0, <2>b, <3>3, <4>1, <5>1, <5>2, UnpackAssumption
      <4> QED
        BY <2>a, <4>2, <4>3
    <3>6. VerifyInv'
      BY <2>a, <2>b, <3>3, <3>4, <3>5 DEF VerifyInv
    <3> QED
      BY <3>2, <3>6
  <2>2. CASE Digest /\ ~un.file.damaged /\ un' = [un EXCEPT !.pc = "mkdir"]
    <3>1. un' \in Unpackings
      BY <2>0, <2>2 DEF Unpackings
    <3>2. UnpackTypeOK' /\ VerifyInv' /\ LeftInv'
      BY <1>4, <2>0, <2>2, <3>1 DEF Verify, UnpackTypeOK, Unpackings, VerifyInv, LeftInv
    <3>3. un.file.missing <= un.file.tail
      BY <2>0, <2>2, <2>b, FileFacts DEF Digest
    <3>4. VerifiedInv'
      BY <2>0, <2>2, <3>1, <3>3 DEF VerifiedInv, Unpackings
    <3> QED
      BY <3>2, <3>4
  <2>3. CASE /\ Read = un.read \/ (Digest /\ un.file.damaged)
             /\ un' = [un EXCEPT !.pc = "destroy", !.failed = TRUE, !.refused = TRUE]
    <3>1. un' \in Unpackings
      BY <2>0, <2>3 DEF Unpackings
    <3>2. UnpackTypeOK' /\ VerifyInv' /\ LeftInv'
      BY <1>4, <2>0, <2>3, <3>1 DEF Verify, UnpackTypeOK, Unpackings, VerifyInv, LeftInv
    <3>3. \/ un.file.missing > 0 \/ un.file.damaged
          \/ (un.file.length % Chunk # 0 /\ un.file.tail > 0)
      BY <2>0, <2>3, <2>a, <2>b, FileFacts
    <3>4. VerifiedInv'
      BY <2>0, <2>3, <3>1, <3>3 DEF VerifiedInv, Unpackings
    <3> QED
      BY <3>2, <3>4
  <2>4. CASE UnpackFails
    BY <1>3, <1>4, <2>0, <2>4 DEF Verify
  <2> QED
    BY <1>4, <2>1, <2>2, <2>3, <2>4 DEF Verify
<1>5. CASE MakeUnpackDir
  <2>0. un \in Unpackings /\ un.pc = "mkdir" /\ UNCHANGED packed
    BY <1>5 DEF MakeUnpackDir, UnpackTypeOK
  <2>1. CASE un' = [un EXCEPT !.pc = "unpack", !.dir = TRUE]
    <3>1. un' \in Unpackings
      BY <2>0, <2>1 DEF Unpackings
    <3> QED
      BY <2>0, <2>1, <3>1 DEF UnpackTypeOK, Unpackings, VerifyInv, VerifiedInv, LeftInv
  <2> QED
    BY <1>3, <1>5, <2>0, <2>1 DEF MakeUnpackDir
<1>6. CASE Save
  <2>0. un \in Unpackings /\ un.pc = "unpack" /\ UNCHANGED packed /\ un.file \in KnownFiles
    BY <1>6 DEF Save, UnpackTypeOK, Unpackings
  <2>1. ASSUME NEW n \in {Smaller(un.file.length, Available(un.file)), Saved(un.file)},
               un' = [un EXCEPT !.pc = "extract", !.image = n]
        PROVE  UnpackInv'
    <3>1. /\ n \in Nat /\ (un.file.missing <= un.file.tail => n >= un.file.length)
          /\ un.file.kind = "uab" => n = un.file.length
      BY <2>0, <2>1, FileFacts DEF VerifiedInv, Saved, Smaller
    <3>2. un' \in Unpackings
      BY <2>0, <2>1, <3>1 DEF Unpackings
    <3>3. VerifiedInv'
      BY <2>0, <2>1, <3>1, <3>2 DEF VerifiedInv, Unpackings
    <3> QED
      BY <2>0, <2>1, <3>2, <3>3 DEF UnpackTypeOK, Unpackings, VerifyInv, LeftInv
  <2> QED
    BY <1>3, <1>6, <2>0, <2>1 DEF Save
<1>7. CASE Extract
  <2>0. un \in Unpackings /\ un.pc = "extract" /\ UNCHANGED packed
    BY <1>7 DEF Extract, UnpackTypeOK
  <2>1. CASE un' = [un EXCEPT !.pc = "ready", !.path = TRUE,
                              !.mount = un.tool = "erofsfuse", !.isMounted = un.tool = "erofsfuse"]
    <3>1. un' \in Unpackings
      BY <2>0, <2>1 DEF Unpackings
    <3> QED
      BY <2>0, <2>1, <3>1 DEF UnpackTypeOK, Unpackings, VerifyInv, VerifiedInv, LeftInv
  <2> QED
    BY <1>3, <1>7, <2>0, <2>1 DEF Extract
<1>8. CASE Destroy
  <2>0. un \in Unpackings /\ un.pc \in {"ready", "destroy"} /\ UNCHANGED packed
    BY <1>8 DEF Destroy, UnpackTypeOK
  <2>1. PICK undone \in SUBSET ToUndo :
             un' = [un EXCEPT !.pc = "gone", !.undone = undone,
                              !.mount = @ /\ "unmount" \notin ToUndo \ undone,
                              !.dir = @ /\ "remove" \notin ToUndo \ undone]
    BY <1>8 DEF Destroy
  <2>2. un' \in Unpackings
    BY <2>0, <2>1 DEF Unpackings, ToUndo
  <2>3. /\ un'.pc = "gone" /\ un'.undone = undone /\ un'.file = un.file
        /\ un'.mount => un.mount /\ "unmount" \notin ToUndo \ undone
        /\ un'.dir => "remove" \notin ToUndo \ undone
        /\ un'.failed = un.failed /\ un'.path = un.path /\ un'.isMounted = un.isMounted
    BY <2>0, <2>1 DEF Unpackings
  <2>4. LeftInv'
    <3>1. un'.mount => "unmount" \in undone
      BY <2>0, <2>3 DEF LeftInv, ToUndo
    <3>2. un'.dir => (un.failed /\ un.file.kind = "uab") \/ undone # {}
      <4>1. un.file.kind \in {"uab", "layer"}
        BY <2>0, FileFacts DEF Unpackings
      <4> QED
        BY <2>0, <2>3, <4>1 DEF LeftInv, ToUndo
    <3> QED
      BY <2>0, <2>3, <3>1, <3>2 DEF LeftInv
  <2> QED
    BY <2>0, <2>1, <2>2, <2>3, <2>4 DEF UnpackTypeOK, Unpackings, VerifyInv, VerifiedInv
<1> QED
  BY <1>1, <1>2, <1>4, <1>5, <1>6, <1>7, <1>8 DEF UnpackNext

\* What an unpacking keeps.
THEOREM UnpackInvariance == UnpackSpec => []UnpackInv
<1>1. UnpackInv /\ [UnpackNext]_unpackVars => UnpackInv'
  <2>1. ASSUME UnpackInv, UNCHANGED unpackVars PROVE UnpackInv'
    BY <2>1 DEF UnpackInv, unpackVars, UnpackTypeOK, VerifyInv, VerifiedInv, LeftInv
  <2> QED
    BY <2>1, UnpackStep
<1> QED
  BY <1>1, UnpackInitial, PTL DEF UnpackSpec

\* UABFile::verify(), unpack() and the destructors, for images of any length, read in chunks
\* of any size: what is unpacked is whole, what is refused is damaged, cut short or ends
\* inside a chunk with bytes behind it, and the destructor leaves what it knows nothing of or
\* what it could not undo.
THEOREM FilesAreUnpackedWhole == UnpackSpec => []UnpackedWhole
<1>1. ASSUME UnpackInv PROVE UnpackedWhole
  <2> SUFFICES ASSUME un.pc # "idle" PROVE UnpackedWhole
    BY DEF UnpackedWhole
  <2>1. un \in Unpackings /\ un.file \in KnownFiles
    BY <1>1 DEF UnpackInv, UnpackTypeOK, Unpackings
  <2>2. un.file.missing > un.file.tail => ~(un.file.missing <= un.file.tail)
    BY <2>1, FileFacts
  <2> QED
    BY <1>1, <2>1, <2>2 DEF UnpackInv, VerifiedInv, LeftInv, UnpackedWhole
<1> QED
  BY <1>1, UnpackInvariance, PTL

---------------------------------------------------------------------------
(***************************************************************************)
(* Exports (Bundle), of any layers, any exclusions and black lists, however *)
(* many of them were interrupted before.                                   *)
(***************************************************************************)

Preparing == {"layers", "files", "copying", "bundle", "publish"}
FileNames == UNION {Layers[id].files \cup {Place(Layers[id], n) : n \in Layers[id].files} : id \in Ids}
PackedFiles == [name : FileNames, layer : Ids, rev : Nat]
PackedDirs == [comp : Nat, files : SUBSET PackedFiles]
ListedIds == {m.id : m \in meta}

BundleTypeOK ==
    /\ upc \in {"idle", "utils", "icon"} \cup Preparing /\ export \in Exports
    /\ urev \in [Ids -> Nat] /\ dirs \in [Ids -> PackedDirs]
    /\ meta \subseteq [id : Ids, minified : BOOLEAN] /\ uuid \in BOOLEAN

\* The layers that are listed and those still to prepare are the ones the export is about.
Progress ==
    \/ Distributed(export) /\ \/ ListedIds = {} /\ utodo = <<export.ref>>
                              \/ ListedIds = {export.ref} /\ utodo = <<>>
    \/ /\ ~Distributed(export) /\ export.runtime /\ ~export.loader
       /\ \/ ListedIds = {} /\ utodo = <<"runtime", "app">>
          \/ ListedIds = {"runtime"} /\ utodo = <<"app">>
          \/ ListedIds = {"runtime", "app"} /\ utodo = <<>>
    \/ /\ ~Distributed(export) /\ ~(export.runtime /\ ~export.loader)
       /\ \/ ListedIds = {} /\ utodo = <<"app">>
          \/ ListedIds = {"app"} /\ utodo = <<>>
ListInv ==
    /\ upc \in {"utils", "icon"} => meta = {} /\ uuid = FALSE
    /\ upc \in Preparing => Progress
    /\ upc = "files" => utodo # <<>> /\ ~Distributed(export)
    /\ upc = "copying" => utodo # <<>> /\ Distributed(export)
    /\ upc \in {"bundle", "publish"} =>
          utodo = <<>> /\ (~Distributed(export) => "loader" \in tools)
    /\ "uab-loader" \in from => "uab-header" \in from

\* A layer not yet prepared, without components, has no files unless they were left by a
\* killed export.
FreshInv ==
    upc # "idle" =>
        \A id \in Ids \ left :
            /\ id \notin ListedIds /\ dirs[id].comp = 0 /\ ~(upc = "copying" /\ id = Head(utodo)) =>
                  dirs[id].files = {}
            /\ upc = "files" /\ id = Head(utodo) => dirs[id].files = {}
ComponentsInv == upc = "files" => dirs[Head(utodo)].comp = urev[Head(utodo)]

\* What a layer that is listed has become.
LinksHeld(id, d) ==
    \A f \in d.files :
        LET links == Layers[f.layer].links IN
            /\ f.rev = urev[f.layer]
            /\ f.name \in DOMAIN links /\ links[f.name] \in Layers[f.layer].files =>
                  \/ links[f.name] \in NamesOf(d.files)
                  \/ f.layer # id /\ Place(Layers[f.layer], links[f.name]) \in NamesOf(d.files)
LayerPrepared(m) ==
    LET l == Layers[m.id]  names == NamesOf(dirs[m.id].files) IN
        /\ dirs[m.id].comp = urev[m.id]
        /\ m.id \notin left => LinksHeld(m.id, dirs[m.id])
        /\ Distributed(export) => names = l.files
        /\ l.files \ (export.exclude \cup LoadBlackList(export)) \subseteq names
        /\ (l.files \ LoadBlackList(export)) \subseteq names \/ m.minified
        /\ l.kind = "runtime" /\ ~Distributed(export) =>
              \A n \in Wanted(export) : Place(Layers[BaseId], n) \in names
PreparedInv ==
    upc # "idle" =>
        /\ \A m \in meta : LayerPrepared(m)
        /\ "app" \in ListedIds /\ ~Distributed(export) /\ (\E m \in meta : m.minified) => uuid

BundleInv ==
    BundleTypeOK /\ ListInv /\ FreshInv /\ ComponentsInv /\ PreparedInv /\ ExportedIsOneBuild

\* Following links stays in the layer, begins with what it is given, and stops only where
\* nothing is missing.
LEMMA FollowCloses ==
    ASSUME NEW l, NEW names
    PROVE  /\ Follow(l, names) \subseteq l.files /\ names \cap l.files \subseteq Follow(l, names)
           /\ Closed(l, Follow(l, names))
<1>1. ASSUME NEW n \in Follow(l, names) \cap DOMAIN l.links, l.links[n] \in l.files
      PROVE  l.links[n] \in Follow(l, names)
  <2>1. ASSUME NEW some \in SUBSET l.files, names \cap l.files \subseteq some, Closed(l, some)
        PROVE  l.links[n] \in some
    <3>1. n \in some
      BY <1>1, <2>1 DEF Follow
    <3> QED
      BY <1>1, <2>1, <3>1 DEF Closed
  <2> QED
    BY <1>1, <2>1 DEF Follow
<1>2. Follow(l, names) \subseteq l.files /\ names \cap l.files \subseteq Follow(l, names)
  BY DEF Follow
<1> QED
  BY <1>1, <1>2 DEF Closed

\* Linking adds names and drops none; what it adds is of the layer, at its revision.
LEMMA LinkedNames ==
    ASSUME NEW old, NEW id, NEW names
    PROVE  /\ NamesOf(Linked(old, id, names)) = NamesOf(old) \cup names
           /\ \A f \in Linked(old, id, names) :
                 f \in old \/ \E n \in names : f = File(n, id, urev[id])
<1> DEFINE keep == {f \in old : f.name \notin names \cap DOMAIN Layers[id].links}
           new == {File(n, id, urev[id]) : n \in names \ NamesOf(keep)}
<1>1. Linked(old, id, names) = keep \cup new
  BY DEF Linked
<1>2. NamesOf(new) = names \ NamesOf(keep)
  <2>1. \A n : File(n, id, urev[id]).name = n
    BY DEF File
  <2>2. NamesOf(new) = {File(n, id, urev[id]).name : n \in names \ NamesOf(keep)}
    BY DEF NamesOf
  <2> HIDE DEF keep
  <2> QED
    BY <2>1, <2>2
<1>3. NamesOf(keep) \subseteq NamesOf(old) /\ NamesOf(old) \subseteq NamesOf(keep) \cup names
  BY DEF NamesOf
<1>4. NamesOf(keep \cup new) = NamesOf(keep) \cup NamesOf(new)
  BY DEF NamesOf
<1>5. NamesOf(Linked(old, id, names)) = NamesOf(old) \cup names
  BY <1>1, <1>2, <1>3, <1>4
<1>6. \A f \in Linked(old, id, names) : f \in old \/ \E n \in names : f = File(n, id, urev[id])
  BY <1>1
<1> QED
  BY <1>5, <1>6

\* The project's own layers.
LEMMA BaseLayer == BaseId \in Ids /\ Layers[BaseId].kind = "base"
<1>1. \E id \in Ids : Layers[id].kind = "base"
  BY BundleAssumption
<1> QED
  BY <1>1 DEF BaseId

\* No export has begun.
LEMMA BundleInitial == BundleInit => BundleInv
<1> SUFFICES ASSUME BundleInit PROVE BundleInv
  OBVIOUS
<1>1. export \in Exports
  BY BundleAssumption DEF BundleInit, NoExport
<1>2. dirs \in [Ids -> PackedDirs] /\ urev \in [Ids -> Nat]
  BY DEF BundleInit, NoDirs, PackedDirs
<1> QED
  BY <1>1, <1>2 DEF BundleInit, BundleInv, BundleTypeOK, ListInv, FreshInv, ComponentsInv, PreparedInv,
     ExportedIsOneBuild, Preparing

\* The end of an export, whatever it leaves: nothing is claimed until the next one starts.
LEMMA EndStep ==
    ASSUME BundleInv, ExportEnds, urev' \in [Ids -> Nat], dirs' \in [Ids -> PackedDirs],
           ExportedIsOneBuild'
    PROVE  BundleInv'
<1>1. NoExport \in Exports
  BY BundleAssumption DEF NoExport
<1>2. BundleTypeOK' /\ ListInv' /\ FreshInv' /\ ComponentsInv' /\ PreparedInv'
  BY <1>1 DEF ExportEnds, BundleTypeOK, ListInv, FreshInv, ComponentsInv, PreparedInv, Preparing
<1> QED
  BY <1>2 DEF BundleInv

\* The destructor leaves empty directories.
LEMMA FailStep ==
    ASSUME BundleInv, FailHere, UNCHANGED <<urev, uab>> PROVE BundleInv'
<1>1. dirs' \in [Ids -> PackedDirs] /\ urev' \in [Ids -> Nat]
  BY DEF FailHere, CleanUp, NoDirs, PackedDirs, BundleInv, BundleTypeOK
<1>2. ExportedIsOneBuild'
  BY DEF BundleInv, ExportedIsOneBuild
<1> QED
  BY <1>1, <1>2, EndStep DEF FailHere

\* exportUAB() begins: what earlier exports left without components is known.
LEMMA StartStep ==
    ASSUME BundleInv, NEW e \in Exports, StartExport(e) PROVE BundleInv'
<1> USE DEF StartExport
<1>1. BundleTypeOK'
  BY DEF BundleInv, BundleTypeOK, Preparing
<1>2. ListInv'
  BY DEF ListInv, Preparing
<1>3. FreshInv'
  BY DEF FreshInv
<1>4. ComponentsInv' /\ PreparedInv'
  BY DEF ComponentsInv, PreparedInv, ListedIds
<1>5. ExportedIsOneBuild'
  BY DEF BundleInv, ExportedIsOneBuild
<1> QED
  BY <1>1, <1>2, <1>3, <1>4, <1>5 DEF BundleInv

\* The utils do not touch the layers, and a loader comes with its header.
LEMMA UtilsStep ==
    ASSUME BundleInv, FetchUtils PROVE BundleInv'
<1>1. /\ UNCHANGED <<export, utodo, urev, dirs, tools, icons, meta, uuid, uab, left, exports>>
      /\ upc = "utils" /\ upc' = "icon"
  BY DEF FetchUtils
<1>2. "uab-loader" \in from' => "uab-header" \in from'
  BY DEF FetchUtils, Usable, BundleInv, ListInv
<1>3. BundleTypeOK' /\ ListInv'
  BY <1>1, <1>2 DEF BundleInv, BundleTypeOK, ListInv, Preparing
<1>4. FreshInv' /\ ComponentsInv'
  BY <1>1 DEF BundleInv, FreshInv, ComponentsInv, ListedIds
<1>5. PreparedInv'
  BY <1>1 DEF BundleInv, ListInv, PreparedInv, ListedIds
<1>6. ExportedIsOneBuild'
  BY <1>1 DEF BundleInv, ExportedIsOneBuild
<1> QED
  BY <1>3, <1>4, <1>5, <1>6 DEF BundleInv

\* The icon is packed, and the list of the layers to prepare is made.
LEMMA IconStep ==
    ASSUME BundleInv, PackIcon PROVE BundleInv'
<1>1. /\ UNCHANGED <<export, urev, dirs, tools, meta, uuid, got, from, uab, left, exports>>
      /\ upc = "icon" /\ upc' = "layers" /\ utodo' = Erased(export)
  BY DEF PackIcon
<1>2. meta = {} /\ ListedIds = {} /\ ListedIds' = {}
  BY <1>1 DEF BundleInv, ListInv, ListedIds
<1>3. BundleTypeOK'
  BY <1>1 DEF BundleInv, BundleTypeOK, Preparing
<1>4. Progress'
  BY <1>1, <1>2 DEF Progress, Erased, Distributed
<1>5. ListInv'
  BY <1>1, <1>4 DEF BundleInv, ListInv, Preparing
<1>6. FreshInv' /\ ComponentsInv'
  BY <1>1, <1>2 DEF BundleInv, FreshInv, ComponentsInv
<1>7. PreparedInv'
  BY <1>1, <1>2 DEF PreparedInv
<1>8. ExportedIsOneBuild'
  BY <1>1 DEF BundleInv, ExportedIsOneBuild
<1> QED
  BY <1>3, <1>5, <1>6, <1>7, <1>8 DEF BundleInv

\* The layer at the head of the list is one of the repository, and is not listed yet.
LEMMA HeadOfList ==
    ASSUME BundleInv, upc \in Preparing, utodo # <<>>
    PROVE  /\ Head(utodo) \in Ids /\ Head(utodo) \notin ListedIds
           /\ Distributed(export) => Head(utodo) = export.ref
           /\ ~Distributed(export) => Head(utodo) \in {"runtime", "app"}
<1>1. Progress /\ export \in Exports
  BY DEF BundleInv, ListInv, BundleTypeOK
<1> QED
  BY <1>1, BundleAssumption DEF Progress, Distributed

\* First step for a layer: its components, where there are none.
LEMMA ComponentsStep ==
    ASSUME BundleInv, NEW id \in Ids, CopyComponents(id) PROVE BundleInv'
<1>1. CASE ~Expandable(Layers[id]) \/ dirs[id].comp # 0
  BY <1>1, FailStep DEF CopyComponents
<1>2. CASE ~(~Expandable(Layers[id]) \/ dirs[id].comp # 0)
  <2>1. /\ UNCHANGED <<export, tools, icons, got, from, left, utodo, meta, uuid, urev, uab, exports>>
        /\ upc = "layers" /\ upc' = "files" /\ utodo # <<>> /\ id = Head(utodo)
        /\ ~Distributed(export) /\ dirs[id].comp = 0
        /\ dirs' = [dirs EXCEPT ![id].comp = urev[id]]
    BY <1>2 DEF CopyComponents
  <2>2. id \notin ListedIds
    BY <2>1, HeadOfList DEF Preparing
  <2>3. dirs' \in [Ids -> PackedDirs] /\ dirs'[id].comp = urev[id] /\ dirs'[id].files = dirs[id].files
        /\ \A j \in Ids \ {id} : dirs'[j] = dirs[j]
    BY <2>1 DEF BundleInv, BundleTypeOK, PackedDirs
  <2>4. BundleTypeOK' /\ ListInv' /\ ListedIds' = ListedIds
    BY <2>1, <2>3 DEF BundleInv, BundleTypeOK, ListInv, Progress, ListedIds, Preparing
  <2>5. FreshInv'
    BY <2>1, <2>2, <2>3, <2>4 DEF BundleInv, FreshInv
  <2>6. ComponentsInv'
    BY <2>1, <2>3 DEF ComponentsInv
  <2>7. \A m \in meta : m.id \in Ids \ {id}
    BY <2>2 DEF BundleInv, BundleTypeOK, ListedIds
  <2>8. PreparedInv'
    BY <2>1, <2>3, <2>4, <2>7 DEF BundleInv, PreparedInv, LayerPrepared, LinksHeld
  <2>9. ExportedIsOneBuild'
    BY <2>1 DEF BundleInv, ExportedIsOneBuild
  <2> QED
    BY <2>4, <2>5, <2>6, <2>8, <2>9 DEF BundleInv
<1> QED
  BY <1>1, <1>2

\* The list moves on by the layer at its head.
LEMMA ListMoves ==
    ASSUME BundleInv, upc \in Preparing, utodo # <<>>, UNCHANGED export, utodo' = Tail(utodo),
           ListedIds' = ListedIds \cup {Head(utodo)}
    PROVE  Progress'
<1>1. Progress
  BY DEF BundleInv, ListInv
<1>2. /\ \A a : Head(<<a>>) = a /\ Tail(<<a>>) = <<>>
      /\ \A a, b : Head(<<a, b>>) = a /\ Tail(<<a, b>>) = <<b>>
  OBVIOUS
<1>3. Distributed(export)' = Distributed(export)
  BY DEF Distributed
<1>4. CASE Distributed(export)
  BY <1>1, <1>2, <1>3, <1>4 DEF Progress
<1>5. CASE ~Distributed(export) /\ export.runtime /\ ~export.loader
  <2>1. CASE ListedIds = {} /\ utodo = <<"runtime", "app">>
    <3>1. utodo' = <<"app">> /\ ListedIds' = {"runtime"}
      BY <1>2, <2>1
    <3> QED
      BY <1>3, <1>5, <3>1 DEF Progress
  <2>2. CASE ListedIds = {"runtime"} /\ utodo = <<"app">>
    <3>1. utodo' = <<>> /\ ListedIds' = {"runtime", "app"}
      BY <1>2, <2>2
    <3> QED
      BY <1>3, <1>5, <3>1 DEF Progress
  <2> QED
    BY <1>1, <1>5, <2>1, <2>2 DEF Progress
<1>6. CASE ~Distributed(export) /\ ~(export.runtime /\ ~export.loader)
  <2>1. ListedIds = {} /\ utodo = <<"app">>
    BY <1>1, <1>6 DEF Progress
  <2>2. utodo' = <<>> /\ ListedIds' = {"app"}
    BY <1>2, <2>1
  <2> QED
    BY <1>3, <1>6, <2>2 DEF Progress
<1> QED
  BY <1>4, <1>5, <1>6

\* What a runtime gets from the base: the links at their places, the files at theirs.
LEMMA NeededNames ==
    ASSUME NEW given
    PROVE  /\ NamesOf(given) \subseteq NamesOf(WithNeeded(given))
           /\ \A n \in NeededFiles : Place(Layers[BaseId], n) \in NamesOf(WithNeeded(given))
           /\ \A f \in WithNeeded(given) :
                 f \in given \/ \E n \in NeededFiles : f = File(Place(Layers[BaseId], n), BaseId, urev[BaseId])
<1> DEFINE l == Layers[BaseId]
           chain == NeededFiles \cap DOMAIN l.links
           linked == Linked(given, BaseId, chain)
           copied == {n \in NeededFiles \ DOMAIN l.links : Place(l, n) \notin NamesOf(linked)}
           new == {File(Place(l, n), BaseId, urev[BaseId]) : n \in copied}
<1>1. WithNeeded(given) = linked \cup new
  BY DEF WithNeeded
<1>2. /\ NamesOf(linked) = NamesOf(given) \cup chain
      /\ \A f \in linked : f \in given \/ \E n \in chain : f = File(n, BaseId, urev[BaseId])
  BY LinkedNames
<1>3. \A n \in chain : Place(l, n) = n
  BY DEF Place
<1>4. \A n \in copied : Place(l, n) \in NamesOf(new)
  <2>1. \A n : File(Place(l, n), BaseId, urev[BaseId]).name = Place(l, n)
    BY DEF File
  <2> HIDE DEF copied, l
  <2> QED
    BY <2>1 DEF NamesOf
<1>5. NamesOf(linked \cup new) = NamesOf(linked) \cup NamesOf(new)
  BY DEF NamesOf
<1> HIDE DEF linked, new
<1>6. ASSUME NEW n \in NeededFiles PROVE Place(l, n) \in NamesOf(linked) \cup NamesOf(new)
  <2>1. CASE n \in DOMAIN l.links
    BY <1>2, <1>3, <2>1
  <2>2. CASE n \notin DOMAIN l.links
    BY <1>4, <2>2
  <2> QED
    BY <2>1, <2>2
<1>7. ASSUME NEW f \in linked \cup new
      PROVE  f \in given \/ \E n \in NeededFiles : f = File(Place(l, n), BaseId, urev[BaseId])
  <2>1. CASE f \in linked
    BY <1>2, <1>3, <2>1
  <2>2. CASE f \in new
    BY <2>2 DEF new
  <2> QED
    BY <2>1, <2>2
<1> QED
  BY <1>1, <1>2, <1>5, <1>6, <1>7

\* What the second step makes of the files of a layer.
LEMMA FilesOfLayer ==
    ASSUME BundleTypeOK, NEW id \in Ids, NEW old \in SUBSET PackedFiles,
           Layers[id].kind = "runtime" => NeededThere
    PROVE  LET l == Layers[id]
               taken == Linked(old, id, Follow(l, Filtered(l)))
               all == IF l.kind = "runtime" THEN WithNeeded(taken) ELSE taken
           IN  /\ all \in SUBSET PackedFiles
               /\ old = {} => LinksHeld(id, [comp |-> urev[id], files |-> all])
               /\ l.files \ (export.exclude \cup LoadBlackList(export)) \subseteq NamesOf(all)
               /\ ~Minified(l) => (l.files \ LoadBlackList(export)) \subseteq NamesOf(all)
               /\ l.kind = "runtime" => \A n \in Wanted(export) : Place(Layers[BaseId], n) \in NamesOf(all)
<1> DEFINE l == Layers[id]
           first == Follow(l, Filtered(l))
           taken == Linked(old, id, first)
           all == IF l.kind = "runtime" THEN WithNeeded(taken) ELSE taken
<1>1. first \subseteq l.files /\ Filtered(l) \cap l.files \subseteq first /\ Closed(l, first)
  BY FollowCloses
<1>2. /\ NamesOf(taken) = NamesOf(old) \cup first
      /\ \A f \in taken : f \in old \/ \E n \in first : f = File(n, id, urev[id])
  BY LinkedNames
<1>3. /\ NeededFiles \subseteq Layers[BaseId].files /\ Closed(Layers[BaseId], NeededFiles)
      /\ Wanted(export) \cap Layers[BaseId].files \subseteq NeededFiles
  BY FollowCloses DEF NeededFiles
<1>4. /\ NamesOf(taken) \subseteq NamesOf(WithNeeded(taken))
      /\ \A n \in NeededFiles : Place(Layers[BaseId], n) \in NamesOf(WithNeeded(taken))
      /\ \A f \in WithNeeded(taken) :
            f \in taken \/ \E n \in NeededFiles : f = File(Place(Layers[BaseId], n), BaseId, urev[BaseId])
  BY NeededNames
<1>5. BaseId \in Ids /\ urev[BaseId] \in Nat /\ urev[id] \in Nat
  BY BaseLayer DEF BundleTypeOK
<1> HIDE DEF l, first, taken
<1>6. /\ \A n \in first : File(n, id, urev[id]) \in PackedFiles
      /\ \A n \in NeededFiles : File(Place(Layers[BaseId], n), BaseId, urev[BaseId]) \in PackedFiles
  <2>1. \A n \in first : n \in FileNames
    BY <1>1 DEF FileNames, l
  <2>2. \A n \in NeededFiles : Place(Layers[BaseId], n) \in FileNames
    BY <1>3, <1>5 DEF FileNames
  <2> QED
    BY <1>5, <2>1, <2>2 DEF File, PackedFiles
<1>7. all \in SUBSET PackedFiles
  BY <1>2, <1>4, <1>6
<1>8. /\ NamesOf(taken) \subseteq NamesOf(all)
      /\ l.kind = "runtime" => \A n \in NeededFiles : Place(Layers[BaseId], n) \in NamesOf(all)
      /\ \A f \in all : \/ f \in old \/ \E n \in first : f = File(n, id, urev[id])
                        \/ /\ l.kind = "runtime"
                           /\ \E n \in NeededFiles : f = File(Place(Layers[BaseId], n), BaseId, urev[BaseId])
  BY <1>2, <1>4
<1> HIDE DEF all
<1>9. ASSUME old = {} PROVE LinksHeld(id, [comp |-> urev[id], files |-> all])
  <2> SUFFICES ASSUME NEW f \in all
               PROVE  /\ f.rev = urev[f.layer]
                      /\ f.name \in DOMAIN Layers[f.layer].links
                         /\ Layers[f.layer].links[f.name] \in Layers[f.layer].files =>
                            \/ Layers[f.layer].links[f.name] \in NamesOf(all)
                            \/ /\ f.layer # id
                               /\ Place(Layers[f.layer], Layers[f.layer].links[f.name]) \in NamesOf(all)
    BY DEF LinksHeld
  <2>1. CASE \E n \in first : f = File(n, id, urev[id])
    <3>1. PICK n \in first : f = File(n, id, urev[id])
      BY <2>1
    <3>2. f.name = n /\ f.layer = id /\ f.rev = urev[id]
      BY <3>1 DEF File
    <3>3. n \in DOMAIN Layers[id].links /\ Layers[id].links[n] \in Layers[id].files =>
             Layers[id].links[n] \in first
      BY <1>1, <3>1 DEF Closed, l
    <3> QED
      BY <1>2, <1>8, <3>2, <3>3
  <2>2. CASE /\ l.kind = "runtime"
             /\ \E n \in NeededFiles : f = File(Place(Layers[BaseId], n), BaseId, urev[BaseId])
    <3>1. PICK n \in NeededFiles : f = File(Place(Layers[BaseId], n), BaseId, urev[BaseId])
      BY <2>2
    <3>2. f.name = Place(Layers[BaseId], n) /\ f.layer = BaseId /\ f.rev = urev[BaseId]
      BY <3>1 DEF File
    <3>3. f.name \in DOMAIN Layers[BaseId].links => f.name = n
      BY <1>5, <3>2, BundleAssumption DEF Place
    <3>4. n \in DOMAIN Layers[BaseId].links /\ Layers[BaseId].links[n] \in Layers[BaseId].files =>
             Layers[BaseId].links[n] \in NeededFiles
      BY <1>3, <3>1 DEF Closed
    <3>5. id # BaseId
      BY <2>2, BaseLayer DEF l
    <3> QED
      BY <1>8, <2>2, <3>2, <3>3, <3>4, <3>5
  <2> QED
    BY <1>8, <1>9, <2>1, <2>2
<1>10. /\ l.files \ (LoadBlackList(export) \cup Excluded(l)) \subseteq Filtered(l)
       /\ Excluded(l) \subseteq export.exclude
       /\ ~Minified(l) => Excluded(l) \subseteq LoadBlackList(export)
  BY DEF Filtered, Excluded, Expand, Minified
<1>11. /\ l.files \ (export.exclude \cup LoadBlackList(export)) \subseteq NamesOf(all)
       /\ ~Minified(l) => (l.files \ LoadBlackList(export)) \subseteq NamesOf(all)
  BY <1>1, <1>2, <1>8, <1>10
<1>12. l.kind = "runtime" => \A n \in Wanted(export) : Place(Layers[BaseId], n) \in NamesOf(all)
  BY <1>3, <1>8 DEF l, NeededThere
<1> QED
  BY <1>7, <1>9, <1>11, <1>12 DEF l, first, taken, all

\* Second and third step for a layer: its files, and its place in the list.
LEMMA FilesStep ==
    ASSUME BundleInv, CopyFiles PROVE BundleInv'
<1>0. PICK id : id = Head(utodo)
  OBVIOUS
<1> DEFINE l == Layers[id]
           taken == Linked(dirs[id].files, id, Follow(l, Filtered(l)))
           all == IF l.kind = "runtime" THEN WithNeeded(taken) ELSE taken
<1>m. PICK entry : entry = [id |-> id, minified |-> Minified(l)]
  OBVIOUS
<1>1. CASE l.kind = "runtime" /\ ~NeededThere
  BY <1>0, <1>1, FailStep DEF CopyFiles
<1>2. CASE ~(l.kind = "runtime" /\ ~NeededThere)
  <2>1. /\ UNCHANGED <<export, tools, icons, got, from, left, urev, uab, exports>>
        /\ upc = "files" /\ upc' = "layers" /\ utodo' = Tail(utodo)
        /\ dirs' = [dirs EXCEPT ![id].files = all] /\ meta' = meta \cup {entry}
        /\ uuid' = (uuid \/ (l.kind = "app" /\ (Minified(l) \/ \E m \in meta : m.minified)))
    BY <1>0, <1>2, <1>m DEF CopyFiles
  <2>2. /\ utodo # <<>> /\ ~Distributed(export) /\ id \in Ids /\ id \notin ListedIds
        /\ id \in {"runtime", "app"} /\ l.kind = id
    BY <1>0, <2>1, HeadOfList, BundleAssumption DEF BundleInv, ListInv, Preparing
  <2>3. dirs[id].files \in SUBSET PackedFiles /\ dirs[id].comp = urev[id]
    BY <1>0, <2>1, <2>2 DEF BundleInv, BundleTypeOK, PackedDirs, ComponentsInv
  <2>4. BundleTypeOK
    BY DEF BundleInv
  <2>5. /\ all \in SUBSET PackedFiles
        /\ dirs[id].files = {} => LinksHeld(id, [comp |-> urev[id], files |-> all])
        /\ l.files \ (export.exclude \cup LoadBlackList(export)) \subseteq NamesOf(all)
        /\ ~Minified(l) => (l.files \ LoadBlackList(export)) \subseteq NamesOf(all)
        /\ l.kind = "runtime" => \A n \in Wanted(export) : Place(Layers[BaseId], n) \in NamesOf(all)
    BY <1>2, <2>2, <2>3, <2>4, FilesOfLayer
  <2> HIDE DEF taken, all
  <2>6. dirs' \in [Ids -> PackedDirs] /\ dirs'[id].comp = urev[id] /\ dirs'[id].files = all
        /\ \A j \in Ids \ {id} : dirs'[j] = dirs[j]
    BY <2>1, <2>2, <2>3, <2>4, <2>5 DEF BundleTypeOK, PackedDirs
  <2>7. entry.id = id /\ entry.minified = Minified(l) /\ entry \in [id : Ids, minified : BOOLEAN]
    BY <1>m, <2>2 DEF Minified
  <2>8. ListedIds' = ListedIds \cup {id}
    BY <2>1, <2>7 DEF ListedIds
  <2>9. BundleTypeOK'
    BY <2>1, <2>4, <2>6, <2>7 DEF BundleTypeOK, Preparing
  <2>10. Progress'
    BY <1>0, <2>1, <2>2, <2>8, ListMoves DEF Preparing
  <2>11. ListInv'
    BY <2>1, <2>10 DEF BundleInv, ListInv, Preparing
  <2>12. FreshInv'
    <3> SUFFICES ASSUME NEW j \in Ids \ left, j \notin ListedIds', dirs'[j].comp = 0
                 PROVE  dirs'[j].files = {}
      BY <2>1 DEF FreshInv
    <3>1. j # id /\ j \notin ListedIds /\ dirs'[j] = dirs[j]
      BY <2>6, <2>8
    <3> QED
      BY <2>1, <3>1 DEF BundleInv, FreshInv
  <2>13. ComponentsInv'
    BY <2>1 DEF ComponentsInv
  <2>14. LayerPrepared(entry)'
    <3>1. id \notin left => LinksHeld(id, [comp |-> urev[id], files |-> all])
      BY <1>0, <2>1, <2>2, <2>5 DEF BundleInv, FreshInv
    <3>2. id \notin left => LinksHeld(id, dirs[id])'
      BY <2>1, <2>6, <3>1 DEF LinksHeld
    <3> QED
      <4>1. /\ Distributed(export)' = Distributed(export) /\ Wanted(export)' = Wanted(export)
            /\ LoadBlackList(export)' = LoadBlackList(export) /\ export' = export
        BY <2>1 DEF Distributed, Wanted, LoadNeededFiles, LoadBlackList
      <4> QED
        BY <2>1, <2>2, <2>5, <2>6, <2>7, <3>2, <4>1 DEF LayerPrepared
  <2>15. ASSUME NEW m \in meta PROVE LayerPrepared(m)'
    <3>1. m.id \in Ids \ {id} /\ LayerPrepared(m)
      BY <2>1, <2>2, <2>4 DEF BundleInv, PreparedInv, BundleTypeOK, ListedIds
    <3> QED
      BY <2>1, <2>6, <3>1 DEF LayerPrepared, LinksHeld
  <2>16. ("app" \in ListedIds /\ ~Distributed(export) /\ (\E m \in meta : m.minified) => uuid)'
    <3>1. CASE id = "app"
      BY <2>1, <2>2, <2>7, <3>1
    <3>2. CASE id = "runtime"
      <4>1. "app" \notin ListedIds
        BY <1>0, <2>1, <2>2, <3>2 DEF BundleInv, ListInv, Progress, Preparing
      <4> QED
        BY <2>8, <3>2, <4>1
    <3> QED
      BY <2>2, <3>1, <3>2
  <2>17. PreparedInv'
    BY <2>1, <2>14, <2>15, <2>16 DEF PreparedInv
  <2>18. ExportedIsOneBuild'
    BY <2>1 DEF BundleInv, ExportedIsOneBuild
  <2> QED
    BY <2>9, <2>11, <2>12, <2>13, <2>17, <2>18 DEF BundleInv
<1> QED
  BY <1>1, <1>2

\* A distributed layer is begun: nothing of it may be there.
LEMMA CopyStep ==
    ASSUME BundleInv, CopyLayer PROVE BundleInv'
<1>0. PICK id : id = Head(utodo)
  OBVIOUS
<1>a. upc = "layers" /\ utodo # <<>> /\ Distributed(export) /\ UNCHANGED <<urev, uab, exports>>
  BY DEF CopyLayer
<1>b. id \in Ids /\ id \notin ListedIds /\ urev[id] \in Nat
  BY <1>0, <1>a, HeadOfList DEF Preparing, BundleInv, BundleTypeOK
<1> DEFINE all == {File(n, id, urev[id]) : n \in Layers[id].files}
<1>c. all \subseteq PackedFiles
  BY <1>b DEF File, PackedFiles, FileNames
<1>1. CASE dirs[id].comp # 0 \/ dirs[id].files # {}
  BY <1>0, <1>1, <1>a, FailStep DEF CopyLayer
<1>2. CASE ~(dirs[id].comp # 0 \/ dirs[id].files # {})
  <2>0. /\ UNCHANGED <<export, tools, icons, got, from, left, utodo, meta, uuid>> /\ upc' = "copying"
        /\ \/ dirs' = [dirs EXCEPT ![Head(utodo)].comp = urev[Head(utodo)]]
           \/ \E f \in {File(n, Head(utodo), urev[Head(utodo)]) : n \in Layers[Head(utodo)].files} :
                 dirs' = [dirs EXCEPT ![Head(utodo)].files = {f}]
    BY <1>0, <1>2 DEF CopyLayer
  <2>1. /\ UNCHANGED <<export, tools, icons, got, from, left, utodo, meta, uuid>> /\ upc' = "copying"
        /\ \/ dirs' = [dirs EXCEPT ![id].comp = urev[id]]
           \/ \E f \in all : dirs' = [dirs EXCEPT ![id].files = {f}]
    BY <1>0, <2>0, ZenonT(40)
  <2>2. dirs' \in [Ids -> PackedDirs] /\ \A j \in Ids \ {id} : dirs'[j] = dirs[j]
    <3>1. CASE dirs' = [dirs EXCEPT ![id].comp = urev[id]]
      BY <1>b, <3>1 DEF BundleInv, BundleTypeOK, PackedDirs
    <3>2. ASSUME NEW f \in all, dirs' = [dirs EXCEPT ![id].files = {f}]
          PROVE  dirs' \in [Ids -> PackedDirs] /\ \A j \in Ids \ {id} : dirs'[j] = dirs[j]
      <4>1. {f} \in SUBSET PackedFiles
        BY <1>c
      <4> QED
        BY <1>b, <3>2, <4>1 DEF BundleInv, BundleTypeOK, PackedDirs
    <3> QED
      BY <2>1, <3>1, <3>2
  <2>3. ListedIds' = ListedIds
    BY <2>1 DEF ListedIds
  <2>4. BundleTypeOK' /\ ListInv'
    BY <1>a, <2>1, <2>2, <2>3 DEF BundleInv, BundleTypeOK, ListInv, Progress, Preparing
  <2>5. FreshInv' /\ ComponentsInv'
    BY <1>0, <1>a, <2>1, <2>2, <2>3 DEF BundleInv, FreshInv, ComponentsInv
  <2>6. \A m \in meta : m.id \in Ids \ {id}
    BY <1>b DEF BundleInv, BundleTypeOK, ListedIds
  <2>7. PreparedInv'
    BY <1>a, <2>1, <2>2, <2>3, <2>6 DEF BundleInv, PreparedInv, LayerPrepared, LinksHeld
  <2>8. ExportedIsOneBuild'
    BY <1>a DEF BundleInv, ExportedIsOneBuild
  <2> QED
    BY <2>4, <2>5, <2>7, <2>8 DEF BundleInv
<1> QED
  BY <1>1, <1>2

\* ... and what a finished copy is: all of the layer.
LEMMA CopiedStep ==
    ASSUME BundleInv, LayerCopied PROVE BundleInv'
<1>0. PICK id : id = Head(utodo)
  OBVIOUS
<1>m. PICK entry : entry = [id |-> id, minified |-> FALSE]
  OBVIOUS
<1> DEFINE l == Layers[id]
           all == {File(n, id, urev[id]) : n \in l.files}
<1>1. /\ UNCHANGED <<export, urev, tools, icons, uuid, got, from, uab, left, exports>>
      /\ upc = "copying" /\ upc' = "layers" /\ utodo' = Tail(utodo)
      /\ dirs' = [dirs EXCEPT ![id] = [comp |-> urev[id], files |-> all]] /\ meta' = meta \cup {entry}
  BY <1>0, <1>m DEF LayerCopied
<1>2. /\ utodo # <<>> /\ Distributed(export) /\ id \in Ids /\ id \notin ListedIds
      /\ urev[id] \in Nat
  BY <1>0, <1>1, HeadOfList DEF BundleInv, ListInv, BundleTypeOK, Preparing
<1>3. all \in SUBSET PackedFiles
  BY <1>2 DEF File, PackedFiles, FileNames
<1>4. NamesOf(all) = l.files /\ \A f \in all : f.layer = id /\ f.rev = urev[id] /\ f.name \in l.files
  <2>1. \A n : File(n, id, urev[id]).name = n /\ File(n, id, urev[id]).layer = id
               /\ File(n, id, urev[id]).rev = urev[id]
    BY DEF File
  <2>2. NamesOf(all) = {File(n, id, urev[id]).name : n \in l.files}
    BY DEF NamesOf
  <2>3. NamesOf(all) = l.files
    <3>1. {File(n, id, urev[id]).name : n \in l.files} = l.files
      BY <2>1
    <3> QED
      BY <2>2, <3>1
  <2>4. \A f \in all : f.layer = id /\ f.rev = urev[id] /\ f.name \in l.files
    BY <2>1
  <2> QED
    BY <2>3, <2>4
<1>5. dirs' \in [Ids -> PackedDirs] /\ dirs'[id].comp = urev[id] /\ dirs'[id].files = all
      /\ \A j \in Ids \ {id} : dirs'[j] = dirs[j]
  <2>1. [comp |-> urev[id], files |-> all] \in PackedDirs
    BY <1>2, <1>3 DEF PackedDirs
  <2> HIDE DEF all
  <2> QED
    BY <1>1, <1>2, <2>1 DEF BundleInv, BundleTypeOK
<1> HIDE DEF all
<1>6. entry.id = id /\ entry.minified = FALSE /\ entry \in [id : Ids, minified : BOOLEAN]
  BY <1>m, <1>2
<1>7. ListedIds' = ListedIds \cup {id}
  BY <1>1, <1>6 DEF ListedIds
<1>8. BundleTypeOK'
  BY <1>1, <1>5, <1>6 DEF BundleInv, BundleTypeOK, Preparing
<1>9. Progress'
  BY <1>0, <1>1, <1>2, <1>7, ListMoves DEF Preparing
<1>10. ListInv'
  BY <1>1, <1>9 DEF BundleInv, ListInv, Preparing
<1>11. FreshInv'
  <2> SUFFICES ASSUME NEW j \in Ids \ left, j \notin ListedIds', dirs'[j].comp = 0
               PROVE  dirs'[j].files = {}
    BY <1>1 DEF FreshInv
  <2>1. j # id /\ j \notin ListedIds /\ dirs'[j] = dirs[j]
    BY <1>5, <1>7
  <2> QED
    BY <1>0, <1>1, <2>1 DEF BundleInv, FreshInv
<1>12. ComponentsInv'
  BY <1>1 DEF ComponentsInv
<1>13. /\ Distributed(export)' = Distributed(export) /\ Wanted(export)' = Wanted(export)
       /\ LoadBlackList(export)' = LoadBlackList(export) /\ export' = export
  BY <1>1 DEF Distributed, Wanted, LoadNeededFiles, LoadBlackList
<1>14. LayerPrepared(entry)'
  <2>1. LinksHeld(id, dirs[id])'
    BY <1>1, <1>4, <1>5 DEF LinksHeld
  <2> QED
    BY <1>1, <1>2, <1>4, <1>5, <1>6, <1>13, <2>1 DEF LayerPrepared
<1>15. ASSUME NEW m \in meta PROVE LayerPrepared(m)'
  <2>1. m.id \in Ids \ {id} /\ LayerPrepared(m)
    BY <1>1, <1>2 DEF BundleInv, PreparedInv, BundleTypeOK, ListedIds
  <2> QED
    BY <1>1, <1>5, <2>1 DEF LayerPrepared, LinksHeld
<1>16. PreparedInv'
  BY <1>1, <1>2, <1>13, <1>14, <1>15 DEF PreparedInv
<1>17. ExportedIsOneBuild'
  BY <1>1 DEF BundleInv, ExportedIsOneBuild
<1> QED
  BY <1>8, <1>10, <1>11, <1>12, <1>16, <1>17 DEF BundleInv

\* The loader and its files beside the layers.
LEMMA ToolsStep ==
    ASSUME BundleInv, CopyTools PROVE BundleInv'
<1>1. CASE Tools \cap tools # {}
  BY <1>1, FailStep DEF CopyTools
<1>2. CASE Tools \cap tools = {}
  <2>1. /\ UNCHANGED <<export, dirs, icons, got, from, left, utodo, meta, uuid, urev, uab, exports>>
        /\ upc = "layers" /\ utodo = <<>> /\ tools' = tools \cup Tools /\ upc' = "bundle"
    BY <1>2 DEF CopyTools
  <2>2. ~Distributed(export) => "loader" \in tools'
    BY <2>1 DEF Tools
  <2>3. ListedIds' = ListedIds
    BY <2>1 DEF ListedIds
  <2>4. BundleTypeOK' /\ ListInv'
    BY <2>1, <2>2, <2>3 DEF BundleInv, BundleTypeOK, ListInv, Progress, Distributed, Preparing
  <2>5. FreshInv' /\ ComponentsInv'
    BY <2>1, <2>3 DEF BundleInv, FreshInv, ComponentsInv
  <2>6. PreparedInv'
    BY <2>1, <2>3 DEF BundleInv, PreparedInv, LayerPrepared, LinksHeld
  <2>7. ExportedIsOneBuild'
    BY <2>1 DEF BundleInv, ExportedIsOneBuild
  <2> QED
    BY <2>4, <2>5, <2>6, <2>7 DEF BundleInv
<1> QED
  BY <1>1, <1>2

\* Packing removes the .uab that was there.
LEMMA PackStep ==
    ASSUME BundleInv, PackBundle PROVE BundleInv'
<1>1. /\ UNCHANGED <<export, utodo, urev, dirs, tools, icons, meta, uuid, got, from, left, exports>>
      /\ upc = "bundle" /\ upc' = "publish" /\ uab' = {}
  BY DEF PackBundle
<1>2. ListedIds' = ListedIds
  BY <1>1 DEF ListedIds
<1>3. BundleTypeOK' /\ ListInv'
  BY <1>1, <1>2 DEF BundleInv, BundleTypeOK, ListInv, Progress, Distributed, Preparing
<1>4. FreshInv' /\ ComponentsInv'
  BY <1>1, <1>2 DEF BundleInv, FreshInv, ComponentsInv
<1>5. PreparedInv'
  BY <1>1, <1>2 DEF BundleInv, PreparedInv, LayerPrepared, LinksHeld
<1>6. ExportedIsOneBuild'
  BY <1>1 DEF ExportedIsOneBuild
<1> QED
  BY <1>3, <1>4, <1>5, <1>6 DEF BundleInv

\* The .uab is what was prepared.
LEMMA PublishStep ==
    ASSUME BundleInv, Publish PROVE BundleInv'
<1>1. PICK u : u = [meta |-> meta, dirs |-> dirs, tools |-> tools, uuid |-> uuid, icons |-> icons,
                    export |-> export, revs |-> urev, left |-> left, from |-> from]
  OBVIOUS
<1>2. /\ upc = "publish" /\ ExportEnds /\ CleanUp /\ uab' = {u} /\ UNCHANGED urev
  BY <1>1 DEF Publish
<1>3. /\ u.meta = meta /\ u.dirs = dirs /\ u.tools = tools /\ u.uuid = uuid /\ u.export = export
      /\ u.revs = urev /\ u.left = left /\ u.from = from
  BY <1>1
<1>4. /\ Progress /\ utodo = <<>> /\ export \in Exports /\ uuid \in BOOLEAN
      /\ ~Distributed(export) => "loader" \in tools
      /\ "uab-loader" \in from => "uab-header" \in from
      /\ \A m \in meta : LayerPrepared(m) /\ m.minified \in BOOLEAN /\ m.id \in Ids
      /\ "app" \in ListedIds /\ ~Distributed(export) /\ (\E m \in meta : m.minified) => uuid
  BY <1>2 DEF BundleInv, ListInv, BundleTypeOK, PreparedInv, Preparing
<1>5. ListedIds = {id \in ToSet(AppendLayers(export)) :
                      \/ Distributed(export) \/ Layers[id].kind = "app"
                      \/ Layers[id].kind = "runtime" /\ ~export.loader}
  <2>1. CASE Distributed(export)
    <3>1. ListedIds = {export.ref} /\ ToSet(AppendLayers(export)) = {export.ref}
      BY <1>4, <2>1 DEF Progress, AppendLayers, ToSet
    <3> QED
      BY <2>1, <3>1
  <2>2. CASE ~Distributed(export) /\ export.runtime
    <3>1. ToSet(AppendLayers(export)) = {"base", "runtime", "app"}
      BY <2>2 DEF AppendLayers, ToSet
    <3>2. ListedIds = IF export.loader THEN {"app"} ELSE {"runtime", "app"}
      BY <1>4, <2>2 DEF Progress
    <3> QED
      BY <2>2, <3>1, <3>2, BundleAssumption
  <2>3. CASE ~Distributed(export) /\ ~export.runtime
    <3>1. ToSet(AppendLayers(export)) = {"base", "app"}
      BY <2>3 DEF AppendLayers, ToSet
    <3>2. ListedIds = {"app"}
      BY <1>4, <2>3 DEF Progress
    <3> QED
      BY <2>3, <3>1, <3>2, BundleAssumption
  <2> QED
    BY <2>1, <2>2, <2>3
<1>6. ASSUME NEW m \in meta
      PROVE  (Layers[m.id].files \ LoadBlackList(export)) \subseteq NamesOf(dirs[m.id].files) \/ uuid
  <2>1. CASE Distributed(export)
    BY <1>4, <2>1 DEF LayerPrepared
  <2>2. CASE ~Distributed(export)
    <3>1. "app" \in ListedIds
      BY <1>4, <2>2 DEF Progress
    <3> QED
      BY <1>4, <2>2, <3>1 DEF LayerPrepared
  <2> QED
    BY <2>1, <2>2
<1>7. ExportedIsOneBuild'
  <2> SUFFICES ASSUME NEW v \in uab'
               PROVE  ExportedIsOneBuild!(v)'
    BY DEF ExportedIsOneBuild
  <2> QED
    BY <1>2, <1>3, <1>4, <1>5, <1>6 DEF LayerPrepared, LinksHeld, ListedIds
<1>8. dirs' \in [Ids -> PackedDirs] /\ urev' \in [Ids -> Nat]
  BY <1>2 DEF CleanUp, NoDirs, PackedDirs, BundleInv, BundleTypeOK
<1> QED
  BY <1>2, <1>7, <1>8, EndStep

\* An export that fails anywhere, and a process that is killed.
LEMMA FailsStep ==
    ASSUME BundleInv, ExportFails PROVE BundleInv'
<1>1. ExportEnds /\ UNCHANGED <<urev, uab>> /\ (CleanUp \/ UNCHANGED dirs)
  BY DEF ExportFails
<1>2. dirs' \in [Ids -> PackedDirs] /\ urev' \in [Ids -> Nat]
  BY <1>1 DEF CleanUp, NoDirs, PackedDirs, BundleInv, BundleTypeOK
<1>3. ExportedIsOneBuild'
  BY <1>1 DEF BundleInv, ExportedIsOneBuild
<1> QED
  BY <1>1, <1>2, <1>3, EndStep

\* A layer changes only while nothing is exported; a bundle keeps the revisions it was made of.
LEMMA RebuildStep ==
    ASSUME BundleInv, NEW id \in Ids, Rebuild(id) PROVE BundleInv'
<1>1. /\ upc = "idle" /\ urev' = [urev EXCEPT ![id] = @ + 1]
      /\ UNCHANGED <<upc, export, utodo, dirs, tools, icons, meta, uuid, got, from, uab, left, exports>>
  BY DEF Rebuild
<1>2. BundleTypeOK'
  BY <1>1 DEF BundleInv, BundleTypeOK
<1>3. ListInv' /\ FreshInv' /\ ComponentsInv' /\ PreparedInv'
  BY <1>1 DEF BundleInv, ListInv, FreshInv, ComponentsInv, PreparedInv, Preparing
<1>4. ExportedIsOneBuild'
  BY <1>1 DEF BundleInv, ExportedIsOneBuild
<1> QED
  BY <1>2, <1>3, <1>4 DEF BundleInv

\* Every step of an export, and what happens between two, keeps the invariant.
LEMMA BundleStep == BundleInv /\ [BundleNext]_bundleVars => BundleInv'
<1> SUFFICES ASSUME BundleInv, [BundleNext]_bundleVars PROVE BundleInv'
  OBVIOUS
<1>1. CASE UNCHANGED bundleVars
  <2>1. UNCHANGED <<upc, export, utodo, urev, dirs, tools, meta, uuid, from, uab, left>>
    BY <1>1 DEF bundleVars
  <2>2. BundleTypeOK' /\ ListedIds' = ListedIds
    BY <2>1 DEF BundleInv, BundleTypeOK, ListedIds
  <2>3. ListInv'
    BY <2>1, <2>2 DEF BundleInv, ListInv, Progress, Distributed
  <2>4. FreshInv' /\ ComponentsInv'
    BY <2>1, <2>2 DEF BundleInv, FreshInv, ComponentsInv
  <2>5. PreparedInv'
    BY <2>1, <2>2 DEF BundleInv, PreparedInv, LayerPrepared, LinksHeld, Distributed
  <2>6. ExportedIsOneBuild'
    BY <2>1 DEF BundleInv, ExportedIsOneBuild
  <2> QED
    BY <2>2, <2>3, <2>4, <2>5, <2>6 DEF BundleInv
<1>2. CASE \E e \in Exports : StartExport(e)
  BY <1>2, StartStep
<1>3. CASE FetchUtils
  BY <1>3, UtilsStep
<1>4. CASE PackIcon
  BY <1>4, IconStep
<1>5. CASE \E id \in Ids : CopyComponents(id)
  BY <1>5, ComponentsStep
<1>6. CASE CopyFiles
  BY <1>6, FilesStep
<1>7. CASE CopyLayer
  BY <1>7, CopyStep
<1>8. CASE LayerCopied
  BY <1>8, CopiedStep
<1>9. CASE CopyTools
  BY <1>9, ToolsStep
<1>10. CASE PackBundle
  BY <1>10, PackStep
<1>11. CASE Publish
  BY <1>11, PublishStep
<1>12. CASE ExportFails
  BY <1>12, FailsStep
<1>13. CASE \E id \in Ids : Rebuild(id)
  BY <1>13, RebuildStep
<1> QED
  BY <1>1, <1>2, <1>3, <1>4, <1>5, <1>6, <1>7, <1>8, <1>9, <1>10, <1>11, <1>12, <1>13 DEF BundleNext

\* The invariant of the exports: what is listed is prepared, at the revision in the repository,
\* and what is not listed is untouched or left over and known to be (UABPackager::pack()).
THEOREM BundleInvariance == BundleSpec => []BundleInv
<1> QED
  BY BundleInitial, BundleStep, PTL DEF BundleSpec

\* Whatever exports were killed before it, for all layers, exclusions and black lists: an
\* exported bundle lists exactly the layers asked for, with the components and the files of one
\* revision each, lacks only what was excluded, and says so (prepareExecutableBundle(),
\* prepareDistributedBundle(), filteringFiles()).
THEOREM ExportsAreOneBuild == BundleSpec => []ExportedIsOneBuild
<1>1. BundleInv => ExportedIsOneBuild
  BY DEF BundleInv
<1> QED
  BY <1>1, BundleInvariance, PTL
---------------------------------------------------------------------------
(***************************************************************************)
(* ll-builder (Builder), for any projects, any modules and rules in them,  *)
(* any options and any number of builds.                                   *)
(***************************************************************************)

\* The stages of a build, by what they come after.
Committing == {"commit", "committed"}
FromModules == {"modules", "clean"} \cup Committing
FromBuild == {"build", "precommit", "install"} \cup FromModules
FromPull == {"pull", "prebuild"} \cup FromBuild
Building == {"fetch"} \cup FromPull

ProducedNames == OutputNames \cup {"entry"}
BuildFile == ProducedNames \X Nat
RulesOfModules == [name : NamesToPush(proj), rules : Seq(SUBSET OutputNames)]
OverlayFile == {"whiteout", "dep", "doc"} \X Nat

\* What is in the project directory: any files of this build or of earlier ones.
DirectoryOK ==
    /\ out \in SUBSET BuildFile /\ mods \in [DOMAIN mods -> SUBSET BuildFile]
    /\ upper \in [build : SUBSET ({"whiteout", "buildDepends"} \X Nat), prepare : SUBSET OverlayFile]
    /\ \A f \in out \cup upper.prepare : f[2] <= brev
    /\ \A m \in DOMAIN mods : \A f \in mods[m] : f[2] <= brev
ProjectTypeOK ==
    /\ bpc \in {"idle", "ldcache", "running", "push"} \cup Building
    /\ proj \in Projects /\ brev \in Nat /\ DirectoryOK
    /\ repo \in [DOMAIN repo -> SUBSET BuildFile]
    /\ blayers \in [DOMAIN blayers -> SUBSET BuildFile] /\ stale \subseteq DOMAIN repo
    /\ bpc = "modules" => btodo \in Seq(RulesOfModules)
    /\ bpc \in Committing => btodo \in Seq(NamesToPush(proj))
    /\ bpc = "push" => btodo \in Seq(ToSet(ProjectModule(proj)))

\* What was fetched and pulled for this build.
FetchedInv ==
    /\ bpc \in FromPull /\ "skip_fetch" \notin opts /\ proj.sources # <<>> =>
          /\ FetchSources(Len(proj.sources)) \subseteq sources
          /\ "sources" \notin ignored => sources = FetchSources(Len(proj.sources))
    /\ bpc \in FromPull \ {"pull"} /\ "skip_pull" \notin opts => ToSet(PullOrder(proj)) \subseteq deps

\* The output and the modules are of this build alone, if nothing of others is in the way.
OutputInv ==
    ~Unclean =>
       /\ bpc \in FromBuild => /\ \A f \in out : f[2] = brev
                               /\ \A m \in DOMAIN mods : \A f \in mods[m] : f[2] = brev
       /\ bpc \in FromBuild \ FromModules => DOMAIN mods = {}
       /\ bpc = "precommit" => Built(brev) \subseteq out
       /\ bpc = "install" => Produced \subseteq out

\* No file is lost between the output and the modules, and none but links is in two places.
ModulesInv ==
    /\ bpc \in FromModules /\ ~Unclean =>
         /\ \A f \in Produced : f \in out \/ \E m \in DOMAIN mods : f \in mods[m]
         /\ "full_develop" \notin opts =>
              \A f \in Produced : f[1] \notin Links =>
                 /\ \A m \in DOMAIN mods : f \in mods[m] => f \notin out
                 /\ \A m, n \in DOMAIN mods : f \in mods[m] /\ f \in mods[n] => m = n
    /\ bpc = "modules" =>
         /\ NamesToPush(proj) \subseteq DOMAIN mods \cup {btodo[i].name : i \in DOMAIN btodo} \cup {"binary"}
         /\ ~Unclean => DOMAIN mods \subseteq NamesToPush(proj)
    /\ bpc \in {"clean"} \cup Committing =>
         /\ NamesToPush(proj) \subseteq DOMAIN mods
         /\ ~Unclean =>
              /\ DOMAIN mods \subseteq NamesToPush(proj)
              /\ proj.install = {} => \A f \in Produced : \E m \in DOMAIN mods : f \in mods[m]
              /\ proj.app /\ "entries" \notin ignored /\ (\E f \in mods["binary"] : Exported(f)) =>
                   <<"entry", brev>> \in mods["binary"]

\* What is in the repository and not known to be stale stems from one build, from this one
\* once it commits; everything else is older.
KnownAges ==
    /\ \E r \in 0..brev : \A m \in DOMAIN repo \ stale : \A f \in repo[m] : f[2] = r
    /\ \A m \in DOMAIN repo : \A f \in repo[m] : f[2] <= brev
    /\ \A m \in DOMAIN blayers : \A f \in blayers[m] : f[2] <= brev
RepositoryInv ==
    /\ KnownAges
    /\ bpc \in Building \ Committing => \A m \in DOMAIN repo : \A f \in repo[m] : f[2] < brev
    /\ bpc \in Committing =>
         /\ NamesToPush(proj) \subseteq DOMAIN repo \cup ToSet(btodo)
         /\ ~Unclean =>
              /\ \A m \in stale : \A f \in repo[m] : f[2] < brev
              /\ \A m \in DOMAIN repo \ stale : m \in DOMAIN mods /\ repo[m] = mods[m]
              /\ (DOMAIN repo \ stale) \cup ToSet(btodo) = NamesToPush(proj)
    /\ bpc = "committed" => btodo = <<>>

CacheInv == bpc = "running" => cache.ld = Revisions(ToSet(btodo), repo)
PushedInv ==
    bpc = "push" =>
        \A m \in NamesToPush(proj) \ ToSet(btodo) :
            m \in DOMAIN repo /\ m \in DOMAIN remote /\ remote[m] = repo[m]

ProjectInv ==
    ProjectTypeOK /\ FetchedInv /\ OutputInv /\ ModulesInv /\ RepositoryInv /\ CacheInv /\ PushedInv

\* The elements of a sequence and of its tail.
LEMMA TailElements ==
    ASSUME NEW S, NEW s \in Seq(S), s # <<>>
    PROVE  /\ Head(s) \in S /\ Tail(s) \in Seq(S) /\ Head(s) \in ToSet(s)
           /\ ToSet(s) = ToSet(Tail(s)) \cup {Head(s)}
<1>1. Len(s) \in Nat \ {0} /\ DOMAIN s = 1..Len(s) /\ Head(s) = s[1] /\ Head(s) \in S /\ Tail(s) \in Seq(S)
  OBVIOUS
<1>2. DOMAIN Tail(s) = 1..(Len(s) - 1) /\ \A i \in 1..(Len(s) - 1) : Tail(s)[i] = s[i + 1]
  BY <1>1
<1>3. ASSUME NEW x \in ToSet(s) PROVE x \in ToSet(Tail(s)) \cup {Head(s)}
  <2>1. PICK i \in 1..Len(s) : x = s[i]
    BY <1>1, <1>3 DEF ToSet
  <2>2. CASE i = 1
    BY <1>1, <2>1, <2>2
  <2>3. CASE i # 1
    <3>1. i - 1 \in 1..(Len(s) - 1) /\ Tail(s)[i - 1] = s[i]
      BY <1>1, <1>2, <2>1, <2>3
    <3> QED
      BY <1>2, <2>1, <3>1 DEF ToSet
  <2> QED
    BY <2>2, <2>3
<1>4. ASSUME NEW x \in ToSet(Tail(s)) PROVE x \in ToSet(s)
  <2>1. PICK i \in 1..(Len(s) - 1) : x = s[i + 1]
    BY <1>2, <1>4 DEF ToSet
  <2>2. i + 1 \in 1..Len(s)
    BY <1>1, <2>1
  <2> QED
    BY <1>1, <2>1, <2>2 DEF ToSet
<1>5. Head(s) \in ToSet(s)
  BY <1>1 DEF ToSet
<1> QED
  BY <1>1, <1>3, <1>4, <1>5
\* The elements of two joined sequences.
LEMMA JoinedElements ==
    ASSUME NEW S, NEW s \in Seq(S), NEW t \in Seq(S)
    PROVE  ToSet(s \o t) = ToSet(s) \cup ToSet(t)
<1>1. /\ DOMAIN s = 1..Len(s) /\ DOMAIN t = 1..Len(t) /\ Len(s) \in Nat /\ Len(t) \in Nat
      /\ DOMAIN (s \o t) = 1..(Len(s) + Len(t))
      /\ \A i \in 1..(Len(s) + Len(t)) : (s \o t)[i] = IF i <= Len(s) THEN s[i] ELSE t[i - Len(s)]
  OBVIOUS
<1>2. ASSUME NEW x \in ToSet(s \o t) PROVE x \in ToSet(s) \cup ToSet(t)
  <2>1. PICK i \in 1..(Len(s) + Len(t)) : x = (s \o t)[i]
    BY <1>1, <1>2 DEF ToSet
  <2>2. CASE i <= Len(s)
    BY <1>1, <2>1, <2>2 DEF ToSet
  <2>3. CASE ~(i <= Len(s))
    <3>1. i - Len(s) \in 1..Len(t)
      BY <1>1, <2>1, <2>3
    <3> QED
      BY <1>1, <2>1, <2>3, <3>1 DEF ToSet
  <2> QED
    BY <2>2, <2>3
<1>3. ASSUME NEW x \in ToSet(s) PROVE x \in ToSet(s \o t)
  <2>1. PICK i \in 1..Len(s) : x = s[i]
    BY <1>1, <1>3 DEF ToSet
  <2>2. i \in 1..(Len(s) + Len(t)) /\ (s \o t)[i] = s[i]
    BY <1>1, <2>1
  <2> QED
    BY <1>1, <2>1, <2>2 DEF ToSet
<1>4. ASSUME NEW x \in ToSet(t) PROVE x \in ToSet(s \o t)
  <2>1. PICK i \in 1..Len(t) : x = t[i]
    BY <1>1, <1>4 DEF ToSet
  <2>2. i + Len(s) \in 1..(Len(s) + Len(t)) /\ (s \o t)[i + Len(s)] = t[i]
    BY <1>1, <2>1
  <2> QED
    BY <1>1, <2>1, <2>2 DEF ToSet
<1> QED
  BY <1>2, <1>3, <1>4

\* Modules of one build have at most one revision.
LEMMA OneRevision ==
    ASSUME NEW f, NEW names, NEW r, \A m \in names \cap DOMAIN f : \A x \in f[m] : x[2] = r
    PROVE  Cardinality(Revisions(names, f)) <= 1
<1>1. Revisions(names, f) \subseteq {r}
  BY DEF Revisions
<1>2. Cardinality({}) = 0 /\ Cardinality({r}) = 1
  BY FS_EmptySet, FS_Singleton
<1>3. CASE Revisions(names, f) = {}
  BY <1>2, <1>3
<1>4. CASE Revisions(names, f) = {r}
  BY <1>2, <1>4
<1> QED
  BY <1>1, <1>3, <1>4

\* The modules of a project are finitely many.
LEMMA NamesFinite ==
    ASSUME NEW p \in Projects
    PROVE  IsFiniteSet(NamesToPush(p)) /\ NamesToPush(p) \subseteq DOMAIN Order
<1>1. p.modules \in Seq(Declarations)
  BY BuilderAssumption
<1>2. IsFiniteSet(1..Len(p.modules)) /\ DOMAIN p.modules = 1..Len(p.modules)
  BY <1>1, FS_Interval
<1>3. IsFiniteSet(ModuleNames(p))
  <2> DEFINE names == [i \in 1..Len(p.modules) |-> p.modules[i].name]
  <2>1. names \in Surjection(1..Len(p.modules), ModuleNames(p))
    BY <1>2 DEF ModuleNames, Surjection
  <2> QED
    BY <1>2, <2>1, FS_Surjection
<1>4. IsFiniteSet({"binary", "develop"})
  <2>1. IsFiniteSet({"binary"} \cup {"develop"})
    BY FS_Singleton, FS_AddElement
  <2>2. {"binary", "develop"} = {"binary"} \cup {"develop"}
    OBVIOUS
  <2> QED
    BY <2>1, <2>2
<1>5. IsFiniteSet(NamesToPush(p))
  BY <1>3, <1>4, FS_Union DEF NamesToPush
<1>6. ModuleNames(p) \subseteq DOMAIN Order
  <2>1. \A i \in 1..Len(p.modules) : p.modules[i] \in Declarations
    BY <1>1
  <2>2. \A i \in 1..Len(p.modules) : p.modules[i].name \in DOMAIN Order
    BY <2>1 DEF Declarations
  <2> QED
    BY <1>2, <2>2 DEF ModuleNames
<1> QED
  BY <1>5, <1>6, BuilderAssumption DEF NamesToPush

\* The modules to commit are those to push.
LEMMA PackagedNames ==
    ASSUME NEW p \in Projects
    PROVE  ToSet(PackageModules(p)) = NamesToPush(p) /\ PackageModules(p) \in Seq(NamesToPush(p))
           /\ PackageModules(p) # <<>>
<1> DEFINE declared == [i \in DOMAIN p.modules |-> p.modules[i].name]
           rest == IF "develop" \in ModuleNames(p) THEN <<>> ELSE <<"develop">>
           all == NamesToPush(p)
<1>1. p.modules \in Seq(Declarations)
  BY BuilderAssumption
<1>2. DOMAIN p.modules = 1..Len(p.modules) /\ Len(p.modules) \in Nat
  BY <1>1
<1>3. declared \in Seq(all) /\ ToSet(declared) = ModuleNames(p)
  <2>1. \A i \in DOMAIN p.modules : p.modules[i].name \in all
    BY DEF ModuleNames, NamesToPush
  <2>2. declared \in [1..Len(p.modules) -> all]
    BY <1>2, <2>1
  <2>3. declared \in Seq(all)
    BY <1>2, <2>2
  <2>4. ToSet(declared) = ModuleNames(p)
    BY <1>2 DEF ToSet, ModuleNames
  <2> QED
    BY <2>3, <2>4
<1>4. <<"binary">> \in Seq(all) /\ ToSet(<<"binary">>) = {"binary"}
  BY DEF NamesToPush, ToSet
<1>5. rest \in Seq(all) /\ ToSet(rest) = IF "develop" \in ModuleNames(p) THEN {} ELSE {"develop"}
  <2>1. <<>> \in Seq(all) /\ <<"develop">> \in Seq(all)
    BY DEF NamesToPush
  <2>2. ToSet(<<>>) = {} /\ ToSet(<<"develop">>) = {"develop"}
    BY DEF ToSet
  <2> QED
    BY <2>1, <2>2
<1>6. PackageModules(p) = declared \o <<"binary">> \o rest
  BY DEF PackageModules
<1> HIDE DEF declared, rest
<1>7. declared \o <<"binary">> \in Seq(all) /\ ToSet(declared \o <<"binary">>) = ModuleNames(p) \cup {"binary"}
  <2>1. declared \o <<"binary">> \in Seq(all)
    BY <1>3, <1>4
  <2> HIDE DEF all
  <2>2. PICK one : one = <<"binary">> /\ one \in Seq(all)
    BY <1>4
  <2>3. declared \in Seq(all) /\ one \in Seq(all)
    BY <1>3, <2>2
  <2>4. ToSet(declared \o one) = ToSet(declared) \cup ToSet(one)
    BY <2>3, JoinedElements
  <2> QED
    BY <1>3, <1>4, <2>1, <2>2, <2>4
<1> DEFINE front == declared \o <<"binary">>
<1>8. front \in Seq(all) /\ ToSet(front) = ModuleNames(p) \cup {"binary"} /\ PackageModules(p) = front \o rest
  BY <1>6, <1>7
<1> HIDE DEF front
<1>9. PackageModules(p) \in Seq(all)
      /\ ToSet(PackageModules(p)) = ModuleNames(p) \cup {"binary"} \cup ToSet(rest)
  <2>1. front \o rest \in Seq(all)
    BY <1>5, <1>8
  <2> HIDE DEF all
  <2>2. ToSet(front \o rest) = ToSet(front) \cup ToSet(rest)
    BY <1>5, <1>8, JoinedElements
  <2> QED
    BY <1>8, <2>1, <2>2
<1>10. ToSet(PackageModules(p)) = NamesToPush(p)
  BY <1>5, <1>9 DEF NamesToPush
<1>11. ToSet(<<>>) = {}
  BY DEF ToSet
<1> QED
  BY <1>9, <1>10, <1>11 DEF NamesToPush

\* The list of the modules to push misses none of them.
LEMMA PushedNames ==
    ASSUME NEW p \in Projects
    PROVE  /\ NamesToPush(p) \subseteq ToSet(ProjectModule(p))
           /\ ProjectModule(p) \in Seq(ToSet(ProjectModule(p)))
<1> DEFINE all == NamesToPush(p)
           upTo(m) == {n \in all : Order[n] <= Order[m]}
<1>1. IsFiniteSet(all) /\ all \subseteq DOMAIN Order /\ Cardinality(all) \in Nat
  BY NamesFinite, FS_CardinalityType
<1>2. \A m \in DOMAIN Order : Order[m] \in Nat
  BY BuilderAssumption
<1>3. ASSUME NEW m \in all
      PROVE  upTo(m) \subseteq all /\ m \in upTo(m) /\ IsFiniteSet(upTo(m))
             /\ Cardinality(upTo(m)) \in 1..Cardinality(all)
  <2>1. upTo(m) \subseteq all /\ m \in upTo(m)
    BY <1>1, <1>2
  <2>2. IsFiniteSet(upTo(m)) /\ Cardinality(upTo(m)) <= Cardinality(all) /\ Cardinality(upTo(m)) \in Nat
    BY <1>1, <2>1, FS_Subset, FS_CardinalityType
  <2>3. Cardinality(upTo(m)) # 0
    BY <2>1, <2>2, FS_EmptySet
  <2> QED
    BY <1>1, <2>1, <2>2, <2>3
<1>4. ASSUME NEW m \in all, NEW n \in all, Order[m] < Order[n]
      PROVE  Cardinality(upTo(m)) < Cardinality(upTo(n))
  <2>1. upTo(m) \subseteq upTo(n) /\ n \notin upTo(m) /\ n \in upTo(n)
    BY <1>1, <1>2, <1>4
  <2> QED
    <3>1. /\ Cardinality(upTo(m)) <= Cardinality(upTo(n))
          /\ Cardinality(upTo(m)) = Cardinality(upTo(n)) => upTo(m) = upTo(n)
      <4>1. PICK less, more : less = upTo(m) /\ more = upTo(n)
        OBVIOUS
      <4>2. IsFiniteSet(more) /\ less \in SUBSET more
        BY <1>3, <2>1, <4>1
      <4>3. Cardinality(less) <= Cardinality(more) /\ (Cardinality(less) = Cardinality(more) => less = more)
        BY <4>2, FS_Subset
      <4> QED
        BY <4>1, <4>3
    <3>2. Cardinality(upTo(m)) \in Nat /\ Cardinality(upTo(n)) \in Nat
      BY <1>1, <1>3
    <3> QED
      BY <2>1, <3>1, <3>2
<1>5. ASSUME NEW m \in all, NEW n \in all, PlaceOf(m, all) = PlaceOf(n, all) PROVE m = n
  <2>1. Cardinality(upTo(m)) = Cardinality(upTo(n)) /\ Cardinality(upTo(m)) \in Nat
    BY <1>3, <1>5 DEF PlaceOf
  <2>2. ~(Order[m] < Order[n]) /\ ~(Order[n] < Order[m])
    BY <1>4, <2>1
  <2> QED
    BY <1>1, <1>2, <2>2, BuilderAssumption
<1>6. ProjectModule(p) = [i \in 1..Cardinality(all) |-> CHOOSE m \in all : PlaceOf(m, all) = i]
  BY DEF ProjectModule
<1>7. ASSUME NEW n \in all PROVE n \in ToSet(ProjectModule(p))
  <2>1. PICK i \in 1..Cardinality(all) : i = PlaceOf(n, all)
    BY <1>3 DEF PlaceOf
  <2>2. (CHOOSE m \in all : PlaceOf(m, all) = i) \in all
        /\ PlaceOf(CHOOSE m \in all : PlaceOf(m, all) = i, all) = i
    BY <2>1
  <2>3. ProjectModule(p)[i] = n
    BY <1>5, <1>6, <2>1, <2>2
  <2>4. i \in DOMAIN ProjectModule(p)
    BY <1>6, <2>1
  <2> QED
    BY <2>3, <2>4 DEF ToSet
<1>8. DOMAIN ProjectModule(p) = 1..Cardinality(all)
  BY <1>6
<1>9. ProjectModule(p) \in [1..Cardinality(all) -> ToSet(ProjectModule(p))]
  <2>1. \A i \in 1..Cardinality(all) : ProjectModule(p)[i] \in ToSet(ProjectModule(p))
    BY <1>8 DEF ToSet
  <2>2. ProjectModule(p) = [i \in 1..Cardinality(all) |-> ProjectModule(p)[i]]
    BY <1>6
  <2> QED
    BY <2>1, <2>2
<1> QED
  BY <1>1, <1>7, <1>9

\* Nothing is there yet.
LEMMA ProjectInitial == ProjectInit => ProjectInv
<1> SUFFICES ASSUME ProjectInit PROVE ProjectInv
  OBVIOUS
<1>1. proj \in Projects
  BY BuilderAssumption DEF ProjectInit
<1>2. DOMAIN mods = {} /\ DOMAIN repo = {} /\ DOMAIN blayers = {}
  BY DEF ProjectInit, Empty
<1>3. ProjectTypeOK
  <2>1. upper = [build |-> {}, prepare |-> {}] /\ out = {} /\ upper.prepare = {}
    BY DEF ProjectInit
  <2>2. DirectoryOK
    BY <1>2, <2>1 DEF DirectoryOK, ProjectInit, Empty
  <2> QED
    BY <1>1, <1>2, <2>2 DEF ProjectInit, ProjectTypeOK, Empty, Committing
<1>4. KnownAges
  BY <1>2 DEF ProjectInit, KnownAges
<1> QED
  BY <1>3, <1>4 DEF ProjectInv, ProjectInit, FetchedInv, OutputInv, ModulesInv, RepositoryInv, CacheInv,
     PushedInv, FromPull, FromBuild, FromModules, Committing, Building

\* While nothing runs only the types, and the ages of what is in the repository, are claimed.
LEMMA IdleStep ==
    ASSUME bpc' = "idle", proj' \in Projects, brev' \in Nat, DirectoryOK',
           (repo \in [DOMAIN repo -> SUBSET BuildFile])',
           (blayers \in [DOMAIN blayers -> SUBSET BuildFile])', (stale \subseteq DOMAIN repo)', KnownAges'
    PROVE  ProjectInv'
<1>1. ProjectTypeOK'
  BY DEF ProjectTypeOK, Committing
<1> QED
  BY <1>1 DEF ProjectInv, FetchedInv, OutputInv, ModulesInv, RepositoryInv, CacheInv, PushedInv, FromPull,
     FromBuild, FromModules, Committing, Building

\* The ages do not depend on what a command does outside of the repository.
LEMMA AgesKept ==
    ASSUME KnownAges, UNCHANGED <<brev, repo, stale, blayers>> PROVE KnownAges'
BY DEF KnownAges

\* A command that ends, well or not, has left the repository alone or is done with it.
LEMMA EndsStep ==
    ASSUME ProjectInv, CommandEnds, UNCHANGED <<proj, brev, repo, stale, blayers>>,
           DirectoryOK'
    PROVE  ProjectInv'
<1>1. KnownAges'
  BY AgesKept DEF ProjectInv, RepositoryInv
<1>2. /\ proj' \in Projects /\ brev' \in Nat /\ (repo \in [DOMAIN repo -> SUBSET BuildFile])'
      /\ (blayers \in [DOMAIN blayers -> SUBSET BuildFile])' /\ (stale \subseteq DOMAIN repo)'
  BY DEF ProjectInv, ProjectTypeOK
<1> QED
  BY <1>1, <1>2, IdleStep DEF CommandEnds
\* ... most of them without touching the output either.
LEMMA EndsUnchanged ==
    ASSUME ProjectInv, CommandEnds, UNCHANGED <<proj, brev, out, mods, upper, repo, stale, blayers>>
    PROVE  ProjectInv'
<1>1. DirectoryOK'
  BY DEF ProjectInv, ProjectTypeOK, DirectoryOK
<1> QED
  BY <1>1, EndsStep

\* A build begins: everything in the repository is older.
LEMMA BuildStep ==
    ASSUME ProjectInv, NEW p \in Projects, NEW o \in Options, Build(p, o) PROVE ProjectInv'
<1>1. /\ UNCHANGED <<sources, deps, out, mods, upper, cache, btodo, repo, stale, blayers, remote>>
      /\ bpc = "idle" /\ proj' = p /\ brev' = brev + 1 /\ bpc' \in {"idle", "fetch"}
  BY DEF Build
<1>2. brev \in Nat /\ KnownAges /\ repo \in [DOMAIN repo -> SUBSET BuildFile]
  BY DEF ProjectInv, ProjectTypeOK, RepositoryInv
<1>3. /\ \A m \in DOMAIN repo : \A f \in repo[m] : f[2] \in Nat
      /\ \A m \in DOMAIN blayers : \A f \in blayers[m] : f[2] \in Nat
  BY DEF ProjectInv, ProjectTypeOK, BuildFile
<1>4. \A m \in DOMAIN repo : \A f \in repo[m] : f[2] < brev'
  BY <1>1, <1>2, <1>3 DEF KnownAges
<1>5. KnownAges'
  <2>1. PICK r \in 0..brev : \A m \in DOMAIN repo \ stale : \A f \in repo[m] : f[2] = r
    BY <1>2 DEF KnownAges
  <2>2. r \in 0..brev'
    BY <1>1, <1>2
  <2> QED
    BY <1>1, <1>2, <1>3, <2>1, <2>2 DEF KnownAges
<1>6. ProjectTypeOK'
  <2>1. DirectoryOK'
    <3>1. /\ DirectoryOK /\ UNCHANGED <<out, mods, upper>> /\ \A f \in out \cup upper.prepare : f[2] \in Nat
          /\ \A m \in DOMAIN mods : \A f \in mods[m] : f[2] \in Nat
      BY <1>1 DEF ProjectInv, ProjectTypeOK, DirectoryOK, BuildFile, OverlayFile
    <3> QED
      BY <1>1, <1>2, <3>1 DEF DirectoryOK
  <2> QED
    BY <1>1, <2>1 DEF ProjectInv, ProjectTypeOK, Building, Committing
<1>7. RepositoryInv'
  BY <1>1, <1>4, <1>5 DEF RepositoryInv, Building, FromPull, FromBuild, FromModules, Committing
<1> QED
  BY <1>1, <1>6, <1>7 DEF ProjectInv, FetchedInv, OutputInv, ModulesInv, CacheInv, PushedInv, FromPull,
     FromBuild, FromModules, Committing

\* From one stage before the commit to the next.
LEMMA StageStep ==
    ASSUME ProjectInv, bpc \in Building \ Committing, bpc' \in Building \ (Committing \cup {"modules"}),
           UNCHANGED <<proj, brev, repo, stale, blayers>>,
           DirectoryOK'
    PROVE  ProjectTypeOK' /\ RepositoryInv' /\ CacheInv' /\ PushedInv'
<1>1. KnownAges'
  BY AgesKept DEF ProjectInv, RepositoryInv
<1>2. bpc' \notin {"running", "push", "idle", "ldcache", "modules"} \cup Committing
  BY DEF Building, FromPull, FromBuild, FromModules, Committing
<1>3. ProjectTypeOK'
  BY <1>2 DEF ProjectInv, ProjectTypeOK
<1>4. RepositoryInv'
  BY <1>1, <1>2 DEF ProjectInv, RepositoryInv, Committing
<1> QED
  BY <1>2, <1>3, <1>4 DEF CacheInv, PushedInv

\* The sources are fetched, or the command ends.
LEMMA FetchStep ==
    ASSUME ProjectInv, FetchSource PROVE ProjectInv'
<1>1. bpc = "fetch" /\ UNCHANGED <<proj, brev, deps, out, mods, upper, cache, repo, stale, blayers, remote>>
  BY DEF FetchSource
<1>2. CASE CommandEnds
  BY <1>1, <1>2, EndsUnchanged
<1>3. CASE ~CommandEnds
  <2>1. /\ bpc' = "pull" /\ opts' = opts
        /\ "skip_fetch" \notin opts /\ proj.sources # <<>> =>
             \E old : /\ sources' = Joined(FetchSources(Len(proj.sources)), old)
                      /\ ignored' = ignored \cup Noted(old # {}, "sources")
    BY <1>3 DEF FetchSource, Ignoring
  <2>2. "skip_fetch" \notin opts /\ proj.sources # <<>> =>
             /\ FetchSources(Len(proj.sources)) \subseteq sources'
             /\ "sources" \notin ignored' => sources' = FetchSources(Len(proj.sources))
    BY <2>1 DEF Joined, Noted
  <2>3. DirectoryOK'
    BY <1>1 DEF ProjectInv, ProjectTypeOK, DirectoryOK
  <2>4. ProjectTypeOK' /\ RepositoryInv' /\ CacheInv' /\ PushedInv'
    BY <1>1, <2>1, <2>3, StageStep DEF Building, FromPull, FromBuild, FromModules, Committing
  <2>5. FetchedInv'
    BY <1>1, <2>1, <2>2 DEF FetchedInv, FetchSources
  <2>6. OutputInv' /\ ModulesInv'
    BY <2>1 DEF OutputInv, ModulesInv, FromBuild, FromModules, Committing
  <2> QED
    BY <2>4, <2>5, <2>6 DEF ProjectInv
<1> QED
  BY <1>2, <1>3

\* The dependencies are pulled, or the command ends.
LEMMA PullStep ==
    ASSUME ProjectInv, PullDependency PROVE ProjectInv'
<1>1. bpc = "pull" /\ UNCHANGED <<proj, brev, sources, out, mods, upper, cache, repo, stale, blayers, remote>>
  BY DEF PullDependency
<1>2. CASE CommandEnds
  BY <1>1, <1>2, EndsUnchanged
<1>3. CASE ~CommandEnds
  <2>1. /\ bpc' = "prebuild" /\ opts' = opts /\ ignored' = ignored
        /\ "skip_pull" \notin opts => deps' = Pulled(Len(PullOrder(proj)))
    BY <1>3 DEF PullDependency
  <2>2. ToSet(PullOrder(proj)) \subseteq Pulled(Len(PullOrder(proj)))
    <3>1. DOMAIN PullOrder(proj) = 1..Len(PullOrder(proj))
      <4>1. CASE proj.runtime
        BY <4>1 DEF PullOrder
      <4>2. CASE ~proj.runtime
        BY <4>2 DEF PullOrder
      <4> QED
        BY <4>1, <4>2
    <3> QED
      BY <3>1 DEF ToSet, Pulled
  <2>3. DirectoryOK'
    BY <1>1 DEF ProjectInv, ProjectTypeOK, DirectoryOK
  <2>4. ProjectTypeOK' /\ RepositoryInv' /\ CacheInv' /\ PushedInv'
    BY <1>1, <2>1, <2>3, StageStep DEF Building, FromPull, FromBuild, FromModules, Committing
  <2>5. PullOrder(proj)' = PullOrder(proj)
    BY <1>1 DEF PullOrder
  <2>6. FetchedInv'
    BY <1>1, <2>1, <2>2, <2>5 DEF ProjectInv, FetchedInv, FetchSources, FromPull
  <2>7. OutputInv' /\ ModulesInv'
    BY <2>1 DEF OutputInv, ModulesInv, FromBuild, FromModules, Committing
  <2> QED
    BY <2>4, <2>6, <2>7 DEF ProjectInv
<1> QED
  BY <1>2, <1>3

\* What was fetched and pulled stays through the later stages.
LEMMA FetchedKept ==
    ASSUME ProjectInv, bpc \in FromPull \ {"pull"}, bpc' \in FromPull \ {"pull"},
           UNCHANGED <<proj, opts, brev, sources, deps>>, ignored \subseteq ignored'
    PROVE  FetchedInv'
<1>1. PullOrder(proj)' = PullOrder(proj)
  BY DEF PullOrder
<1> QED
  BY <1>1 DEF ProjectInv, FetchedInv, FetchSources

\* buildStagePreBuild() removes what earlier builds have left, or some of it.
LEMMA PreBuildStep ==
    ASSUME ProjectInv, PreBuild PROVE ProjectInv'
<1>1. PICK old \in Left(OutputFiles) :
        /\ out' = LeftIn(old, "_build") /\ mods' = [m \in Names(old) \ {"_build"} |-> LeftIn(old, m)]
        /\ \/ /\ upper' = [upper EXCEPT !.build = ProcessBuildDepends(MakeOverlay(@))]
              /\ bpc' = "build" /\ Ignoring(Noted(old # {}, "output")) /\ UNCHANGED <<opts, btodo>>
           \/ upper' \in {upper, [upper EXCEPT !.build = MakeOverlay(@)]} /\ CommandEnds
  BY DEF PreBuild
<1>2. bpc = "prebuild" /\ UNCHANGED <<proj, brev, sources, deps, cache, repo, stale, blayers, remote>>
  BY DEF PreBuild
<1>3. DirectoryOK /\ brev \in Nat
  BY DEF ProjectInv, ProjectTypeOK
<1>4. ASSUME NEW x \in old PROVE x[2] \in BuildFile /\ x[2][2] <= brev
  <2>1. x \in OutputFiles
    BY <1>1 DEF Left
  <2>2. CASE x \in {<<"_build", f>> : f \in out}
    <3>1. PICK f \in out : x = <<"_build", f>>
      BY <2>2
    <3>2. x[2] = f
      BY <3>1
    <3> QED
      BY <1>3, <3>1, <3>2 DEF DirectoryOK
  <2>3. CASE x \in UNION {{<<m, f>> : f \in mods[m]} : m \in DOMAIN mods}
    <3>1. PICK m \in DOMAIN mods : x \in {<<m, f>> : f \in mods[m]}
      BY <2>3
    <3>2. PICK f \in mods[m] : x = <<m, f>>
      BY <3>1
    <3>3. x[2] = f
      BY <3>2
    <3> QED
      BY <1>3, <3>2, <3>3 DEF DirectoryOK
  <2> QED
    BY <2>1, <2>2, <2>3 DEF OutputFiles
<1>5. \A folder : LeftIn(old, folder) \in SUBSET BuildFile /\ \A f \in LeftIn(old, folder) : f[2] <= brev
  BY <1>4 DEF LeftIn
<1>6. upper' \in [build : SUBSET ({"whiteout", "buildDepends"} \X Nat), prepare : SUBSET OverlayFile]
      /\ upper'.prepare = upper.prepare
  <2>1. PICK folder \in SUBSET ({"whiteout", "buildDepends"} \X Nat) : upper' = [upper EXCEPT !.build = folder]
    <3>1. /\ upper.build \in SUBSET ({"whiteout", "buildDepends"} \X Nat)
          /\ upper = [upper EXCEPT !.build = upper.build]
      BY <1>3 DEF DirectoryOK
    <3>2. MakeOverlay(upper.build) \in SUBSET ({"whiteout", "buildDepends"} \X Nat)
      BY <3>1 DEF MakeOverlay
    <3>3. ProcessBuildDepends(MakeOverlay(upper.build)) \in SUBSET ({"whiteout", "buildDepends"} \X Nat)
      BY <1>3, <3>2 DEF ProcessBuildDepends
    <3> QED
      BY <1>1, <3>1, <3>2, <3>3
  <2> QED
    BY <1>3, <2>1 DEF DirectoryOK
<1>7. mods' \in [DOMAIN mods' -> SUBSET BuildFile] /\ \A m \in DOMAIN mods' : mods'[m] = LeftIn(old, m)
  <2>1. DOMAIN mods' = Names(old) \ {"_build"}
    BY <1>1
  <2>2. \A m \in DOMAIN mods' : mods'[m] = LeftIn(old, m)
    BY <1>1
  <2> QED
    BY <1>1, <1>5, <2>1, <2>2
<1>8. DirectoryOK'
  BY <1>1, <1>2, <1>3, <1>5, <1>6, <1>7 DEF DirectoryOK
<1>9. CASE CommandEnds
  BY <1>2, <1>8, <1>9, EndsStep
<1>10. CASE ~CommandEnds
  <2>1. bpc' = "build" /\ opts' = opts /\ ignored' = ignored \cup Noted(old # {}, "output")
    BY <1>1, <1>10 DEF Ignoring
  <2>2. ProjectTypeOK' /\ RepositoryInv' /\ CacheInv' /\ PushedInv'
    BY <1>2, <1>8, <2>1, StageStep DEF Building, FromPull, FromBuild, FromModules, Committing
  <2>3. FetchedInv'
    BY <1>2, <2>1, FetchedKept DEF FromPull, FromBuild
  <2>4. old # {} => Unclean'
    BY <2>1 DEF Unclean, Noted
  <2>5. old = {} => out' = {} /\ DOMAIN mods' = {}
    BY <1>1 DEF LeftIn, Names
  <2>6. OutputInv' /\ ModulesInv'
    BY <2>1, <2>4, <2>5 DEF OutputInv, ModulesInv, FromModules, Committing
  <2> QED
    BY <2>2, <2>3, <2>6 DEF ProjectInv
<1> QED
  BY <1>9, <1>10

\* The files a build makes.
LEMMA FilePairs ==
    ASSUME brev \in Nat
    PROVE  /\ \A n \in ProducedNames : <<n, brev>> \in BuildFile /\ <<n, brev>>[1] = n /\ <<n, brev>>[2] = brev
           /\ Built(brev) \in SUBSET BuildFile /\ \A f \in Built(brev) : f[2] = brev
           /\ <<"bin", brev>> \in BuildFile /\ <<"dep", brev>> \in BuildFile
<1>1. \A n \in ProducedNames : <<n, brev>> \in BuildFile /\ <<n, brev>>[1] = n /\ <<n, brev>>[2] = brev
  BY DEF BuildFile
<1>2. {"bin", "header", "dirlink", "desktop", "dep"} \subseteq ProducedNames
  BY DEF ProducedNames, OutputNames
<1>3. ASSUME NEW f \in Built(brev) PROVE f \in BuildFile /\ f[2] = brev
  <2>1. PICK n \in {"bin", "header", "dirlink", "desktop"} : f = <<n, brev>>
    BY DEF Built
  <2> QED
    BY <1>1, <1>2, <2>1
<1> QED
  BY <1>1, <1>2, <1>3

\* Joined directories hold files of both, and all of the first.
LEMMA JoinedFiles ==
    ASSUME NEW given, NEW more
    PROVE  given \subseteq Joined(given, more) /\ Joined(given, more) \subseteq given \cup more
BY DEF Joined

\* The build script fills the output.
LEMMA ContainerStep ==
    ASSUME ProjectInv, BuildInContainer PROVE ProjectInv'
<1>1. bpc = "build" /\ UNCHANGED <<proj, brev, sources, deps, mods, upper, repo, stale, blayers, remote>>
  BY DEF BuildInContainer
<1>2. brev \in Nat /\ DirectoryOK
  BY DEF ProjectInv, ProjectTypeOK
<1>3. /\ Built(brev) \in SUBSET BuildFile /\ (\A f \in Built(brev) : f[2] = brev)
      /\ <<"bin", brev>> \in BuildFile /\ <<"bin", brev>>[2] = brev
  BY <1>2, FilePairs
<1>4. PICK new \in SUBSET BuildFile :
        /\ out' = Joined(new, out) /\ \A f \in new : f[2] = brev
        /\ \/ new = Built(brev) /\ bpc' = "precommit" /\ UNCHANGED <<opts, ignored>>
           \/ CommandEnds
  BY <1>3 DEF BuildInContainer
<1>5. new \subseteq out' /\ out' \subseteq new \cup out
  BY <1>4, JoinedFiles
<1>6. DirectoryOK'
  BY <1>1, <1>2, <1>4, <1>5 DEF DirectoryOK
<1>7. CASE CommandEnds
  BY <1>1, <1>6, <1>7, EndsStep
<1>8. CASE ~CommandEnds
  <2>1. new = Built(brev) /\ bpc' = "precommit" /\ UNCHANGED <<opts, ignored>>
    BY <1>4, <1>8
  <2>2. ProjectTypeOK' /\ RepositoryInv' /\ CacheInv' /\ PushedInv'
    BY <1>1, <1>6, <2>1, StageStep DEF Building, FromPull, FromBuild, FromModules, Committing
  <2>3. FetchedInv'
    BY <1>1, <2>1, FetchedKept DEF FromPull, FromBuild
  <2>4. Built(brev)' = Built(brev) /\ Unclean' = Unclean
    BY <1>1, <2>1 DEF Built, Unclean
  <2>5. ~Unclean => (\A f \in out : f[2] = brev) /\ DOMAIN mods = {}
    BY <1>1 DEF ProjectInv, OutputInv, FromBuild, FromModules, Committing
  <2>6. OutputInv' /\ ModulesInv'
    BY <1>1, <1>4, <1>5, <2>1, <2>4, <2>5 DEF OutputInv, ModulesInv, FromModules, Committing
  <2> QED
    BY <2>2, <2>3, <2>6 DEF ProjectInv
<1> QED
  BY <1>7, <1>8

\* The libraries of buildext.apt.depends join the output.
LEMMA PreCommitStep ==
    ASSUME ProjectInv, PreCommit PROVE ProjectInv'
<1>1. bpc = "precommit" /\ UNCHANGED <<proj, brev, sources, deps, mods, cache, repo, stale, blayers, remote>>
  BY DEF PreCommit
<1>2. brev \in Nat /\ DirectoryOK
  BY DEF ProjectInv, ProjectTypeOK
<1>3. ~Unclean => (\A f \in out : f[2] = brev) /\ DOMAIN mods = {} /\ Built(brev) \subseteq out
  BY <1>1 DEF ProjectInv, OutputInv, FromBuild, FromModules, Committing
<1>4. ASSUME DirectoryOK', bpc' = "install", opts' = opts, ignored \subseteq ignored',
             ~Unclean' => (\A f \in out' : f[2] = brev) /\ Produced' \subseteq out'
      PROVE  ProjectInv'
  <2>1. ProjectTypeOK' /\ RepositoryInv' /\ CacheInv' /\ PushedInv'
    BY <1>1, <1>4, StageStep DEF Building, FromPull, FromBuild, FromModules, Committing
  <2>2. FetchedInv'
    BY <1>1, <1>4, FetchedKept DEF FromPull, FromBuild
  <2>3. ~Unclean' => ~Unclean
    BY <1>4 DEF Unclean
  <2>4. OutputInv' /\ ModulesInv'
    BY <1>1, <1>3, <1>4, <2>3 DEF OutputInv, ModulesInv, FromModules, Committing
  <2> QED
    BY <2>1, <2>2, <2>4 DEF ProjectInv
<1>5. CASE ~proj.depends
  <2>1. bpc' = "install" /\ UNCHANGED <<opts, ignored, upper, out>>
    BY <1>5 DEF PreCommit
  <2>2. DirectoryOK'
    BY <1>1, <1>2, <2>1 DEF DirectoryOK
  <2>3. Unclean' = Unclean /\ Produced' = Built(brev)
    BY <1>1, <1>5, <2>1 DEF Unclean, Produced, Built
  <2> QED
    BY <1>3, <1>4, <2>1, <2>2, <2>3
<1>6. CASE proj.depends
  <2>1. PICK old, obtained, folder, merged :
          /\ old \in Left(upper.prepare) /\ obtained \in SUBSET Depends(brev)
          /\ folder = Joined(obtained, MakeOverlay(old)) /\ merged \in SUBSET MergeOutput(folder)
          /\ upper' = [upper EXCEPT !.prepare = folder]
          /\ \/ /\ out' = Joined(out, merged) /\ bpc' = "install" /\ UNCHANGED <<opts, btodo>>
                /\ ignored' = ignored \cup (Noted(old # {}, "overlay") \cup Noted(obtained # Depends(brev), "apt")
                                            \cup Noted(merged # MergeOutput(folder), "merge"))
             \/ CommandEnds /\ UNCHANGED out
    BY <1>6 DEF PreCommit, InstallDepends, Ignoring
  <2>2. /\ \A f \in Depends(brev) : f \in OverlayFile /\ f[2] = brev
        /\ <<"whiteout", 0>> \in OverlayFile /\ <<"whiteout", 0>>[2] = 0 /\ <<"whiteout", 0>>[1] = "whiteout"
    BY <1>2 DEF Depends, OverlayFile
  <2>3. folder \subseteq obtained \cup MakeOverlay(old) /\ obtained \subseteq folder
    BY <2>1, JoinedFiles
  <2>4. folder \in SUBSET OverlayFile /\ \A f \in folder : f[2] <= brev
    <3>1. upper.prepare \in SUBSET OverlayFile /\ \A f \in upper.prepare : f[2] <= brev
      BY <1>2 DEF DirectoryOK
    <3>2. old \subseteq upper.prepare
      BY <2>1 DEF Left
    <3>3. MakeOverlay(old) = old \cup {<<"whiteout", 0>>}
      BY DEF MakeOverlay
    <3>4. ASSUME NEW f \in folder PROVE f \in OverlayFile /\ f[2] <= brev
      <4>1. CASE f \in obtained
        <5>1. f \in OverlayFile /\ f[2] = brev
          BY <2>1, <2>2, <4>1
        <5> QED
          BY <1>2, <5>1
      <4>2. CASE f \in old
        BY <3>1, <3>2, <4>2
      <4>3. CASE f = <<"whiteout", 0>>
        BY <1>2, <2>2, <4>3
      <4> QED
        BY <2>3, <3>3, <3>4, <4>1, <4>2, <4>3
    <3> QED
      BY <3>4
  <2>5. merged \in SUBSET BuildFile /\ \A f \in merged : f[2] <= brev /\ f \in folder /\ f[1] \notin {"doc", "whiteout"}
    <3>1. ASSUME NEW f \in merged PROVE f \in folder /\ f[1] \notin {"doc", "whiteout"}
      BY <2>1, <3>1 DEF MergeOutput
    <3>2. ASSUME NEW f \in merged PROVE f \in BuildFile
      <4>1. f \in OverlayFile /\ f[1] \notin {"doc", "whiteout"}
        BY <2>4, <3>1, <3>2
      <4>2. f = <<"dep", f[2]>> /\ f[2] \in Nat
        BY <4>1 DEF OverlayFile
      <4> QED
        BY <4>2 DEF BuildFile, ProducedNames, OutputNames
    <3> QED
      BY <2>4, <3>1, <3>2
  <2>6. out' \subseteq out \cup merged
    BY <2>1, JoinedFiles
  <2>7. DirectoryOK'
    <3>1. upper' \in [build : SUBSET ({"whiteout", "buildDepends"} \X Nat), prepare : SUBSET OverlayFile]
          /\ upper'.prepare = folder
      BY <1>2, <2>1, <2>4 DEF DirectoryOK
    <3> QED
      BY <1>1, <1>2, <2>4, <2>5, <2>6, <3>1 DEF DirectoryOK
  <2>8. CASE CommandEnds
    BY <1>1, <2>7, <2>8, EndsStep
  <2>9. CASE ~CommandEnds
    <3>1. /\ out' = Joined(out, merged) /\ bpc' = "install" /\ opts' = opts
          /\ ignored' = ignored \cup (Noted(old # {}, "overlay") \cup Noted(obtained # Depends(brev), "apt")
                                      \cup Noted(merged # MergeOutput(folder), "merge"))
      BY <2>1, <2>9
    <3>2. ~Unclean' => ~Unclean /\ old = {}
      BY <3>1 DEF Unclean, Noted
    <3>3. ASSUME ~Unclean' PROVE \A f \in out' : f[2] = brev
      <4>1. folder \subseteq obtained \cup {<<"whiteout", 0>>}
        BY <2>3, <3>2, <3>3 DEF MakeOverlay
      <4>2. \A f \in merged : f[2] = brev
        <5>1. ASSUME NEW f \in merged PROVE f[2] = brev
          <6>1. f \in folder /\ f # <<"whiteout", 0>>
            BY <2>2, <2>5, <5>1
          <6>2. f \in Depends(brev)
            BY <2>1, <4>1, <6>1
          <6> QED
            BY <2>2, <6>2
        <5> QED
          BY <5>1
      <4> QED
        BY <1>3, <2>6, <3>2, <3>3, <4>2
    <3>4. ASSUME ~Unclean' PROVE Produced' \subseteq out'
      <4>1. Built(brev) \subseteq out /\ out \subseteq out'
        BY <1>3, <3>1, <3>2, <3>4, JoinedFiles
      <4>2. Produced' = Built(brev) \cup (IF ignored' \cap {"apt", "merge"} = {} THEN {<<"dep", brev>>} ELSE {})
        BY <1>1, <1>6 DEF Produced, Built
      <4>3. ASSUME ignored' \cap {"apt", "merge"} = {} PROVE <<"dep", brev>> \in out'
        <5>1. obtained = Depends(brev) /\ merged = MergeOutput(folder)
          BY <3>1, <4>3 DEF Noted
        <5>2. <<"dep", brev>> \in merged /\ <<"dep", brev>>[1] = "dep"
          BY <2>3, <5>1 DEF Depends, MergeOutput
        <5>3. ASSUME "dep" \in Names(out) PROVE <<"dep", brev>> \in out
          <6>1. PICK f \in out : f[1] = "dep"
            BY <5>3 DEF Names
          <6>2. f[2] = brev /\ f \in BuildFile
            BY <1>2, <1>3, <3>2, <3>4 DEF DirectoryOK
          <6>3. f = <<f[1], f[2]>>
            BY <6>2 DEF BuildFile
          <6> QED
            BY <6>1, <6>2, <6>3
        <5> QED
          BY <3>1, <5>2, <5>3 DEF Joined
      <4> QED
        BY <4>1, <4>2, <4>3
    <3> QED
      BY <1>4, <2>7, <3>1, <3>3, <3>4
  <2> QED
    BY <2>8, <2>9
<1> QED
  BY <1>5, <1>6

\* What a build produces does not change while it is under way.
LEMMA SameFiles ==
    ASSUME UNCHANGED <<proj, brev>>
    PROVE  /\ NamesToPush(proj)' = NamesToPush(proj)
           /\ ignored' \cap {"apt", "merge"} = ignored \cap {"apt", "merge"} => Produced' = Produced
BY DEF Produced, Built, NamesToPush, ModuleNames

\* A rule moves files from the output to a module, and copies links.
RuleApplied(m, given, ms, rest) ==
    ms = WithModule(m, FilesOf(m) \cup given) /\ rest = out \ Moved(given)
\* Whatever part of a rule is applied, the types and the ages stay.
PartKeeps(m, given, ms, rest) ==
    /\ rest \in SUBSET BuildFile /\ ms \in [DOMAIN ms -> SUBSET BuildFile]
    /\ DOMAIN ms = DOMAIN mods \cup {m} /\ ms[m] = FilesOf(m) \cup given
    /\ \A x \in DOMAIN mods \ {m} : ms[x] = mods[x]
    /\ \A f \in rest : f[2] <= brev
    /\ \A x \in DOMAIN ms : \A f \in ms[x] : f[2] <= brev
\* Applied as a whole, in a clean build, it loses and doubles no file.
RuleKeeps(ms, rest) ==
    /\ \A f \in rest : f[2] = brev
    /\ \A x \in DOMAIN ms : \A f \in ms[x] : f[2] = brev
    /\ \A f \in Produced : f \in rest \/ \E x \in DOMAIN ms : f \in ms[x]
    /\ "full_develop" \notin opts =>
         \A f \in Produced : f[1] \notin Links =>
            /\ \A x \in DOMAIN ms : f \in ms[x] => f \notin rest
            /\ \A x, y \in DOMAIN ms : f \in ms[x] /\ f \in ms[y] => x = y

\* What a part of a rule keeps.
LEMMA PartStep ==
    ASSUME ProjectInv, NEW m, NEW given \in SUBSET out, NEW ms, NEW rest, RuleApplied(m, given, ms, rest)
    PROVE  PartKeeps(m, given, ms, rest)
<1>1. /\ out \in SUBSET BuildFile /\ mods \in [DOMAIN mods -> SUBSET BuildFile]
      /\ \A f \in out : f[2] <= brev
      /\ \A x \in DOMAIN mods : \A f \in mods[x] : f[2] <= brev
  BY DEF ProjectInv, ProjectTypeOK, DirectoryOK
<1>2. FilesOf(m) = IF m \in DOMAIN mods THEN mods[m] ELSE {}
  BY DEF FilesOf
<1>3. PICK taking : taking = FilesOf(m) \cup given
  OBVIOUS
<1>4. taking \in SUBSET BuildFile /\ \A f \in taking : f[2] <= brev
  BY <1>1, <1>2, <1>3
<1>5. ms = WithModule(m, taking) /\ rest = out \ Moved(given)
  BY <1>3 DEF RuleApplied
<1>6. /\ ms \in [DOMAIN mods \cup {m} -> SUBSET BuildFile] /\ ms[m] = taking
      /\ \A x \in DOMAIN mods \ {m} : ms[x] = mods[x]
  BY <1>1, <1>4, <1>5 DEF WithModule
<1>7. DOMAIN ms = DOMAIN mods \cup {m}
  BY <1>6
<1>8. \A x \in DOMAIN ms : \A f \in ms[x] : f[2] <= brev
  BY <1>1, <1>4, <1>6, <1>7
<1>9. rest \in SUBSET BuildFile /\ \A f \in rest : f[2] <= brev
  BY <1>1, <1>5
<1>10. ms \in [DOMAIN ms -> SUBSET BuildFile]
  BY <1>6, <1>7
<1> QED
  BY <1>3, <1>6, <1>7, <1>8, <1>9, <1>10 DEF PartKeeps

\* In a clean build a file with the name of another is that file.
LEMMA OneName ==
    ASSUME ProjectInv, bpc \in FromBuild, ~Unclean, NEW m, NEW names
    PROVE  FilesOf(m) \cup Taken(m, names) = FilesOf(m) \cup Matching(names)
           /\ \A f \in Matching(names) : f \in Taken(m, names) <=> f \notin FilesOf(m)
<1>1. /\ out \in SUBSET BuildFile /\ FilesOf(m) \in SUBSET BuildFile
      /\ \A f \in out : f[2] = brev
      /\ \A f \in FilesOf(m) : f[2] = brev
  BY DEF ProjectInv, ProjectTypeOK, DirectoryOK, OutputInv, FilesOf
<1>2. ASSUME NEW f \in Matching(names), NEW g \in FilesOf(m), f[1] = g[1] PROVE f = g
  <2>1. f \in out
    BY DEF Matching
  <2>2. f \in BuildFile /\ g \in BuildFile /\ f[2] = g[2]
    BY <1>1, <1>2, <2>1
  <2>3. f = <<f[1], f[2]>> /\ g = <<g[1], g[2]>>
    BY <2>2 DEF BuildFile
  <2> QED
    BY <1>2, <2>2, <2>3
<1>3. ASSUME NEW f \in Matching(names) PROVE f[1] \in Names(FilesOf(m)) <=> f \in FilesOf(m)
  BY <1>2 DEF Names
<1>4. \A f \in Matching(names) : f \in Taken(m, names) <=> f \notin FilesOf(m)
  BY <1>3 DEF Taken
<1>5. Taken(m, names) \subseteq Matching(names)
  BY DEF Taken
<1> QED
  BY <1>4, <1>5

\* No file is lost or doubled by a rule.
LEMMA RuleStep ==
    ASSUME ProjectInv, bpc = "modules", ~Unclean, NEW m, NEW names, NEW ms, NEW rest,
           RuleApplied(m, Taken(m, names), ms, rest)
    PROVE  RuleKeeps(ms, rest)
<1>1. /\ \A f \in out : f[2] = brev
      /\ \A x \in DOMAIN mods : \A f \in mods[x] : f[2] = brev
      /\ \A f \in Produced : f \in out \/ \E x \in DOMAIN mods : f \in mods[x]
      /\ "full_develop" \notin opts =>
           \A f \in Produced : f[1] \notin Links =>
              /\ \A x \in DOMAIN mods : f \in mods[x] => f \notin out
              /\ \A x, y \in DOMAIN mods : f \in mods[x] /\ f \in mods[y] => x = y
  BY DEF ProjectInv, OutputInv, ModulesInv, FromBuild, FromModules
<1>2. Matching(names) \subseteq out /\ Taken(m, names) \subseteq Matching(names)
      /\ Moved(Taken(m, names)) \subseteq Taken(m, names)
  BY DEF Matching, Moved, Taken
<1>3. FilesOf(m) = IF m \in DOMAIN mods THEN mods[m] ELSE {}
  BY DEF FilesOf
<1>4. /\ FilesOf(m) \cup Taken(m, names) = FilesOf(m) \cup Matching(names)
      /\ \A f \in Matching(names) : f \in Taken(m, names) <=> f \notin FilesOf(m)
  BY OneName DEF FromBuild, FromModules
<1>5. PartKeeps(m, Taken(m, names), ms, rest) /\ rest = out \ Moved(Taken(m, names))
  <2>1. Taken(m, names) \in SUBSET out
    BY <1>2
  <2>2. PICK given \in SUBSET out : given = Taken(m, names)
    BY <2>1
  <2>3. RuleApplied(m, given, ms, rest)
    BY <2>2
  <2> QED
    BY <2>2, <2>3, PartStep DEF RuleApplied
<1>6. /\ DOMAIN ms = DOMAIN mods \cup {m} /\ ms[m] = FilesOf(m) \cup Matching(names)
      /\ \A x \in DOMAIN mods \ {m} : ms[x] = mods[x]
  BY <1>4, <1>5 DEF PartKeeps
<1>7. rest \subseteq out /\ \A f \in out \ rest : f \in ms[m]
  BY <1>2, <1>5, <1>6
<1>8. ASSUME NEW x \in DOMAIN ms, NEW f \in ms[x]
      PROVE  (x \in DOMAIN mods /\ f \in mods[x]) \/ (x = m /\ f \in Matching(names))
  <2>1. CASE x = m
    BY <1>3, <1>6, <1>8, <2>1
  <2>2. CASE x # m
    BY <1>6, <1>8, <2>2
  <2> QED
    BY <2>1, <2>2
<1>9. \A x \in DOMAIN mods : mods[x] \subseteq ms[x]
  BY <1>3, <1>6
<1>10. \A f \in rest : f[2] = brev
  BY <1>1, <1>7
<1>11. \A x \in DOMAIN ms : \A f \in ms[x] : f[2] = brev
  BY <1>1, <1>2, <1>8
<1>12. \A f \in Produced : f \in rest \/ \E x \in DOMAIN ms : f \in ms[x]
  BY <1>1, <1>6, <1>7, <1>9
<1>13. ASSUME "full_develop" \notin opts, NEW f \in Produced, f[1] \notin Links
       PROVE  /\ \A x \in DOMAIN ms : f \in ms[x] => f \notin rest
              /\ \A x, y \in DOMAIN ms : f \in ms[x] /\ f \in ms[y] => x = y
  <2>1. CASE f \in Matching(names)
    <3>1. f \in out /\ \A x \in DOMAIN mods : f \notin mods[x]
      BY <1>1, <1>2, <1>13, <2>1
    <3>2. f \in Moved(Taken(m, names))
      BY <1>3, <1>4, <1>13, <2>1, <3>1 DEF Moved
    <3> QED
      BY <1>5, <1>8, <3>1, <3>2
  <2>2. CASE f \notin Matching(names)
    BY <1>1, <1>7, <1>8, <1>13, <2>2
  <2> QED
    BY <2>1, <2>2
<1> QED
  BY <1>10, <1>11, <1>12, <1>13 DEF RuleKeeps

\* The modules to install, and their names.
LEMMA DeclaredModules ==
    ASSUME ProjectInv
    PROVE  LET list == ProjectModules(proj, opts) IN
           /\ list \in Seq(RulesOfModules)
           /\ {list[i].name : i \in DOMAIN list} =
                 ModuleNames(proj) \cup (IF "develop" \in ModuleNames(proj) \/ "full_develop" \in opts THEN {}
                                         ELSE {"develop"})
<1> DEFINE names(list) == {list[i].name : i \in DOMAIN list}
<1>1. proj.modules \in Seq(Declarations)
  BY BuilderAssumption DEF ProjectInv, ProjectTypeOK
<1>2. Len(proj.modules) \in Nat /\ DOMAIN proj.modules = 1..Len(proj.modules)
      /\ \A i \in 1..Len(proj.modules) : proj.modules[i] \in Declarations
  BY <1>1
<1>3. names(proj.modules) = ModuleNames(proj)
  BY DEF ModuleNames
<1>4. proj.modules \in Seq(RulesOfModules)
  <2>1. ASSUME NEW i \in 1..Len(proj.modules) PROVE proj.modules[i] \in RulesOfModules
    <3>1. proj.modules[i].name \in NamesToPush(proj)
      BY <1>2, <2>1 DEF NamesToPush, ModuleNames
    <3> QED
      BY <1>2, <2>1, <3>1 DEF RulesOfModules, Declarations
  <2> QED
    BY <1>1, <1>2, <2>1
<1>5. DefaultDevelop \in RulesOfModules /\ DefaultDevelop.name = "develop"
  <2>1. {"header"} \in SUBSET OutputNames
    BY DEF OutputNames
  <2>2. <<{"header"}>> \in Seq(SUBSET OutputNames)
    BY <2>1
  <2> QED
    BY <2>2 DEF DefaultDevelop, RulesOfModules, NamesToPush
<1>6. CASE "develop" \in ModuleNames(proj) \/ "full_develop" \in opts
  <2>1. ProjectModules(proj, opts) = proj.modules
    <3>1. ProjectModules(proj, opts) = proj.modules \o <<>>
      BY <1>6 DEF ProjectModules
    <3> QED
      BY <1>1, <3>1
  <2> QED
    BY <1>3, <1>4, <1>6, <2>1
<1>7. CASE ~("develop" \in ModuleNames(proj) \/ "full_develop" \in opts)
  <2>1. PICK list : list = ProjectModules(proj, opts)
    OBVIOUS
  <2>2. list = proj.modules \o <<DefaultDevelop>>
    BY <1>7, <2>1 DEF ProjectModules
  <2>3. PICK n \in Nat : n = Len(proj.modules)
    BY <1>2
  <2>4. /\ list \in Seq(RulesOfModules) /\ DOMAIN list = 1..(n + 1)
        /\ \A i \in 1..n : list[i] = proj.modules[i]
        /\ list[n + 1] = DefaultDevelop
    BY <1>4, <1>5, <2>2, <2>3
  <2>5. {list[i].name : i \in DOMAIN list} = names(proj.modules) \cup {"develop"}
    <3>1. DOMAIN list = (1..n) \cup {n + 1} /\ DOMAIN proj.modules = 1..n
      BY <1>2, <2>3, <2>4
    <3>2. \A i \in 1..n : list[i].name = proj.modules[i].name
      BY <2>4
    <3>3. list[n + 1].name = "develop"
      BY <1>5, <2>4
    <3> QED
      BY <3>1, <3>2, <3>3
  <2>6. list \in Seq(RulesOfModules) /\ names(list) = ModuleNames(proj) \cup {"develop"}
    BY <1>3, <2>4, <2>5
  <2> QED
    BY <1>7, <2>1, <2>6
<1> QED
  BY <1>6, <1>7

\* The types and the repository, while the modules are installed.
LEMMA ModulesStage ==
    ASSUME ProjectInv, bpc \in {"install", "modules"}, bpc' \in {"modules", "clean"},
           UNCHANGED <<proj, opts, brev, sources, deps, repo, stale, blayers>>, ignored \subseteq ignored',
           DirectoryOK',
           bpc' = "modules" => btodo' \in Seq(RulesOfModules)
    PROVE  ProjectTypeOK' /\ FetchedInv' /\ RepositoryInv' /\ CacheInv' /\ PushedInv'
<1>1. KnownAges'
  BY AgesKept DEF ProjectInv, RepositoryInv
<1>2. RulesOfModules' = RulesOfModules
  BY SameFiles DEF RulesOfModules
<1>3. bpc' \in Building \ Committing /\ bpc \in Building \ Committing
  BY DEF Building, FromPull, FromBuild, FromModules, Committing
<1>4. ProjectTypeOK'
  BY <1>2, <1>3 DEF ProjectInv, ProjectTypeOK, Committing
<1>5. RepositoryInv'
  BY <1>1, <1>3 DEF ProjectInv, RepositoryInv
<1>6. FetchedInv'
  BY FetchedKept DEF FromPull, FromBuild, FromModules
<1> QED
  BY <1>4, <1>5, <1>6 DEF CacheInv, PushedInv

\* installFiles() begins.
LEMMA InstallFilesStep ==
    ASSUME ProjectInv, InstallFiles PROVE ProjectInv'
<1>1. bpc = "install" /\ UNCHANGED <<proj, brev, sources, deps, out, upper, cache, repo, stale, blayers, remote>>
  BY DEF InstallFiles
<1>2. DirectoryOK /\ ProjectModules(proj, opts) \in Seq(RulesOfModules)
  BY DeclaredModules DEF ProjectInv, ProjectTypeOK
<1>3. ~Unclean => DOMAIN mods = {} /\ Produced \subseteq out /\ \A f \in out : f[2] = brev
  BY <1>1 DEF ProjectInv, OutputInv, FromBuild, FromModules, Committing
<1>4. CASE CommandEnds
  <2>1. UNCHANGED mods
    BY <1>4 DEF InstallFiles, CommandEnds
  <2> QED
    BY <1>1, <1>4, <2>1, EndsUnchanged
<1>5. CASE ~CommandEnds
  <2>1. /\ bpc' = "modules" /\ btodo' = ProjectModules(proj, opts) /\ UNCHANGED <<opts, ignored>>
        /\ IF "full_develop" \in opts THEN mods' = WithModule("develop", FilesOf("develop") \cup out) ELSE mods' = mods
    BY <1>5 DEF InstallFiles
  <2>2. Unclean' = Unclean /\ Produced' = Produced /\ NamesToPush(proj)' = NamesToPush(proj)
    BY <1>1, <2>1, SameFiles DEF Unclean
  <2>3. {btodo'[i].name : i \in DOMAIN btodo'} =
           ModuleNames(proj) \cup (IF "develop" \in ModuleNames(proj) \/ "full_develop" \in opts THEN {}
                                   ELSE {"develop"})
    BY <2>1, DeclaredModules
  <2>4. /\ mods' \in [DOMAIN mods' -> SUBSET BuildFile]
        /\ DOMAIN mods' = IF "full_develop" \in opts THEN DOMAIN mods \cup {"develop"} ELSE DOMAIN mods
        /\ \A m \in DOMAIN mods' : \A f \in mods'[m] : f \in out \/ (m \in DOMAIN mods /\ f \in mods[m])
    <3>1. CASE "full_develop" \in opts
      <4>1. PICK given : given = FilesOf("develop") \cup out
        OBVIOUS
      <4>2. given \in SUBSET BuildFile
        BY <1>2, <4>1 DEF DirectoryOK, FilesOf
      <4>3. mods' = [x \in DOMAIN mods \cup {"develop"} |-> IF x = "develop" THEN given ELSE mods[x]]
        BY <2>1, <3>1, <4>1 DEF WithModule
      <4>4. DOMAIN mods' = DOMAIN mods \cup {"develop"}
        BY <4>3
      <4>5. mods' \in [DOMAIN mods' -> SUBSET BuildFile]
        BY <1>2, <4>2, <4>3, <4>4 DEF DirectoryOK
      <4>6. ASSUME NEW m \in DOMAIN mods', NEW f \in mods'[m]
            PROVE  f \in out \/ (m \in DOMAIN mods /\ f \in mods[m])
        <5>1. CASE m = "develop"
          BY <4>1, <4>3, <4>4, <4>6, <5>1 DEF FilesOf
        <5>2. CASE m # "develop"
          BY <4>3, <4>4, <4>6, <5>2
        <5> QED
          BY <5>1, <5>2
      <4> QED
        BY <3>1, <4>4, <4>5, <4>6
    <3>2. CASE "full_develop" \notin opts
      BY <1>2, <2>1, <3>2 DEF DirectoryOK
    <3> QED
      BY <3>1, <3>2
  <2>5. DirectoryOK'
    BY <1>1, <1>2, <2>4 DEF DirectoryOK
  <2>6. ProjectTypeOK' /\ FetchedInv' /\ RepositoryInv' /\ CacheInv' /\ PushedInv'
    BY <1>1, <1>2, <2>1, <2>5, ModulesStage
  <2>7. OutputInv'
    BY <1>1, <1>3, <2>1, <2>2, <2>4 DEF OutputInv, FromModules, FromBuild
  <2>8. NamesToPush(proj) \subseteq DOMAIN mods' \cup {btodo'[i].name : i \in DOMAIN btodo'} \cup {"binary"}
    BY <2>3, <2>4 DEF NamesToPush
  <2>9. ~Unclean => DOMAIN mods' \subseteq NamesToPush(proj)
    BY <1>3, <2>4 DEF NamesToPush
  <2>10. ~Unclean /\ "full_develop" \notin opts => DOMAIN mods' = {}
    BY <1>3, <2>4
  <2>11. ModulesInv'
    <3>1. bpc' \in FromModules /\ bpc' \notin {"clean"} \cup Committing /\ opts' = opts /\ out' = out
      BY <1>1, <2>1 DEF FromModules, Committing
    <3>2. (bpc \in FromModules /\ ~Unclean =>
             /\ \A f \in Produced : f \in out \/ \E m \in DOMAIN mods : f \in mods[m]
             /\ "full_develop" \notin opts =>
                  \A f \in Produced : f[1] \notin Links =>
                     /\ \A m \in DOMAIN mods : f \in mods[m] => f \notin out
                     /\ \A m, n \in DOMAIN mods : f \in mods[m] /\ f \in mods[n] => m = n)'
      BY <1>3, <2>2, <2>10, <3>1
    <3> QED
      BY <2>1, <2>2, <2>8, <2>9, <3>1, <3>2 DEF ModulesInv
  <2> QED
    BY <2>6, <2>7, <2>11 DEF ProjectInv
<1> QED
  BY <1>4, <1>5

\* The names of the modules still to install.
LEMMA RestOfModules ==
    ASSUME NEW S, NEW s \in Seq(S), s # <<>>
    PROVE  /\ Head(s) \in S /\ Tail(s) \in Seq(S)
           /\ {s[i].name : i \in DOMAIN s} = {Head(s).name} \cup {Tail(s)[i].name : i \in DOMAIN Tail(s)}
<1>1. ToSet(s) = ToSet(Tail(s)) \cup {Head(s)} /\ Head(s) \in S /\ Tail(s) \in Seq(S)
  BY TailElements
<1>2. \A t : {t[i].name : i \in DOMAIN t} = {e.name : e \in ToSet(t)}
  BY DEF ToSet
<1>3. {s[i].name : i \in DOMAIN s} = {e.name : e \in ToSet(s)}
  BY <1>2
<1>4. {Tail(s)[i].name : i \in DOMAIN Tail(s)} = {e.name : e \in ToSet(Tail(s))}
  BY <1>2
<1>5. {e.name : e \in ToSet(s)} = {Head(s).name} \cup {e.name : e \in ToSet(Tail(s))}
  BY <1>1
<1> QED
  BY <1>1, <1>3, <1>4, <1>5

\* A module, or one of its rules.
LEMMA InstallModuleStep ==
    ASSUME ProjectInv, InstallModule PROVE ProjectInv'
<1>1. /\ bpc = "modules" /\ btodo # <<>>
      /\ UNCHANGED <<proj, brev, sources, deps, upper, cache, repo, stale, blayers, remote>>
  BY DEF InstallModule
<1>2. PICK m : m = Head(btodo)
  OBVIOUS
<1>3. /\ btodo \in Seq(RulesOfModules) /\ DirectoryOK
      /\ NamesToPush(proj) \subseteq DOMAIN mods \cup {btodo[i].name : i \in DOMAIN btodo} \cup {"binary"}
      /\ ~Unclean => DOMAIN mods \subseteq NamesToPush(proj)
  BY <1>1 DEF ProjectInv, ProjectTypeOK, ModulesInv
<1>4. /\ m \in RulesOfModules /\ Tail(btodo) \in Seq(RulesOfModules)
      /\ {btodo[i].name : i \in DOMAIN btodo} = {m.name} \cup {Tail(btodo)[i].name : i \in DOMAIN Tail(btodo)}
  BY <1>1, <1>2, <1>3, RestOfModules
<1>5. ASSUME NEW given \in SUBSET out, InstallRule(m.name, given)
      PROVE  DirectoryOK' /\ DOMAIN mods' = DOMAIN mods \cup {m.name}
  <2>1. PICK ms, rest : ms = mods' /\ rest = out'
    OBVIOUS
  <2>2. RuleApplied(m.name, given, ms, rest)
    BY <1>5, <2>1 DEF RuleApplied, InstallRule
  <2>3. PartKeeps(m.name, given, ms, rest)
    BY <1>5, <2>2, PartStep
  <2> QED
    BY <1>1, <1>3, <2>1, <2>3 DEF PartKeeps, DirectoryOK
<1>6. ASSUME NEW names, InstallRule(m.name, Taken(m.name, names)), UNCHANGED <<bpc, opts, ignored>>,
             btodo' \in Seq(RulesOfModules),
             {btodo[i].name : i \in DOMAIN btodo} = {m.name} \cup {btodo'[i].name : i \in DOMAIN btodo'}
      PROVE  ProjectInv'
  <2>1. Taken(m.name, names) \in SUBSET out
    BY DEF Taken, Matching
  <2>2. DirectoryOK' /\ DOMAIN mods' = DOMAIN mods \cup {m.name}
    <3>1. PICK given \in SUBSET out : given = Taken(m.name, names)
      BY <2>1
    <3> QED
      BY <1>5, <1>6, <3>1
  <2>3. Unclean' = Unclean /\ Produced' = Produced /\ NamesToPush(proj)' = NamesToPush(proj)
    BY <1>1, <1>6, SameFiles DEF Unclean
  <2>4. ProjectTypeOK' /\ FetchedInv' /\ RepositoryInv' /\ CacheInv' /\ PushedInv'
    <3>1. /\ bpc \in {"install", "modules"} /\ bpc' \in {"modules", "clean"}
          /\ UNCHANGED <<proj, opts, brev, sources, deps, repo, stale, blayers>> /\ ignored \subseteq ignored'
          /\ btodo' \in Seq(RulesOfModules)
      BY <1>1, <1>6
    <3> QED
      BY <2>2, <3>1, ModulesStage
  <2>5. ASSUME ~Unclean
        PROVE  /\ \A f \in out' : f[2] = brev
               /\ \A x \in DOMAIN mods' : \A f \in mods'[x] : f[2] = brev
               /\ \A f \in Produced : f \in out' \/ \E x \in DOMAIN mods' : f \in mods'[x]
               /\ "full_develop" \notin opts =>
                    \A f \in Produced : f[1] \notin Links =>
                       /\ \A x \in DOMAIN mods' : f \in mods'[x] => f \notin out'
                       /\ \A x, y \in DOMAIN mods' : f \in mods'[x] /\ f \in mods'[y] => x = y
    <3>1. PICK ms, rest : ms = mods' /\ rest = out'
      OBVIOUS
    <3>2. RuleApplied(m.name, Taken(m.name, names), ms, rest)
      BY <1>6, <3>1 DEF RuleApplied, InstallRule
    <3>3. RuleKeeps(ms, rest)
      BY <1>1, <2>5, <3>2, RuleStep
    <3> QED
      BY <3>1, <3>3 DEF RuleKeeps
  <2>6. OutputInv'
    BY <1>1, <1>6, <2>3, <2>5 DEF OutputInv, FromModules, FromBuild
  <2>7. m.name \in NamesToPush(proj)
    BY <1>4 DEF RulesOfModules
  <2>8. (NamesToPush(proj) \subseteq DOMAIN mods \cup {btodo[i].name : i \in DOMAIN btodo} \cup {"binary"})'
        /\ (~Unclean => DOMAIN mods' \subseteq NamesToPush(proj))
    BY <1>3, <1>6, <2>2, <2>3, <2>7
  <2>9. ModulesInv'
    BY <1>1, <1>6, <2>3, <2>5, <2>8 DEF ModulesInv, Committing
  <2> QED
    BY <2>4, <2>6, <2>9 DEF ProjectInv
<1>7. CASE m.rules = <<>>
  <2>1. InstallRule(m.name, {}) /\ btodo' = Tail(btodo) /\ UNCHANGED <<bpc, opts, ignored>>
    BY <1>2, <1>7 DEF InstallModule
  <2>2. Taken(m.name, {}) = {}
    BY DEF Taken, Matching
  <2> QED
    BY <1>4, <1>6, <2>1, <2>2
<1>8. CASE m.rules # <<>> /\ Installable(m.name, Head(m.rules))
  <2>1. PICK names : names = Head(m.rules)
    OBVIOUS
  <2>2. /\ InstallRule(m.name, Taken(m.name, names))
        /\ btodo' = [btodo EXCEPT ![1].rules = Tail(@)] /\ UNCHANGED <<bpc, opts, ignored>>
    BY <1>2, <1>8, <2>1 DEF InstallModule
  <2>3. PICK rest : rest = [m EXCEPT !.rules = Tail(@)]
    OBVIOUS
  <2>4. rest \in RulesOfModules /\ rest.name = m.name
    <3>1. m.rules \in Seq(SUBSET OutputNames) /\ m.name \in NamesToPush(proj)
      BY <1>4 DEF RulesOfModules
    <3>2. Tail(m.rules) \in Seq(SUBSET OutputNames)
      BY <1>8, <3>1, TailElements
    <3>3. rest = [name |-> m.name, rules |-> Tail(m.rules)]
      BY <1>4, <2>3 DEF RulesOfModules
    <3> QED
      BY <3>1, <3>2, <3>3 DEF RulesOfModules
  <2>5. m = btodo[1] /\ 1 \in DOMAIN btodo /\ DOMAIN btodo = 1..Len(btodo) /\ Len(btodo) \in Nat
    BY <1>1, <1>2, <1>3
  <2>6. btodo' = [btodo EXCEPT ![1] = rest]
    BY <2>2, <2>3, <2>5
  <2>7. /\ btodo' \in Seq(RulesOfModules) /\ DOMAIN btodo' = DOMAIN btodo
        /\ \A i \in DOMAIN btodo : btodo'[i] = IF i = 1 THEN rest ELSE btodo[i]
    BY <1>3, <2>4, <2>5, <2>6
  <2>8. \A i \in DOMAIN btodo : btodo'[i].name = btodo[i].name
    BY <2>4, <2>5, <2>7
  <2>9. {btodo'[i].name : i \in DOMAIN btodo'} = {btodo[i].name : i \in DOMAIN btodo}
    BY <2>7, <2>8
  <2> QED
    BY <1>4, <1>6, <2>2, <2>7, <2>9
<1>9. CASE m.rules # <<>> /\ ~Installable(m.name, Head(m.rules))
  <2>1. PICK given \in SUBSET Taken(m.name, Head(m.rules)) : InstallRule(m.name, given) /\ CommandEnds
    BY <1>2, <1>9 DEF InstallModule
  <2>2. given \in SUBSET out
    BY <2>1 DEF Taken, Matching
  <2>3. DirectoryOK'
    BY <1>5, <2>1, <2>2
  <2> QED
    BY <1>1, <2>1, <2>3, EndsStep
<1> QED
  BY <1>7, <1>8, <1>9

\* What generateEntries() does to the modules: it adds entries to binary, or fails to.
LEMMA EntriesStep ==
    ASSUME NEW ms, "binary" \in DOMAIN ms, ms \in [DOMAIN ms -> SUBSET BuildFile], GenerateEntries(ms)
    PROVE  /\ ignored' \in {ignored, ignored \cup {"entries"}}
           /\ \E added \in SUBSET EntriesOf(ms["binary"]) :
                 /\ mods' = [ms EXCEPT !["binary"] = @ \cup added]
                 /\ proj.app /\ "entries" \notin ignored' => added = EntriesOf(ms["binary"])
<1>1. PICK none \in SUBSET EntriesOf(ms["binary"]) : none = {} /\ ms = [ms EXCEPT !["binary"] = @ \cup none]
  <2>1. ms = [ms EXCEPT !["binary"] = @ \cup {}]
    OBVIOUS
  <2> QED
    BY <2>1
<1>2. CASE proj.app /\ mods' = [ms EXCEPT !["binary"] = @ \cup EntriesOf(@)] /\ UNCHANGED ignored
  BY <1>2
<1>3. CASE proj.app /\ mods' = ms /\ ignored' = ignored \cup {"entries"}
  BY <1>1, <1>3
<1>4. CASE proj.app /\ EntriesOf(ms["binary"]) = {} /\ mods' = ms /\ UNCHANGED ignored
  BY <1>1, <1>4
<1>5. CASE ~proj.app /\ mods' = ms /\ UNCHANGED ignored
  BY <1>1, <1>5
<1> QED
  BY <1>2, <1>3, <1>4, <1>5 DEF GenerateEntries, Ignoring

\* What is left goes to binary, and its exported files get entries.
LEMMA InstallBinaryStep ==
    ASSUME ProjectInv, InstallBinary PROVE ProjectInv'
<1>1. /\ bpc = "modules" /\ btodo = <<>>
      /\ UNCHANGED <<proj, brev, sources, deps, upper, cache, repo, stale, blayers, remote>>
  BY DEF InstallBinary
<1>2. PICK names : names = IF proj.install = {} THEN Names(out) ELSE proj.install
  OBVIOUS
<1>3. DirectoryOK /\ brev \in Nat /\ Taken("binary", names) \in SUBSET out
  BY DEF ProjectInv, ProjectTypeOK, Taken, Matching
<1>4. CASE ~Installable("binary", names)
  <2>1. PICK given \in SUBSET Taken("binary", names) : InstallRule("binary", given) /\ CommandEnds
    BY <1>2, <1>4 DEF InstallBinary
  <2>2. given \in SUBSET out
    BY <1>3, <2>1
  <2>3. PICK ms, rest : ms = mods' /\ rest = out'
    OBVIOUS
  <2>4. RuleApplied("binary", given, ms, rest)
    BY <2>1, <2>3 DEF RuleApplied, InstallRule
  <2>5. PartKeeps("binary", given, ms, rest)
    BY <2>2, <2>4, PartStep
  <2>6. DirectoryOK'
    BY <1>1, <1>3, <2>3, <2>5 DEF PartKeeps, DirectoryOK
  <2> QED
    BY <1>1, <2>1, <2>6, EndsStep
<1>5. CASE Installable("binary", names)
  <2>1. PICK ms, rest : /\ ms = WithModule("binary", FilesOf("binary") \cup Taken("binary", names))
                        /\ rest = out \ Moved(Taken("binary", names))
    OBVIOUS
  <2>2. GenerateEntries(ms) /\ out' = rest /\ bpc' = "clean" /\ UNCHANGED <<opts, btodo>>
    BY <1>2, <1>5, <2>1 DEF InstallBinary
  <2>3. RuleApplied("binary", Taken("binary", names), ms, rest)
    BY <2>1 DEF RuleApplied
  <2>4. PartKeeps("binary", Taken("binary", names), ms, rest)
    <3>1. PICK given \in SUBSET out : given = Taken("binary", names)
      BY <1>3
    <3> QED
      BY <2>3, <3>1, PartStep
  <2>5. /\ ms \in [DOMAIN ms -> SUBSET BuildFile]
        /\ DOMAIN ms = DOMAIN mods \cup {"binary"} /\ "binary" \in DOMAIN ms
        /\ rest \in SUBSET BuildFile /\ \A f \in rest : f[2] <= brev
        /\ \A x \in DOMAIN ms : \A f \in ms[x] : f[2] <= brev
    BY <2>4 DEF PartKeeps
  <2>6. ignored' \in {ignored, ignored \cup {"entries"}}
    BY <2>2, <2>5, EntriesStep
  <2>7. PICK added \in SUBSET EntriesOf(ms["binary"]) :
          /\ mods' = [ms EXCEPT !["binary"] = @ \cup added]
          /\ proj.app /\ "entries" \notin ignored' => added = EntriesOf(ms["binary"])
    BY <2>2, <2>5, EntriesStep
  <2>8. ASSUME NEW f \in added
        PROVE  /\ f \in BuildFile /\ f[2] <= brev /\ f \notin Produced /\ ~Exported(f)
               /\ \E g \in ms["binary"] : Exported(g) /\ f[2] = g[2]
    <3>1. PICK g \in ms["binary"] : Exported(g) /\ f = <<"entry", g[2]>>
      BY <2>7, <2>8 DEF EntriesOf
    <3>2. g[2] \in Nat /\ g[2] <= brev
      <4>1. g \in BuildFile /\ g[2] <= brev
        BY <2>5, <3>1
      <4> QED
        BY <4>1 DEF BuildFile
    <3>3. f \in BuildFile /\ f[1] = "entry" /\ f[2] = g[2]
      BY <3>1, <3>2 DEF BuildFile, ProducedNames
    <3>4. \A x \in Produced : x[1] # "entry"
      BY DEF Produced, Built
    <3> QED
      BY <3>1, <3>2, <3>3, <3>4 DEF Exported
  <2>9. /\ DOMAIN mods' = DOMAIN ms /\ mods'["binary"] = ms["binary"] \cup added
        /\ \A x \in DOMAIN ms \ {"binary"} : mods'[x] = ms[x]
    BY <2>5, <2>7
  <2>10. /\ \A x \in DOMAIN mods' : \A f \in mods'[x] : f \in ms[x] \/ f \in added
         /\ \A f \in Produced : \A x \in DOMAIN mods' : f \in mods'[x] <=> f \in ms[x]
    BY <2>8, <2>9
  <2>11. DirectoryOK'
    <3>1. added \in SUBSET BuildFile
      BY <2>8
    <3>2. mods' \in [DOMAIN mods' -> SUBSET BuildFile]
      BY <2>5, <2>7, <3>1
    <3>3. \A x \in DOMAIN mods' : \A f \in mods'[x] : f[2] <= brev
      <4>1. \A f \in added : f[2] <= brev
        BY <2>8
      <4>2. \A x \in DOMAIN mods' : x \in DOMAIN ms
        BY <2>9
      <4>3. ASSUME NEW x \in DOMAIN mods', NEW f \in mods'[x] PROVE f[2] <= brev
        <5>1. f \in ms[x] \/ f \in added
          BY <2>10
        <5> QED
          BY <2>5, <4>1, <4>2, <5>1
      <4> QED
        BY <4>3
    <3> QED
      BY <1>1, <1>3, <2>2, <2>5, <3>2, <3>3 DEF DirectoryOK
  <2>12. ProjectTypeOK' /\ FetchedInv' /\ RepositoryInv' /\ CacheInv' /\ PushedInv'
    BY <1>1, <2>2, <2>6, <2>11, ModulesStage
  <2>13. Unclean' = Unclean /\ Produced' = Produced /\ NamesToPush(proj)' = NamesToPush(proj)
    BY <1>1, <2>6, SameFiles DEF Unclean
  <2>14. NamesToPush(proj) \subseteq DOMAIN mods'
    <3>1. NamesToPush(proj) \subseteq DOMAIN mods \cup {btodo[i].name : i \in DOMAIN btodo} \cup {"binary"}
      BY <1>1 DEF ProjectInv, ModulesInv
    <3>2. {btodo[i].name : i \in DOMAIN btodo} = {}
      BY <1>1
    <3> QED
      BY <2>5, <2>9, <3>1, <3>2
  <2>15. ASSUME ~Unclean
         PROVE  /\ \A f \in out' : f[2] = brev
                /\ \A x \in DOMAIN mods' : \A f \in mods'[x] : f[2] = brev
                /\ \A f \in Produced : f \in out' \/ \E x \in DOMAIN mods' : f \in mods'[x]
                /\ "full_develop" \notin opts =>
                     \A f \in Produced : f[1] \notin Links =>
                        /\ \A x \in DOMAIN mods' : f \in mods'[x] => f \notin out'
                        /\ \A x, y \in DOMAIN mods' : f \in mods'[x] /\ f \in mods'[y] => x = y
    <3>1. RuleKeeps(ms, rest)
      BY <1>1, <2>3, <2>15, RuleStep
    <3>2. \A f \in added : f[2] = brev
      BY <2>5, <2>8, <3>1 DEF RuleKeeps
    <3>3. \A x \in DOMAIN mods' : \A f \in mods'[x] : f[2] = brev
      BY <2>9, <2>10, <3>1, <3>2 DEF RuleKeeps
    <3> QED
      BY <2>2, <2>9, <2>10, <3>1, <3>3 DEF RuleKeeps
  <2>16. ASSUME ~Unclean PROVE DOMAIN mods' \subseteq NamesToPush(proj)
    <3>1. DOMAIN mods \subseteq NamesToPush(proj) /\ "binary" \in NamesToPush(proj)
      BY <1>1, <2>16 DEF ProjectInv, ModulesInv, NamesToPush
    <3> QED
      BY <2>5, <2>9, <3>1
  <2>17. ASSUME ~Unclean, proj.install = {}, NEW f \in Produced PROVE \E x \in DOMAIN mods' : f \in mods'[x]
    <3>1. CASE f \in out'
      <4>1. f \in out /\ f[1] \in names /\ f \in Matching(names)
        BY <1>2, <2>1, <2>2, <2>17, <3>1 DEF Names, Matching
      <4>2. f \in FilesOf("binary") \cup Taken("binary", names)
        BY <1>1, <2>17, <4>1, OneName DEF FromBuild, FromModules
      <4>3. ms["binary"] = FilesOf("binary") \cup Taken("binary", names)
        BY <2>4 DEF PartKeeps
      <4> QED
        BY <2>5, <2>9, <4>2, <4>3
    <3> QED
      BY <2>15, <2>17, <3>1
  <2>18. ASSUME ~Unclean, proj.app, "entries" \notin ignored', NEW f \in mods'["binary"], Exported(f)
         PROVE  <<"entry", brev>> \in mods'["binary"]
    <3>1. f \in ms["binary"] /\ f[2] = brev
      BY <2>5, <2>8, <2>9, <2>15, <2>18
    <3>2. <<"entry", brev>> \in EntriesOf(ms["binary"])
      BY <2>18, <3>1 DEF EntriesOf
    <3> QED
      BY <2>7, <2>9, <2>18, <3>2
  <2>19. OutputInv'
    BY <1>1, <2>2, <2>13, <2>15 DEF OutputInv, FromModules, FromBuild
  <2>20. ModulesInv'
    <3>1. bpc' = "clean" /\ UNCHANGED <<proj, opts, brev>>
      BY <1>1, <2>2
    <3> QED
      BY <2>13, <2>14, <2>15, <2>16, <2>17, <2>18, <3>1 DEF ModulesInv
  <2> QED
    BY <2>12, <2>19, <2>20 DEF ProjectInv
<1> QED
  BY <1>4, <1>5

\* The project directory does not change.
LEMMA DirectoryKept ==
    ASSUME ProjectInv, UNCHANGED <<brev, out, mods, upper>> PROVE DirectoryOK'
BY DEF ProjectInv, ProjectTypeOK, DirectoryOK

\* What a stage keeps of the modules it has installed.
LEMMA ModulesKept ==
    ASSUME ProjectInv, bpc \in {"clean"} \cup Committing, bpc' \in Committing,
           UNCHANGED <<proj, opts, brev, sources, deps, out, mods, ignored>>
    PROVE  FetchedInv' /\ OutputInv' /\ ModulesInv'
<1>1. Produced' = Produced /\ NamesToPush(proj)' = NamesToPush(proj) /\ Unclean' = Unclean
  BY SameFiles DEF Unclean
<1>2. bpc \in FromModules /\ bpc' \in FromModules /\ bpc \in FromBuild /\ bpc' \in FromBuild
      /\ bpc \in FromPull \ {"pull"} /\ bpc' \in FromPull \ {"pull"} /\ bpc' \notin {"precommit", "install", "modules"}
  BY DEF FromPull, FromBuild, FromModules, Committing
<1>3. FetchedInv'
  BY <1>2, FetchedKept
<1>4. OutputInv'
  BY <1>1, <1>2 DEF ProjectInv, OutputInv
<1>5. ModulesInv'
  BY <1>1, <1>2 DEF ProjectInv, ModulesInv
<1> QED
  BY <1>3, <1>4, <1>5

\* commitToLocalRepo() removes the modules of the build before; those it cannot are stale.
LEMMA CleanOldStep ==
    ASSUME ProjectInv, CleanOld PROVE ProjectInv'
<1>1. PICK kept \in Failing : repo' = Kept(kept) /\ stale' = kept
  BY DEF CleanOld
<1>2. /\ bpc = "clean" /\ btodo' = PackageModules(proj) /\ bpc' = "commit"
      /\ UNCHANGED <<proj, opts, brev, sources, deps, out, mods, upper, cache, ignored, blayers, remote>>
  BY DEF CleanOld
<1>3. kept \subseteq DOMAIN repo /\ DOMAIN repo' = kept /\ \A m \in kept : repo'[m] = repo[m]
  BY <1>1 DEF Failing, Kept
<1>4. /\ repo \in [DOMAIN repo -> SUBSET BuildFile] /\ brev \in Nat /\ proj \in Projects /\ KnownAges
      /\ \A m \in DOMAIN repo : \A f \in repo[m] : f[2] < brev
  BY <1>2 DEF ProjectInv, ProjectTypeOK, RepositoryInv, Building, FromPull, FromBuild, FromModules, Committing
<1>5. (repo \in [DOMAIN repo -> SUBSET BuildFile])'
  <2>1. repo' = [m \in kept |-> repo[m]]
    BY <1>1 DEF Kept
  <2> QED
    BY <1>3, <1>4, <2>1
<1>6. /\ btodo' \in Seq(NamesToPush(proj)) /\ ToSet(btodo') = NamesToPush(proj)
      /\ NamesToPush(proj)' = NamesToPush(proj)
  BY <1>2, <1>4, PackagedNames, SameFiles
<1>7. ProjectTypeOK'
  <2>1. DirectoryOK'
    BY <1>2, DirectoryKept
  <2> QED
    BY <1>1, <1>2, <1>3, <1>5, <1>6, <2>1 DEF ProjectInv, ProjectTypeOK, Building, FromPull, FromBuild,
       FromModules, Committing
<1>8. KnownAges'
  <2>1. DOMAIN repo' \ stale' = {} /\ brev' \in 0..brev'
    BY <1>1, <1>2, <1>3, <1>4
  <2> QED
    BY <1>2, <1>3, <1>4, <2>1 DEF KnownAges
<1>9. RepositoryInv'
  BY <1>1, <1>2, <1>3, <1>4, <1>6, <1>8 DEF RepositoryInv, Committing
<1>10. FetchedInv' /\ OutputInv' /\ ModulesInv'
  BY <1>2, ModulesKept DEF Committing
<1> QED
  BY <1>2, <1>7, <1>9, <1>10 DEF ProjectInv, CacheInv, PushedInv

\* ... and adds the new ones, each of which must not be there.
LEMMA CommitStep ==
    ASSUME ProjectInv, CommitModule PROVE ProjectInv'
<1>1. /\ bpc = "commit" /\ btodo # <<>>
      /\ UNCHANGED <<proj, brev, sources, deps, out, mods, upper, cache, blayers, remote>>
  BY DEF CommitModule
<1>2. CASE Head(btodo) \in DOMAIN repo
  BY <1>1, <1>2, EndsUnchanged DEF CommitModule
<1>3. CASE Head(btodo) \notin DOMAIN repo
  <2>1. PICK m : m = Head(btodo)
    OBVIOUS
  <2>2. /\ repo' = Adding(m, mods[m]) /\ btodo' = Tail(btodo) /\ UNCHANGED <<opts, ignored>>
        /\ bpc' = IF Tail(btodo) = <<>> THEN "committed" ELSE "commit"
        /\ stale' = IF Unclean THEN stale \cup {m} ELSE stale
    BY <1>3, <2>1 DEF CommitModule
  <2>3. bpc' \in Committing /\ bpc \in Committing /\ (bpc' = "committed" => btodo' = <<>>)
    BY <1>1, <2>2 DEF Committing
  <2>4. /\ btodo \in Seq(NamesToPush(proj)) /\ repo \in [DOMAIN repo -> SUBSET BuildFile] /\ brev \in Nat
        /\ mods \in [DOMAIN mods -> SUBSET BuildFile] /\ stale \subseteq DOMAIN repo
        /\ NamesToPush(proj) \subseteq DOMAIN mods /\ KnownAges
        /\ NamesToPush(proj) \subseteq DOMAIN repo \cup ToSet(btodo)
        /\ \A x \in DOMAIN mods : \A f \in mods[x] : f[2] <= brev
    BY <2>3 DEF ProjectInv, ProjectTypeOK, DirectoryOK, ModulesInv, RepositoryInv
  <2>5. m \in NamesToPush(proj) /\ btodo' \in Seq(NamesToPush(proj)) /\ ToSet(btodo) = ToSet(btodo') \cup {m}
    BY <1>1, <2>1, <2>2, <2>4, TailElements
  <2>6. mods[m] \in SUBSET BuildFile /\ m \notin DOMAIN repo /\ m \notin stale
    BY <1>3, <2>1, <2>4, <2>5
  <2>7. /\ DOMAIN repo' = DOMAIN repo \cup {m} /\ repo'[m] = mods[m]
        /\ \A x \in DOMAIN repo : repo'[x] = repo[x]
    BY <2>2, <2>6 DEF Adding
  <2>8. (repo \in [DOMAIN repo -> SUBSET BuildFile])'
    <3>1. repo' = [x \in DOMAIN repo \cup {m} |-> IF x \in DOMAIN repo THEN repo[x] ELSE mods[m]]
      BY <2>2 DEF Adding
    <3> QED
      BY <2>4, <2>6, <2>7, <3>1
  <2>9. NamesToPush(proj)' = NamesToPush(proj) /\ Unclean' = Unclean
    BY <1>1, <2>2, SameFiles DEF Unclean
  <2>10. ProjectTypeOK'
    <3>1. DirectoryOK' /\ stale' \subseteq DOMAIN repo'
      BY <1>1, <2>2, <2>4, <2>7, DirectoryKept
    <3> QED
      BY <1>1, <2>2, <2>3, <2>5, <2>7, <2>8, <2>9, <3>1 DEF ProjectInv, ProjectTypeOK, Building, FromPull,
         FromBuild, FromModules, Committing
  <2>11. \A x \in DOMAIN repo' : \A f \in repo'[x] : f[2] <= brev'
    <3>1. \A x \in DOMAIN repo : \A f \in repo[x] : f[2] <= brev
      BY <2>4 DEF KnownAges
    <3>2. \A f \in mods[m] : f[2] <= brev
      BY <2>4, <2>5
    <3> QED
      BY <1>1, <2>7, <3>1, <3>2
  <2>12. NamesToPush(proj) \subseteq DOMAIN repo' \cup ToSet(btodo')
    BY <2>4, <2>5, <2>7
  <2>13. FetchedInv' /\ OutputInv' /\ ModulesInv'
    BY <1>1, <2>2, <2>3, ModulesKept
  <2>14. CASE Unclean
    <3>1. PICK r \in 0..brev : \A x \in DOMAIN repo \ stale : \A f \in repo[x] : f[2] = r
      BY <2>4 DEF KnownAges
    <3>2. DOMAIN repo' \ stale' \subseteq DOMAIN repo \ stale
      BY <2>2, <2>7, <2>14
    <3>3. \A x \in DOMAIN repo' \ stale' : \A f \in repo'[x] : f[2] = r
      BY <2>7, <3>1, <3>2
    <3>4. KnownAges'
      BY <1>1, <2>4, <2>11, <3>1, <3>3 DEF KnownAges
    <3>5. RepositoryInv'
      BY <2>3, <2>9, <2>12, <2>14, <3>4 DEF RepositoryInv, Committing
    <3> QED
      BY <2>3, <2>10, <2>13, <3>5 DEF ProjectInv, CacheInv, PushedInv, Committing
  <2>15. CASE ~Unclean
    <3>1. /\ \A x \in stale : \A f \in repo[x] : f[2] < brev
          /\ \A x \in DOMAIN repo \ stale : x \in DOMAIN mods /\ repo[x] = mods[x]
          /\ (DOMAIN repo \ stale) \cup ToSet(btodo) = NamesToPush(proj)
          /\ \A x \in DOMAIN mods : \A f \in mods[x] : f[2] = brev
      BY <2>3, <2>15 DEF ProjectInv, OutputInv, RepositoryInv, FromBuild, FromModules
    <3>2. stale' = stale
      BY <2>2, <2>15
    <3>3. \A x \in DOMAIN repo' \ stale' : x \in DOMAIN mods' /\ repo'[x] = mods'[x]
      BY <1>1, <2>4, <2>5, <2>6, <2>7, <3>1, <3>2
    <3>4. \A x \in stale' : \A f \in repo'[x] : f[2] < brev'
      BY <1>1, <2>4, <2>7, <3>1, <3>2
    <3>5. KnownAges'
      <4>1. brev' \in 0..brev' /\ \A x \in DOMAIN repo' \ stale' : \A f \in repo'[x] : f[2] = brev'
        BY <1>1, <2>4, <3>1, <3>3
      <4> QED
        BY <1>1, <2>4, <2>11, <4>1 DEF KnownAges
    <3>6. (DOMAIN repo' \ stale') \cup ToSet(btodo') = NamesToPush(proj)
      BY <2>5, <2>6, <2>7, <3>1, <3>2
    <3>7. RepositoryInv'
      BY <2>3, <2>9, <2>12, <3>3, <3>4, <3>5, <3>6 DEF RepositoryInv, Committing
    <3> QED
      BY <2>3, <2>10, <2>13, <3>7 DEF ProjectInv, CacheInv, PushedInv, Committing
  <2> QED
    BY <2>14, <2>15
<1> QED
  BY <1>2, <1>3

\* From here on the repository is only read.
LEMMA ReadingStep ==
    ASSUME ProjectInv, bpc' \in {"ldcache", "running", "push"},
           UNCHANGED <<proj, brev, out, mods, upper, repo, stale, blayers>>,
           bpc' = "push" => btodo' \in Seq(ToSet(ProjectModule(proj))), CacheInv', PushedInv'
    PROVE  ProjectInv'
<1>1. KnownAges'
  BY AgesKept DEF ProjectInv, RepositoryInv
<1>2. bpc' \notin Building
  BY DEF Building, FromPull, FromBuild, FromModules, Committing
<1>3. ToSet(ProjectModule(proj))' = ToSet(ProjectModule(proj))
  BY DEF ToSet, ProjectModule, NamesToPush, ModuleNames, PlaceOf
<1>4. ProjectTypeOK'
  BY <1>2, <1>3, DirectoryKept DEF ProjectInv, ProjectTypeOK, Committing
<1>5. RepositoryInv'
  BY <1>1, <1>2 DEF RepositoryInv, Building, FromPull, FromBuild, FromModules, Committing
<1> QED
  BY <1>2, <1>4, <1>5 DEF ProjectInv, FetchedInv, OutputInv, ModulesInv, Building, FromPull, FromBuild, FromModules,
     Committing

\* runtimeCheck() and run(), up to the library cache.
LEMMA CheckStep ==
    ASSUME ProjectInv, RuntimeCheck PROVE ProjectInv'
<1>1. UNCHANGED <<proj, brev, sources, deps, out, mods, upper, cache, repo, stale, blayers, remote>>
      /\ (bpc' = "ldcache" \/ CommandEnds)
  BY DEF RuntimeCheck
<1>2. CASE bpc' = "ldcache"
  BY <1>1, <1>2, ReadingStep DEF CacheInv, PushedInv
<1>3. CASE CommandEnds
  BY <1>1, <1>3, EndsUnchanged
<1> QED
  BY <1>1, <1>2, <1>3
\* run: the modules asked for are in btodo.
LEMMA RunStep ==
    ASSUME ProjectInv, NEW debug \in BOOLEAN, Run(debug) PROVE ProjectInv'
<1>1. UNCHANGED <<proj, brev, out, mods, upper, repo, stale, blayers>> /\ bpc' = "ldcache"
  BY DEF Run
<1> QED
  BY <1>1, ReadingStep DEF CacheInv, PushedInv
\* The library cache is made for the modules in btodo.
LEMMA LDCacheStep ==
    ASSUME ProjectInv, GenerateLDCache PROVE ProjectInv'
<1>1. UNCHANGED <<proj, brev, sources, deps, out, mods, upper, repo, stale, blayers, remote>>
  BY DEF GenerateLDCache
<1>2. CASE CommandEnds
  BY <1>1, <1>2, EndsUnchanged
<1>3. CASE ~CommandEnds
  <2>1. bpc' = "running" /\ btodo' = btodo /\ cache'.ld = Revisions(ToSet(btodo), repo)
    BY <1>3 DEF GenerateLDCache
  <2>2. Revisions(ToSet(btodo), repo)' = Revisions(ToSet(btodo), repo)
    BY <1>1, <2>1 DEF Revisions, ToSet
  <2>3. CacheInv' /\ PushedInv'
    BY <2>1, <2>2 DEF CacheInv, PushedInv
  <2> QED
    BY <1>1, <2>1, <2>3, ReadingStep
<1> QED
  BY <1>2, <1>3

\* export --layer: a layer is a module of the repository or was there before.
LEMMA ExportStep ==
    ASSUME ProjectInv, NEW noDevelop \in BOOLEAN, NEW failing \in Failing, ExportLayer(noDevelop, failing)
    PROVE  ProjectInv'
<1>1. PICK kept \in SUBSET DOMAIN repo :
        blayers' = [m \in (DOMAIN blayers \ kept) \cup (kept \ failing) |->
                      IF m \in kept THEN repo[m] ELSE blayers[m]]
  <2> DEFINE packing == IF noDevelop THEN DOMAIN repo \ {"develop"} ELSE DOMAIN repo
  <2>1. packing \in SUBSET DOMAIN repo
    OBVIOUS
  <2>2. blayers' = [m \in (DOMAIN blayers \ packing) \cup (packing \ failing) |->
                      IF m \in packing THEN repo[m] ELSE blayers[m]]
    BY DEF ExportLayer
  <2> HIDE DEF packing
  <2> QED
    BY <2>1, <2>2
<1>2. bpc' = "idle" /\ UNCHANGED <<proj, brev, out, mods, upper, repo, stale>>
  BY DEF ExportLayer, Command
<1>3. /\ repo \in [DOMAIN repo -> SUBSET BuildFile] /\ blayers \in [DOMAIN blayers -> SUBSET BuildFile]
      /\ proj \in Projects /\ brev \in Nat /\ stale \subseteq DOMAIN repo /\ KnownAges
  BY DEF ProjectInv, ProjectTypeOK, RepositoryInv
<1>4. /\ DOMAIN blayers' = (DOMAIN blayers \ kept) \cup (kept \ failing)
      /\ \A m \in DOMAIN blayers' : IF m \in kept THEN m \in DOMAIN repo /\ blayers'[m] = repo[m]
                                    ELSE m \in DOMAIN blayers /\ blayers'[m] = blayers[m]
  BY <1>1
<1>5. (blayers \in [DOMAIN blayers -> SUBSET BuildFile])'
  <2>1. \A m \in DOMAIN blayers' : blayers'[m] \in SUBSET BuildFile
    BY <1>3, <1>4
  <2>2. blayers' = [m \in DOMAIN blayers' |-> blayers'[m]]
    BY <1>1
  <2> QED
    BY <2>1, <2>2
<1>6. KnownAges'
  BY <1>2, <1>3, <1>4 DEF KnownAges
<1>7. (repo \in [DOMAIN repo -> SUBSET BuildFile])' /\ DirectoryOK' /\ (stale \subseteq DOMAIN repo)'
  BY <1>2, <1>3, DirectoryKept
<1> QED
  BY <1>2, <1>3, <1>5, <1>6, <1>7, IdleStep

\* import: the module is stale from then on, whatever build it stems from.
LEMMA ImportStep ==
    ASSUME ProjectInv, NEW m \in DOMAIN blayers, ImportLayer(m) PROVE ProjectInv'
<1>1. /\ m \notin DOMAIN repo /\ repo' = Adding(m, blayers[m]) /\ stale' = stale \cup {m} /\ bpc' = "idle"
      /\ UNCHANGED <<proj, brev, out, mods, upper, blayers>>
  BY DEF ImportLayer, Command
<1>2. /\ repo \in [DOMAIN repo -> SUBSET BuildFile] /\ blayers \in [DOMAIN blayers -> SUBSET BuildFile]
      /\ proj \in Projects /\ brev \in Nat /\ stale \subseteq DOMAIN repo /\ KnownAges
  BY DEF ProjectInv, ProjectTypeOK, RepositoryInv
<1>3. /\ DOMAIN repo' = DOMAIN repo \cup {m} /\ repo'[m] = blayers[m]
      /\ \A x \in DOMAIN repo : repo'[x] = repo[x]
  BY <1>1 DEF Adding
<1>4. (repo \in [DOMAIN repo -> SUBSET BuildFile])'
  <2>1. repo' = [x \in DOMAIN repo \cup {m} |-> IF x \in DOMAIN repo THEN repo[x] ELSE blayers[m]]
    BY <1>1 DEF Adding
  <2> QED
    BY <1>2, <1>3, <2>1
<1>5. KnownAges'
  <2>1. PICK r \in 0..brev : \A x \in DOMAIN repo \ stale : \A f \in repo[x] : f[2] = r
    BY <1>2 DEF KnownAges
  <2>2. DOMAIN repo' \ stale' \subseteq DOMAIN repo \ stale
    BY <1>1, <1>3
  <2>3. \A x \in DOMAIN repo' \ stale' : \A f \in repo'[x] : f[2] = r
    BY <1>3, <2>1, <2>2
  <2>4. \A x \in DOMAIN repo' : \A f \in repo'[x] : f[2] <= brev
    BY <1>2, <1>3 DEF KnownAges
  <2> QED
    BY <1>1, <1>2, <2>1, <2>3, <2>4 DEF KnownAges
<1>6. (blayers \in [DOMAIN blayers -> SUBSET BuildFile])' /\ DirectoryOK' /\ (stale \subseteq DOMAIN repo)'
  BY <1>1, <1>2, <1>3, DirectoryKept
<1> QED
  BY <1>1, <1>2, <1>4, <1>5, <1>6, IdleStep

\* remove: what could not be removed is stale.
LEMMA RemoveStep ==
    ASSUME ProjectInv, RemoveApp PROVE ProjectInv'
<1>1. PICK kept \in Failing : repo' = Kept(kept) /\ stale' = kept
  BY DEF RemoveApp
<1>2. bpc' = "idle" /\ UNCHANGED <<proj, brev, out, mods, upper, blayers>>
  BY DEF RemoveApp, Command
<1>3. kept \subseteq DOMAIN repo /\ DOMAIN repo' = kept /\ \A m \in kept : repo'[m] = repo[m]
  BY <1>1 DEF Failing, Kept
<1>4. /\ repo \in [DOMAIN repo -> SUBSET BuildFile] /\ blayers \in [DOMAIN blayers -> SUBSET BuildFile]
      /\ proj \in Projects /\ brev \in Nat /\ KnownAges
  BY DEF ProjectInv, ProjectTypeOK, RepositoryInv
<1>5. (repo \in [DOMAIN repo -> SUBSET BuildFile])'
  <2>1. repo' = [m \in kept |-> repo[m]]
    BY <1>1 DEF Kept
  <2> QED
    BY <1>3, <1>4, <2>1
<1>6. KnownAges'
  <2>1. DOMAIN repo' \ stale' = {} /\ brev' \in 0..brev'
    BY <1>1, <1>2, <1>3, <1>4
  <2> QED
    BY <1>2, <1>3, <1>4, <2>1 DEF KnownAges
<1>7. (blayers \in [DOMAIN blayers -> SUBSET BuildFile])' /\ DirectoryOK' /\ (stale \subseteq DOMAIN repo)'
  BY <1>1, <1>2, <1>3, <1>4, DirectoryKept
<1> QED
  BY <1>2, <1>4, <1>5, <1>6, <1>7, IdleStep

\* push, with the modules still to push in btodo.
LEMMA PushStep ==
    ASSUME ProjectInv, Push PROVE ProjectInv'
<1>1. /\ bpc' = "push" /\ btodo' = ProjectModule(proj)
      /\ UNCHANGED <<proj, brev, out, mods, upper, repo, stale, blayers>>
  BY DEF Push
<1>2. /\ NamesToPush(proj) \subseteq ToSet(ProjectModule(proj))
      /\ ProjectModule(proj) \in Seq(ToSet(ProjectModule(proj)))
  BY PushedNames DEF ProjectInv, ProjectTypeOK
<1>3. NamesToPush(proj)' = NamesToPush(proj)
  BY <1>1, SameFiles
<1>4. CacheInv' /\ PushedInv'
  <2>1. ToSet(btodo)' = ToSet(ProjectModule(proj))
    BY <1>1
  <2> QED
    BY <1>1, <1>2, <1>3, <2>1 DEF CacheInv, PushedInv
<1> QED
  BY <1>1, <1>2, <1>4, ReadingStep
\* ... module by module: a pushed one is on the remote as it is in the repository.
LEMMA PushModuleStep ==
    ASSUME ProjectInv, PushModule PROVE ProjectInv'
<1>1. bpc = "push" /\ UNCHANGED <<proj, brev, sources, deps, out, mods, upper, cache, repo, stale, blayers>>
  BY DEF PushModule
<1>2. CASE CommandEnds
  BY <1>1, <1>2, EndsUnchanged
<1>3. CASE ~CommandEnds
  <2>1. PICK m : m = Head(btodo)
    OBVIOUS
  <2>2. /\ btodo # <<>> /\ m \in DOMAIN repo /\ btodo' = Tail(btodo) /\ bpc' = "push"
        /\ remote' = [x \in DOMAIN remote \cup {m} |-> IF x = m THEN repo[x] ELSE remote[x]]
    BY <1>1, <1>3, <2>1 DEF PushModule
  <2>3. btodo \in Seq(ToSet(ProjectModule(proj)))
    BY <1>1 DEF ProjectInv, ProjectTypeOK
  <2>4. btodo' \in Seq(ToSet(ProjectModule(proj))) /\ ToSet(btodo) = ToSet(btodo') \cup {m}
    BY <2>1, <2>2, <2>3, TailElements
  <2>5. NamesToPush(proj)' = NamesToPush(proj)
    BY <1>1, SameFiles
  <2>6. ASSUME NEW x \in NamesToPush(proj) \ ToSet(btodo')
        PROVE  x \in DOMAIN repo /\ x \in DOMAIN remote' /\ remote'[x] = repo[x]
    <3>1. CASE x = m
      BY <2>2, <3>1
    <3>2. CASE x # m
      <4>1. x \in NamesToPush(proj) \ ToSet(btodo)
        BY <2>4, <2>6, <3>2
      <4>2. x \in DOMAIN repo /\ x \in DOMAIN remote /\ remote[x] = repo[x]
        BY <1>1, <4>1 DEF ProjectInv, PushedInv
      <4> QED
        BY <2>2, <3>2, <4>2
    <3> QED
      BY <3>1, <3>2
  <2>7. CacheInv' /\ PushedInv'
    <3>1. ToSet(btodo)' = ToSet(btodo')
      OBVIOUS
    <3> QED
      BY <1>1, <2>2, <2>5, <2>6, <3>1 DEF CacheInv, PushedInv
  <2> QED
    BY <1>1, <2>2, <2>4, <2>7, ReadingStep
<1> QED
  BY <1>2, <1>3

\* A step that changes nothing.
LEMMA ProjectStutter ==
    ASSUME ProjectInv, UNCHANGED projectVars PROVE ProjectInv'
<1>1. UNCHANGED <<bpc, proj, opts, brev, sources, deps, out, mods, upper, cache, btodo, repo, ignored, stale,
                  blayers, remote>>
  BY DEF projectVars
<1>2. NamesToPush(proj)' = NamesToPush(proj) /\ Produced' = Produced /\ Unclean' = Unclean
  BY <1>1, SameFiles DEF Unclean
<1>3. ToSet(ProjectModule(proj))' = ToSet(ProjectModule(proj)) /\ ToSet(btodo)' = ToSet(btodo)
  BY <1>1 DEF ToSet, ProjectModule, NamesToPush, ModuleNames, PlaceOf
<1>4. ProjectTypeOK'
  BY <1>1, <1>2, <1>3, DirectoryKept DEF ProjectInv, ProjectTypeOK, RulesOfModules
<1>5. FetchedInv' /\ OutputInv'
  BY <1>1, <1>2 DEF ProjectInv, FetchedInv, OutputInv, FetchSources, PullOrder, Built
<1>6. ModulesInv'
  BY <1>1, <1>2 DEF ProjectInv, ModulesInv
<1>7. RepositoryInv'
  BY <1>1, <1>2, <1>3, AgesKept DEF ProjectInv, RepositoryInv
<1>8. CacheInv' /\ PushedInv'
  BY <1>1, <1>2, <1>3 DEF ProjectInv, CacheInv, PushedInv, Revisions
<1> QED
  BY <1>4, <1>5, <1>6, <1>7, <1>8 DEF ProjectInv

\* Every command, stage by stage, keeps the invariant.
LEMMA ProjectStep ==
    ASSUME ProjectInv, [ProjectNext]_projectVars PROVE ProjectInv'
<1>1. CASE \E p \in Projects, o \in Options : Build(p, o)
  BY <1>1, BuildStep
<1>2. CASE FetchSource \/ PullDependency
  BY <1>2, FetchStep, PullStep
<1>3. CASE PreBuild \/ BuildInContainer \/ PreCommit
  BY <1>3, PreBuildStep, ContainerStep, PreCommitStep
<1>4. CASE InstallFiles \/ InstallModule \/ InstallBinary
  BY <1>4, InstallFilesStep, InstallModuleStep, InstallBinaryStep
<1>5. CASE CleanOld \/ CommitModule
  BY <1>5, CleanOldStep, CommitStep
<1>6. CASE RuntimeCheck \/ GenerateLDCache
  BY <1>6, CheckStep, LDCacheStep
<1>7. CASE \E debug \in BOOLEAN : Run(debug)
  BY <1>7, RunStep
<1>8. CASE SkipRun \/ SkipCommit \/ RunEnds \/ CommandAborts
  <2>1. CommandEnds /\ UNCHANGED <<proj, brev, out, mods, upper, repo, stale, blayers>>
    BY <1>8 DEF SkipRun, SkipCommit, RunEnds, CommandAborts
  <2> QED
    BY <2>1, EndsUnchanged
<1>9. CASE \E n \in BOOLEAN, f \in Failing : ExportLayer(n, f)
  BY <1>9, ExportStep
<1>10. CASE \E m \in DOMAIN blayers : ImportLayer(m)
  BY <1>10, ImportStep
<1>11. CASE RemoveApp \/ Push \/ PushModule
  BY <1>11, RemoveStep, PushStep, PushModuleStep
<1>12. CASE UNCHANGED projectVars
  BY <1>12, ProjectStutter
<1> QED
  BY <1>1, <1>2, <1>3, <1>4, <1>5, <1>6, <1>7, <1>8, <1>9, <1>10, <1>11, <1>12 DEF ProjectNext

\* The commands of ll-builder in one project directory: in every reachable state, whatever
\* stage failed or was killed, what the stages rely on holds (linglong_builder.cpp).
THEOREM ProjectInvariance == ProjectSpec => []ProjectInv
<1>1. ProjectInit => ProjectInv
  BY ProjectInitial
<1>2. ProjectInv /\ [ProjectNext]_projectVars => ProjectInv'
  BY ProjectStep
<1> QED
  BY <1>1, <1>2, PTL DEF ProjectSpec

\* A set with no two different elements has at most one.
LEMMA AtMostOne ==
    ASSUME NEW S, \A x, y \in S : x = y PROVE Cardinality(S) <= 1
<1>1. CASE S = {}
  BY <1>1, FS_EmptySet
<1>2. CASE S # {}
  <2>1. PICK x : x \in S
    BY <1>2
  <2>2. S = {x}
    BY <2>1
  <2> QED
    BY <2>2, FS_Singleton
<1> QED
  BY <1>1, <1>2

\* What a build that has committed everything leaves in the repository.
LEMMA CommittedBuild ==
    ASSUME ProjectInv, bpc = "committed"
    PROVE  /\ "skip_fetch" \notin opts /\ proj.sources # <<>> =>
                /\ FetchSources(Len(proj.sources)) \subseteq sources
                /\ "sources" \notin ignored => sources = FetchSources(Len(proj.sources))
           /\ "skip_pull" \notin opts => ToSet(PullOrder(proj)) \subseteq deps
           /\ ToSet(PackageModules(proj)) \subseteq DOMAIN repo
<1>1. bpc \in Committing /\ bpc \in FromPull \ {"pull"} /\ bpc \in FromPull
  BY DEF FromPull, FromBuild, FromModules, Committing
<1>2. /\ "skip_fetch" \notin opts /\ proj.sources # <<>> =>
           /\ FetchSources(Len(proj.sources)) \subseteq sources
           /\ "sources" \notin ignored => sources = FetchSources(Len(proj.sources))
      /\ "skip_pull" \notin opts => ToSet(PullOrder(proj)) \subseteq deps
  BY <1>1 DEF ProjectInv, FetchedInv
<1>3. NamesToPush(proj) \subseteq DOMAIN repo \cup ToSet(btodo) /\ btodo = <<>>
  BY <1>1 DEF ProjectInv, RepositoryInv
<1>4. ToSet(PackageModules(proj)) = NamesToPush(proj)
  BY PackagedNames DEF ProjectInv, ProjectTypeOK
<1>5. ToSet(<<>>) = {}
  BY DEF ToSet
<1> QED
  BY <1>2, <1>3, <1>4, <1>5

\* ... and what the modules hold, when no old files were in its way.
LEMMA CommittedFiles ==
    ASSUME ProjectInv, bpc = "committed", ~Unclean
    PROVE  /\ DOMAIN repo \ stale = ToSet(PackageModules(proj))
           /\ proj.install = {} => \A f \in Produced : \E m \in DOMAIN repo : f \in repo[m]
           /\ proj.app /\ "entries" \notin ignored /\ (\E f \in repo["binary"] : Exported(f)) =>
                <<"entry", brev>> \in repo["binary"]
           /\ "full_develop" \notin opts =>
                \A f \in Produced : f[1] \notin Links => Cardinality({m \in DOMAIN repo : f \in repo[m]}) <= 1
<1>1. bpc \in Committing /\ bpc \in FromModules
  BY DEF FromModules, Committing
<1>2. DOMAIN repo \ stale = NamesToPush(proj)
  <2>1. btodo = <<>> /\ (DOMAIN repo \ stale) \cup ToSet(btodo) = NamesToPush(proj)
    BY <1>1 DEF ProjectInv, RepositoryInv
  <2>2. ToSet(<<>>) = {}
    BY DEF ToSet
  <2> QED
    BY <2>1, <2>2
<1>3. ToSet(PackageModules(proj)) = NamesToPush(proj)
  BY PackagedNames DEF ProjectInv, ProjectTypeOK
<1>4. /\ DOMAIN mods = NamesToPush(proj) /\ brev \in Nat
      /\ \A m \in DOMAIN repo \ stale : repo[m] = mods[m]
      /\ \A m \in stale : \A f \in repo[m] : f[2] < brev
  BY <1>1 DEF ProjectInv, ProjectTypeOK, ModulesInv, RepositoryInv
<1>5. \A m \in NamesToPush(proj) : m \in DOMAIN repo /\ m \in DOMAIN mods /\ repo[m] = mods[m]
  BY <1>2, <1>4
<1>6. proj.install = {} => \A f \in Produced : \E m \in DOMAIN repo : f \in repo[m]
  <2>1. proj.install = {} => \A f \in Produced : \E m \in DOMAIN mods : f \in mods[m]
    BY <1>1 DEF ProjectInv, ModulesInv
  <2> QED
    BY <1>4, <1>5, <2>1
<1>7. proj.app /\ "entries" \notin ignored /\ (\E f \in repo["binary"] : Exported(f)) =>
        <<"entry", brev>> \in repo["binary"]
  <2>1. repo["binary"] = mods["binary"]
    BY <1>5 DEF NamesToPush
  <2>2. proj.app /\ "entries" \notin ignored /\ (\E f \in mods["binary"] : Exported(f)) =>
          <<"entry", brev>> \in mods["binary"]
    BY <1>1 DEF ProjectInv, ModulesInv
  <2> QED
    BY <2>1, <2>2
<1>8. ASSUME "full_develop" \notin opts, NEW f \in Produced, f[1] \notin Links
      PROVE  Cardinality({m \in DOMAIN repo : f \in repo[m]}) <= 1
  <2>1. f[2] = brev
    BY <1>4, FilePairs DEF Produced
  <2>2. \A m \in DOMAIN repo : f \in repo[m] => m \in DOMAIN mods /\ f \in mods[m]
    BY <1>2, <1>4, <2>1
  <2>3. \A m, n \in DOMAIN mods : f \in mods[m] /\ f \in mods[n] => m = n
    BY <1>1, <1>8 DEF ProjectInv, ModulesInv
  <2> DEFINE having == {m \in DOMAIN repo : f \in repo[m]}
  <2>4. \A m, n \in having : m = n
    BY <2>2, <2>3
  <2> HIDE DEF having
  <2>5. Cardinality(having) <= 1
    BY <2>4, AtMostOne
  <2> QED
    BY <2>5 DEF having
<1> QED
  BY <1>2, <1>3, <1>6, <1>7, <1>8

\* The modules of one build stay together in the repository, and on the remote a push fills.
LEMMA RevisionsKept ==
    ASSUME ProjectInv
    PROVE  /\ Cardinality(Revisions(DOMAIN repo \ stale, repo)) <= 1
           /\ bpc = "push" /\ btodo = <<>> /\ stale \cap NamesToPush(proj) = {} =>
                Cardinality(Revisions(NamesToPush(proj), remote)) <= 1
<1>1. PICK r \in 0..brev : \A m \in DOMAIN repo \ stale : \A f \in repo[m] : f[2] = r
  BY DEF ProjectInv, RepositoryInv, KnownAges
<1>2. Cardinality(Revisions(DOMAIN repo \ stale, repo)) <= 1
  <2>1. \A m \in (DOMAIN repo \ stale) \cap DOMAIN repo : \A f \in repo[m] : f[2] = r
    BY <1>1
  <2> QED
    BY <2>1, OneRevision
<1>3. ASSUME bpc = "push", btodo = <<>>, stale \cap NamesToPush(proj) = {}
      PROVE  Cardinality(Revisions(NamesToPush(proj), remote)) <= 1
  <2>1. ToSet(btodo) = {}
    BY <1>3 DEF ToSet
  <2>2. \A m \in NamesToPush(proj) : m \in DOMAIN repo /\ remote[m] = repo[m]
    BY <1>3, <2>1 DEF ProjectInv, PushedInv
  <2>3. \A m \in NamesToPush(proj) \cap DOMAIN remote : \A f \in remote[m] : f[2] = r
    BY <1>1, <1>3, <2>2
  <2> QED
    BY <2>3, OneRevision
<1> QED
  BY <1>2, <1>3

\* Whatever stage of ll-builder fails, is killed or goes on after a failure nobody looked at, and
\* whatever is exported, imported, removed or pushed between two builds: the modules of
\* different builds are not mixed; a build that commits commits all its modules, and in them,
\* unless files of earlier builds were left in its way, everything it produced and could copy;
\* an application runs with the library cache of its modules, and a whole push leaves one build
\* on the remote (commitToLocalRepo(), installFiles(), run(), handlePush()).
THEOREM BuildsAreNotMixed == ProjectSpec => []BuildsNotMixed
<1>1. ProjectInv => BuildsNotMixed
  <2> SUFFICES ASSUME ProjectInv PROVE BuildsNotMixed
    OBVIOUS
  <2>1. bpc = "running" => cache.ld = Revisions(ToSet(btodo), repo)
    BY DEF ProjectInv, CacheInv
  <2> QED
    BY <2>1, CommittedBuild, CommittedFiles, RevisionsKept DEF BuildsNotMixed
<1> QED
  BY <1>1, ProjectInvariance, PTL
=============================================================================
