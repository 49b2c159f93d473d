------------------------ MODULE PackageManagerProofs ------------------------
(***************************************************************************)
(* The properties of PackageManager, for every set of applications,        *)
(* versions, modules and dependencies, and every number of tasks.          *)
(*                                                                         *)
(* The actions are first summed up by what they do to the job and to the   *)
(* layers (the definitions S... and the lemmas ...Facts), so that no later *)
(* proof expands an action.  Then one inductive invariant after the other, *)
(* each with a lemma Init... and a lemma ...Step; each rests on the ones   *)
(* before it.  The theorems are at the end.                                *)
(***************************************************************************)
EXTENDS PackageManager, FiniteSetTheorems, WellFoundedInduction, TLAPS

\* What the cache says of a layer.
Mark == {"none", "live", "deleted"}

\* The flags, apart: the provers take Boolean variables one way or the other.
Flags == twice \in BOOLEAN /\ broken \in BOOLEAN /\ ragged \in BOOLEAN

\* The types of the other variables.
Values ==
    /\ layers \in [Layer -> Mark]
    /\ exported \subseteq App
    /\ running \subseteq App
    /\ queue \in Seq(Task)
    /\ asked \in 0..MaxTasks
    /\ job \in Job
    /\ owned \subseteq {Id[a] : a \in App}
    /\ met \subseteq AllFaults \cup AllRequests \cup {"early", "bare", "unrestored"}
    /\ lame \subseteq App

(* Types.                                                                  *)

\* The layers of applications and of dependencies, and that they differ.
LEMMA LayerFacts ==
    /\ \A a \in App, m \in Module : <<a, m>> \in Layer
    /\ \A d \in Dep : Binary(d) \in Layer
    /\ \A a \in App : Binary(a) \in Layer
    /\ \A a \in App, m \in Module, d \in Dep : <<a, m>> # Binary(d)
  BY ManagerAssumption DEF Layer, Binary

\* The ways in which layers change keep their type.
LEMMA WithType ==
    ASSUME Values, NEW ks, NEW mark \in Mark
    PROVE  With(ks, mark) \in [Layer -> Mark]
  BY DEF Values, With, Mark

\* So does the rollback of InstallRef(), ...
LEMMA RolledBackType ==
    ASSUME NEW l \in [Layer -> Mark]
    PROVE  RolledBack(l) \in [Layer -> Mark]
  BY DEF RolledBack, Mark

\* ... and that of pullDependency().
LEMMA WithoutDepsType ==
    ASSUME NEW l \in [Layer -> Mark]
    PROVE  WithoutDeps(l) \in [Layer -> Mark]
  BY DEF WithoutDeps, Mark

\* No job is a job.
LEMMA NoJobType == NoJob \in Job /\ AnyTask \in Task
<1>1. (CHOOSE a \in App : TRUE) \in App
  BY ManagerAssumption
<1> QED
  BY <1>1, ManagerAssumption DEF NoJob, AnyTask, Job, Task, Steps

\* The job of a task is one.
LEMMA NewJobType == ASSUME NEW t \in Task PROVE NewJob(t) \in Job
  BY DEF NewJob, Job, Task, Steps, Modules

\* The type invariant, in the two parts that are proved apart.
LEMMA TypeParts == TypeOK <=> Flags /\ Values
  BY Zenon DEF TypeOK, Flags, Values, Mark

\* Types hold at the start.
LEMMA InitType == Init => Flags /\ Values
<1> SUFFICES ASSUME Init PROVE Flags /\ Values
  OBVIOUS
<1>1. Flags
  BY Zenon DEF Init, Flags
<1>2. Values
  BY NoJobType, ManagerAssumption DEF Init, Values, Mark
<1> QED
  BY <1>1, <1>2

\* Flags stay Boolean.
LEMMA FlagsStep == ASSUME Flags, Next PROVE Flags'
<1>1. ragged' \in BOOLEAN
  BY Zenon DEF Next
<1>2. broken' \in BOOLEAN
  BY Zenon DEF Next, Step, Flags, Install, Run, Exit, OldIdle, OldBusy, Replace, InstallModule,
     Uninstall, Update, DeferredUninstall, Prune, Begin, Return, ListFails, ListAnswers,
     FetchFails, Fetched, FetchedTooLate, DepPresent, DepMissing, DepListFails, DepsTooLate,
     DepFetchFails, DepFetchedTooLate, DepFetched, InstalledNothing, InstalledFirst,
     OldUnknown, PostInstall, UninstallRef, Restore, Restored, Add, Become, Goto, Fail,
     GiveUp, LogOrUndo, PullBack, AfterFailure
<1>3. twice' \in BOOLEAN
  BY Zenon DEF Next, Step, Flags, Install, Run, Exit, OldIdle, OldBusy, Replace, InstallModule,
     Uninstall, Update, DeferredUninstall, Prune, Begin, Return, ListFails, ListAnswers,
     FetchFails, Fetched, FetchedTooLate, DepPresent, DepMissing, DepListFails, DepsTooLate,
     DepFetchFails, DepFetchedTooLate, DepFetched, InstalledNothing, InstalledFirst,
     OldUnknown, PostInstall, UninstallRef, Restore, Restored, Add, Become, Goto, Fail,
     GiveUp, LogOrUndo, PullBack, AfterFailure
<1> QED
  BY <1>1, <1>2, <1>3 DEF Flags

\* Types, when a D-Bus method adds a task.
LEMMA AddValues ==
    ASSUME Values, NEW t \in Task, NEW what \in SUBSET AllRequests, Add(t, what)
    PROVE  Values'
<1>1. queue' \in Seq(Task)
  BY DEF Values, Add
<1>2. asked' \in 0..MaxTasks
  BY ManagerAssumption DEF Values, Add
<1>3. met' \subseteq AllFaults \cup AllRequests \cup {"early", "bare", "unrestored"}
  BY DEF Values, Add, AllFaults
<1> QED
  BY <1>1, <1>2, <1>3 DEF Values, Add

\* Links lead to applications.
LEMMA ExportType ==
    ASSUME NEW links \in SUBSET App, NEW l, NEW refs \in SUBSET App
    PROVE  Export(links, l, refs) \subseteq App /\ Unexport(links, l, refs) \subseteq App
  BY DEF Export, Unexport

\* Types after Install(), ...
LEMMA InstallValues == ASSUME Values, NEW a \in App, Install(a) PROVE Values'
<1>1. [kind |-> "install", new |-> a, old |-> Latest(Id[a]), mods |-> {"binary"}] \in Task
  BY ManagerAssumption DEF Task, Latest
<1> QED
  BY <1>1, AddValues DEF Install, AllRequests

\* ... after Install() of a module, ...
LEMMA InstallModuleValues ==
    ASSUME Values, NEW a \in App, NEW m \in Module, InstallModule(a, m)
    PROVE  Values'
<1>1. [kind |-> "module", new |-> a, old |-> {}, mods |-> {m}] \in Task
  BY DEF Task
<1> QED
  BY <1>1, AddValues DEF InstallModule

\* ... after Update(), ...
LEMMA UpdateValues == ASSUME Values, NEW a \in App, NEW b \in App, Update(a, b) PROVE Values'
<1>1. [kind |-> "update", new |-> b, old |-> {a}, mods |-> {}] \in Task
  BY DEF Task
<1> QED
  BY <1>1, AddValues DEF Update

\* ... after Uninstall(), ...
LEMMA UninstallValues ==
    ASSUME Values, NEW a \in App, NEW m \in Module, Uninstall(a, m)
    PROVE  Values'
<1>1. [kind |-> "uninstall", new |-> a, old |-> {}, mods |-> {m}] \in Task
  BY DEF Task
<1> QED
  BY <1>1, AddValues DEF Uninstall, AllRequests

\* ... and after what is not a step of a job.
LEMMA OtherValues ==
    ASSUME Values, \/ \E a \in App : Run(a) \/ Exit(a)
                   \/ DeferredUninstall \/ Prune \/ Return
    PROVE  Values'
<1>1. CASE \E a \in App : Run(a)
  BY <1>1, ManagerAssumption DEF Values, Run, Calm, Meet, AllFaults
<1>2. CASE \E a \in App : Exit(a)
  BY <1>2 DEF Values, Exit
<1>3. CASE DeferredUninstall
  <2>1. layers' \in [Layer -> Mark]
    BY <1>3, WithType DEF DeferredUninstall, Mark
  <2>2. exported' \subseteq App
    <3>1. \A x : Latest(x) \subseteq App
      BY DEF Latest
    <3> DEFINE hidden == {a \in App \ running : \E m \in Module : layers[<<a, m>>] = "deleted"}
               left == UNION {Latest(Id[a]) : a \in hidden}
    <3>2. left \subseteq App /\ hidden \subseteq App
      BY <3>1
    <3>3. exported' = Export(Unexport(exported, layers, hidden), layers', left)
      BY <1>3 DEF DeferredUninstall
    <3> HIDE DEF hidden, left
    <3>4. Unexport(exported, layers, hidden) \subseteq App
      BY <3>2, ExportType DEF Values
    <3> QED
      BY <3>2, <3>3, <3>4, ExportType
  <2> QED
    BY <1>3, <2>1, <2>2 DEF Values, DeferredUninstall
<1>4. CASE Prune
  <2>1. layers' \in [Layer -> Mark]
    BY <1>4, WithType DEF Prune, Mark
  <2> QED
    BY <1>4, <2>1 DEF Values, Prune, AllRequests
<1>5. CASE Return
  <2>1. Id[job.task.new] \in {Id[a] : a \in App}
    BY DEF Values, Job, Task
  <2>2. owned' \subseteq {Id[a] : a \in App}
    BY <1>5, <2>1 DEF Return, Values
  <2> QED
    BY <1>5, <2>2, NoJobType DEF Return, Values
<1> QED
  BY <1>1, <1>2, <1>3, <1>4, <1>5

-----------------------------------------------------------------------------
(* What the steps of a job do to the job and to the layers of applications. *)

\* What stays of a job that moves on.
Kept == /\ job'.task = job.task /\ job'.oldMods = job.oldMods /\ job'.before = job.before
        /\ job'.todo = job.todo /\ job'.pulled = job.pulled /\ job'.revived = job.revived

\* The layers of applications stay what they are, or become what f says.
AppSame == \A a \in App, m \in Module : layers'[<<a, m>>] = layers[<<a, m>>]
Marks(ref, mods, mark) ==
    \A a \in App, m \in Module :
        layers'[<<a, m>>] = IF a = ref /\ m \in mods THEN mark ELSE layers[<<a, m>>]
Rolls == \A a \in App, m \in Module :
            layers'[<<a, m>>] =
                IF a = job.task.new /\ m \in job.pulled THEN "none"
                ELSE IF a = job.task.new /\ m \in job.revived /\ layers[<<a, m>>] # "none"
                     THEN "deleted" ELSE layers[<<a, m>>]

\* Where a job goes when InstallRef() fails.
GaveUp == /\ job'.at = IF job.task.kind = "update" THEN "done" ELSE "undo"
          /\ job'.failed = TRUE
\* Where it goes when a later step fails.
LoggedOrUndone == /\ job.task.kind = "update" => job'.at = "done" /\ job'.failed = job.failed
                  /\ job.task.kind # "update" => job'.at = "undo" /\ job'.failed = TRUE

\* The other fields of a job that only moves on.
Rest == /\ job'.deps = job.deps /\ job'.got = job.got /\ job'.lost = job.lost
        /\ job'.of = job.of /\ job'.then = job.then
        /\ UNCHANGED <<running, queue, asked, owned, broken>>

\* A job that only goes on.
LEMMA Goes ==
    ASSUME Values, NEW step \in Steps, Goto(step)
    PROVE  job' \in Job /\ job'.at = step /\ Kept /\ Rest /\ job'.failed = job.failed
<1>1. job \in Job
  BY DEF Values
<1>2. job' = [job EXCEPT !.at = step]
  BY DEF Goto, Become
<1>3. job' \in Job
  BY <1>1, <1>2 DEF Job
<1>4. job'.at = step /\ Kept /\ job'.failed = job.failed
  BY <1>1, <1>2 DEF Job, Kept
<1>5. Rest
  BY <1>1, <1>2 DEF Job, Rest, Goto, Become
<1> QED
  BY <1>3, <1>4, <1>5

\* A job that fails.
LEMMA Fails ==
    ASSUME Values, NEW step \in Steps, Fail(step)
    PROVE  job' \in Job /\ job'.at = step /\ Kept /\ Rest /\ job'.failed = TRUE
<1>1. job \in Job
  BY DEF Values
<1>2. job' = [job EXCEPT !.at = step, !.failed = TRUE]
  BY DEF Fail, Become
<1>3. job' \in Job
  BY <1>1, <1>2 DEF Job
<1>4. job'.at = step /\ Kept /\ job'.failed = TRUE
  BY <1>1, <1>2 DEF Job, Kept
<1>5. Rest
  BY <1>1, <1>2 DEF Job, Rest, Fail, Become
<1> QED
  BY <1>3, <1>4, <1>5

\* What no step of a job changes.
Still == UNCHANGED <<running, queue, asked, owned, broken>>
\* A step that changes only where the job is.
Moved == layers' = layers /\ lame' = lame /\ Kept /\ Rest

\* The steps that only move the job on.
SListFails == /\ job.at = "list" /\ job'.at = "done" /\ job'.failed = TRUE /\ Moved
SNothing == /\ job.at = "installed" /\ layers[Binary(job.task.new)] = "none"
            /\ LoggedOrUndone /\ Moved
SFirst == /\ job.at = "installed" /\ layers[Binary(job.task.new)] # "none" /\ job.task.old = {}
          /\ job'.at = "post" /\ job'.failed = job.failed /\ Moved
SIdle == /\ job.at = "installed" /\ layers[Binary(job.task.new)] # "none"
         /\ \E a \in job.task.old : a \notin running
         /\ job'.at = "replace" /\ job'.failed = job.failed /\ Moved
SUnknown == /\ job.at = "installed" /\ layers[Binary(job.task.new)] # "none" /\ "busy" \in met'
            /\ LoggedOrUndone /\ Moved
SPost == /\ job.at = "post"
         /\ \/ job'.at = "done" /\ job'.failed = job.failed
            \/ "hook" \in met' /\ LoggedOrUndone
         /\ Moved
SRestored == /\ job.at = "restore" /\ job.lost = {} /\ job'.at = job.then
             /\ job'.failed = job.failed /\ Moved
SMove == SListFails \/ SNothing \/ SFirst \/ SIdle \/ SUnknown \/ SPost \/ SRestored

\* A failure after InstallRef().
LEMMA Logs ==
    ASSUME Values, LogOrUndo
    PROVE  job' \in Job /\ LoggedOrUndone /\ Kept /\ Rest
  BY Goes, Fails DEF LogOrUndo, LoggedOrUndone, Steps

\* The actions that only move a job on.
LEMMA MoveFacts ==
    ASSUME Values,
           ListFails \/ InstalledNothing \/ InstalledFirst \/ (\E a \in App : OldIdle(a))
           \/ OldUnknown \/ PostInstall \/ Restored
    PROVE  SMove /\ job' \in Job
<1> USE DEF At
<1>1. ASSUME ListFails PROVE SListFails /\ job' \in Job
  BY <1>1, Fails DEF ListFails, SListFails, Moved, Steps
<1>2. ASSUME InstalledNothing PROVE SNothing /\ job' \in Job
  BY <1>2, Logs DEF InstalledNothing, SNothing, Moved, IsInstalled, Binary
<1>3. ASSUME InstalledFirst PROVE SFirst /\ job' \in Job
  BY <1>3, Goes DEF InstalledFirst, SFirst, Moved, IsInstalled, Binary, Steps
<1>4. ASSUME NEW a \in App, OldIdle(a) PROVE SIdle /\ job' \in Job
  BY <1>4, Goes DEF OldIdle, SIdle, Moved, IsInstalled, Binary, Steps
<1>5. ASSUME OldUnknown PROVE SUnknown /\ job' \in Job
  BY <1>5, Logs DEF OldUnknown, SUnknown, Moved, IsInstalled, Binary, Meet
<1>6. ASSUME PostInstall PROVE SPost /\ job' \in Job
  BY <1>6, Logs, Goes DEF PostInstall, SPost, Moved, Meet, Steps
<1>7. ASSUME Restored PROVE SRestored /\ job' \in Job
  <2>1. job.then \in Steps
    BY DEF Values, Job, Steps
  <2> QED
    BY <1>7, <2>1, Goes DEF Restored, SRestored, Moved
<1> QED
  BY <1>1, <1>2, <1>3, <1>4, <1>5, <1>6, <1>7 DEF SMove

\* pullDependency(), as long as nothing fails.
DepAction == DepPresent \/ DepMissing \/ DepFetched
SDeps == /\ DepAction
         /\ job.at \in {"deplist", "depfetch"}
         /\ \/ job'.at \in {"deplist", "depfetch"} /\ job'.deps # <<>>
            \/ job'.at = "installed" /\ job.todo = {}
            \/ job'.at = "fetch" /\ job.todo # {}
         /\ AppSame /\ Kept /\ Still /\ met' = met
         /\ job'.failed = job.failed

\* Sequences with and without elements.
LEMMA Nonempty == ASSUME NEW s \in Seq(Dep), Len(s) >= 1 PROVE s # <<>>
  OBVIOUS

\* A sequence of two or more has a tail with elements.
LEMMA Tails ==
    ASSUME NEW s \in Seq(Dep), Len(s) > 1
    PROVE  Tail(s) # <<>>
<1> DEFINE t == Tail(s)
<1>1. Len(t) = Len(s) - 1 /\ t \in Seq(Dep)
  OBVIOUS
<1>2. Len(s) \in Nat
  OBVIOUS
<1> HIDE DEF t
<1>3. Len(t) >= 1
  BY <1>1, <1>2
<1>4. t # <<>>
  BY <1>1, <1>3, Nonempty
<1> QED
  BY <1>4 DEF t

\* The job after a dependency.
LEMMA AfterDepFacts ==
    ASSUME NEW j \in Job
    PROVE  /\ j.deps # <<>> => AfterDep(j) \in Job
           /\ \/ AfterDep(j).at = "deplist" /\ Len(j.deps) > 1 /\ AfterDep(j).deps # <<>>
              \/ AfterDep(j).at = "installed" /\ j.todo = {} /\ ~ (Len(j.deps) > 1)
              \/ AfterDep(j).at = "fetch" /\ j.todo # {} /\ ~ (Len(j.deps) > 1)
           /\ AfterDep(j).deps = Tail(j.deps)
           /\ AfterDep(j).task = j.task /\ AfterDep(j).oldMods = j.oldMods
           /\ AfterDep(j).before = j.before /\ AfterDep(j).todo = j.todo
           /\ AfterDep(j).pulled = j.pulled /\ AfterDep(j).revived = j.revived
           /\ AfterDep(j).failed = j.failed /\ AfterDep(j).got = j.got
           /\ AfterDep(j).lost = j.lost /\ AfterDep(j).of = j.of /\ AfterDep(j).then = j.then
<1>1. ASSUME j.deps # <<>> PROVE Tail(j.deps) \in Seq(Dep)
  BY <1>1 DEF Job
<1>2. j.deps # <<>> => AfterDep(j) \in Job
  BY <1>1 DEF AfterDep, Job, Steps
<1>3. Len(j.deps) > 1 => Tail(j.deps) # <<>>
  BY Tails DEF Job
<1> QED
  BY <1>2, <1>3 DEF AfterDep, Job

\* pullDependency(), as long as nothing fails.
LEMMA DepsFacts ==
    ASSUME Values, DepPresent \/ DepMissing \/ DepFetched, job.deps # <<>>
    PROVE  SDeps /\ job' \in Job
<1> USE DEF At
<1>1. job \in Job
  BY DEF Values
<1>2. ASSUME DepPresent PROVE SDeps /\ job' \in Job
  <2>1. job' = AfterDep(job) /\ Still /\ layers' = layers /\ met' = met /\ job.at = "deplist"
    BY <1>2 DEF DepPresent, Become, Still
  <2> QED
    BY <1>1, <1>2, <2>1, AfterDepFacts DEF SDeps, DepAction, AppSame, Kept
<1>3. ASSUME DepMissing PROVE SDeps /\ job' \in Job
  <2>1. Goto("depfetch") /\ layers' = layers /\ met' = met /\ job.at = "deplist"
    BY <1>3 DEF DepMissing
  <2>2. job' \in Job /\ job'.at = "depfetch" /\ Kept /\ Rest /\ job'.failed = job.failed
    BY <2>1, Goes DEF Steps
  <2> QED
    BY <1>3, <2>1, <2>2 DEF SDeps, DepAction, AppSame, Rest, Still
<1>4. ASSUME DepFetched PROVE SDeps /\ job' \in Job
  <2> DEFINE j == [job EXCEPT !.got = @ \cup {Head(job.deps)}]
  <2>1. Head(job.deps) \in Dep
    BY <1>1 DEF Job
  <2>2. /\ j \in Job /\ j.deps = job.deps
        /\ j.task = job.task /\ j.oldMods = job.oldMods /\ j.before = job.before
        /\ j.todo = job.todo /\ j.pulled = job.pulled /\ j.revived = job.revived
        /\ j.failed = job.failed
    BY <1>1, <2>1 DEF Job
  <2>3. job' = AfterDep(j) /\ Still /\ met' = met /\ job.at = "depfetch"
    BY <1>4 DEF DepFetched, Become, Still
  <2>4. AppSame
    BY <1>4, <2>1, LayerFacts DEF DepFetched, With, AppSame
  <2> HIDE DEF j
  <2> QED
    BY <1>4, <2>2, <2>3, <2>4, AfterDepFacts DEF SDeps, DepAction, Kept
<1> QED
  BY <1>2, <1>3, <1>4

\* The remote lists the modules: the hidden ones are revived.
SLists == LET new == job.task.new
              mods == job.task.mods \cap Offers[new]
              back == {m \in mods : layers[<<new, m>>] = "deleted"}
          IN  /\ job.at = "list" /\ mods # {}
              /\ job'.at = IF back = mods THEN "installed" ELSE "fetch"
              /\ job'.task.mods = mods /\ job'.task.new = new /\ job'.task.old = job.task.old
              /\ job'.task.kind = job.task.kind /\ job'.failed = job.failed
              /\ job'.oldMods = job.oldMods /\ job'.before = job.before
              /\ job'.revived = back /\ job'.todo = mods \ back /\ job'.pulled = job.pulled
              /\ job'.got = job.got
              /\ Marks(new, back, "live")
              /\ Still /\ met' = met /\ lame' = lame

\* ListAnswers is what SLists says.
LEMMA ListFacts == ASSUME Values, ListAnswers PROVE SLists /\ job' \in Job
<1> DEFINE new == job.task.new
           mods == job.task.mods \cap Offers[new]
           back == {m \in mods : layers[<<new, m>>] = "deleted"}
<1>1. job \in Job /\ new \in App /\ mods \subseteq Module
  BY ManagerAssumption DEF Values, Job, Task
<1>2. /\ job' = [job EXCEPT !.at = IF back = mods THEN "installed" ELSE "fetch",
                            !.task.mods = mods, !.revived = back, !.todo = mods \ back]
      /\ layers' = With({new} \X back, "live") /\ Still /\ met' = met /\ lame' = lame
      /\ job.at = "list" /\ mods # {}
  BY DEF ListAnswers, Become, Still, At
<1>3. Marks(new, back, "live")
  BY <1>2, LayerFacts DEF With, Marks
<1>4. back \subseteq Module
  BY <1>1
<1> HIDE DEF mods, back
<1>5. job' \in Job
  BY <1>1, <1>2, <1>4 DEF Job, Task, Steps
<1>6. /\ job'.at = IF back = mods THEN "installed" ELSE "fetch"
      /\ job'.task.mods = mods /\ job'.task.new = new /\ job'.task.old = job.task.old
      /\ job'.task.kind = job.task.kind /\ job'.failed = job.failed
      /\ job'.oldMods = job.oldMods /\ job'.before = job.before
      /\ job'.revived = back /\ job'.todo = mods \ back /\ job'.pulled = job.pulled
      /\ job'.got = job.got
  BY <1>1, <1>2 DEF Job, Task
<1> QED
  BY <1>2, <1>3, <1>5, <1>6 DEF SLists, mods, back

\* A module is pulled.
SFetched(m) == /\ job.at = "fetch" /\ m \in job.todo
               /\ "binary" \in job.todo => m = "binary"
               /\ layers[<<job.task.new, m>>] = "none"
               /\ Marks(job.task.new, {m}, "live")
               /\ job'.todo = job.todo \ {m} /\ job'.pulled = job.pulled \cup {m}
               /\ job'.task = job.task /\ job'.oldMods = job.oldMods /\ job'.before = job.before
               /\ job'.revived = job.revived /\ job'.failed = job.failed /\ job'.got = job.got
               /\ job'.deps = IF m = "binary" THEN Needs[job.task.new] ELSE <<>>
               /\ \/ job'.at = "deplist" /\ job'.deps # <<>>
                  \/ job'.at = "installed" /\ job'.todo = {} /\ job'.deps = <<>>
                  \/ job'.at = "fetch" /\ job'.todo # {} /\ job'.deps = <<>>
               /\ lame' = IF m = "binary" THEN lame \cup {job.task.new} ELSE lame
               /\ Still /\ met' = met

\* Fetched is what SFetched says.
LEMMA FetchedFacts ==
    ASSUME Values, Fetched
    PROVE  /\ \E m \in Module : SFetched(m)
           /\ job' \in Job
<1>1. PICK m \in job.todo :
        /\ At("fetch")
        /\ IsNext(m)
        /\ ~ IsInstalled(job.task.new, m)
        /\ layers' = With({<<job.task.new, m>>}, "live")
        /\ LET rest == job.todo \ {m}
               needs == IF m = "binary" THEN Needs[job.task.new] ELSE <<>>
           IN  Become([job EXCEPT !.todo = rest, !.pulled = @ \cup {m}, !.deps = needs,
                                  !.at = IF needs # <<>> THEN "deplist"
                                         ELSE IF rest = {} THEN "installed" ELSE "fetch"])
        /\ lame' = IF m = "binary" THEN lame \cup {job.task.new} ELSE lame
        /\ UNCHANGED <<exported, twice, met>>
  BY DEF Fetched
<1> DEFINE needs == IF m = "binary" THEN Needs[job.task.new] ELSE <<>>
<1>2. job \in Job /\ m \in Module /\ job.task.new \in App
  BY DEF Values, Job, Task
<1>3. needs \in Seq(Dep)
  BY <1>2, ManagerAssumption
<1> HIDE DEF needs
<1>4. /\ job' = [job EXCEPT !.todo = job.todo \ {m}, !.pulled = @ \cup {m}, !.deps = needs,
                            !.at = IF needs # <<>> THEN "deplist"
                                   ELSE IF job.todo \ {m} = {} THEN "installed" ELSE "fetch"]
      /\ Still
  BY <1>1 DEF Become, Still, needs
<1>5. job' \in Job
  BY <1>2, <1>3, <1>4 DEF Job, Steps
<1>6. Marks(job.task.new, {m}, "live")
  BY <1>1, LayerFacts DEF With, Marks
<1>7. /\ job'.todo = job.todo \ {m} /\ job'.pulled = job.pulled \cup {m}
      /\ job'.task = job.task /\ job'.oldMods = job.oldMods /\ job'.before = job.before
      /\ job'.revived = job.revived /\ job'.failed = job.failed /\ job'.got = job.got
      /\ job'.deps = needs
      /\ \/ job'.at = "deplist" /\ job'.deps # <<>>
         \/ job'.at = "installed" /\ job'.todo = {} /\ job'.deps = <<>>
         \/ job'.at = "fetch" /\ job'.todo # {} /\ job'.deps = <<>>
  BY <1>2, <1>4 DEF Job
<1>8. layers[<<job.task.new, m>>] = "none" /\ job.at = "fetch"
      /\ m \in job.todo /\ ("binary" \in job.todo => m = "binary")
  BY <1>1 DEF IsInstalled, At, IsNext
<1>9. SFetched(m)
  BY <1>1, <1>4, <1>6, <1>7, <1>8 DEF SFetched, needs
<1> QED
  BY <1>2, <1>5, <1>9

\* A pull fails: InstallRef() is rolled back.
SGiveUp == /\ job.at \in Pulling
           /\ Kept /\ Rest /\ GaveUp /\ lame' = lame
           /\ \/ /\ AppSame /\ job.todo = {} /\ job.at # "fetch"
                 /\ met' \cap {"net", "cancel", "hook"} # {}
              \/ /\ Rolls
                 /\ \/ met' \cap {"net", "cancel", "hook"} # {}
                    \/ /\ job.at = "fetch"
                       /\ \E m \in job.todo : layers[<<job.task.new, m>>] # "none"

\* Giving up sends a job to its end, or to be undone.
LEMMA GiveUpFacts ==
    ASSUME Values, GiveUp
    PROVE  job' \in Job /\ Kept /\ Rest /\ GaveUp
  BY Fails DEF GiveUp, GaveUp, Steps

\* The rollback of InstallRef(), layer by layer.
LEMMA RollFacts ==
    ASSUME NEW l, layers' = RolledBack(l),
           \A a \in App, m \in Module : l[<<a, m>>] = layers[<<a, m>>]
    PROVE  Rolls
  BY LayerFacts DEF RolledBack, Rolls

\* A fault that is met stays met.
LEMMA MeetFacts ==
    ASSUME NEW fs, Meet(fs)
    PROVE  met' \cap fs # {}
  BY DEF Meet

\* A failure of pullDependency() is one of the job.
LEMMA AfterFailureFacts ==
    ASSUME Values, NEW l, AfterFailure(l), job.at \in {"deplist", "depfetch"},
           \A a \in App, m \in Module : l[<<a, m>>] = layers[<<a, m>>],
           met' \cap {"net", "cancel", "hook"} # {}
    PROVE  SGiveUp /\ job' \in Job
<1>1. job' \in Job /\ Kept /\ Rest /\ GaveUp /\ lame' = lame
  BY GiveUpFacts DEF AfterFailure
<1>2. CASE job.todo = {}
  <2>1. AppSame
    BY <1>2 DEF AfterFailure, AppSame
  <2> QED
    BY <1>1, <1>2, <2>1 DEF SGiveUp, Pulling
<1>3. CASE job.todo # {}
  <2>1. Rolls
    BY <1>3, RollFacts DEF AfterFailure
  <2> QED
    BY <1>1, <1>3, <2>1 DEF SGiveUp, Pulling
<1> QED
  BY <1>2, <1>3

\* The actions in which pullDependency() fails.
LEMMA GivesUpFacts ==
    ASSUME Values, job.deps # <<>>,
           DepListFails \/ DepsTooLate \/ DepFetchFails \/ DepFetchedTooLate
    PROVE  SGiveUp /\ job' \in Job
<1> USE DEF At
<1>1. \A a \in App, m \in Module : WithoutDeps(layers)[<<a, m>>] = layers[<<a, m>>]
  BY LayerFacts DEF WithoutDeps, Values, Job
<1>2. ASSUME DepListFails PROVE SGiveUp /\ job' \in Job
  <2>1. met' \cap {"net", "cancel", "hook"} # {}
    BY <1>2, MeetFacts DEF DepListFails
  <2> QED
    BY <1>1, <1>2, <2>1, AfterFailureFacts DEF DepListFails
<1>3. ASSUME DepsTooLate PROVE SGiveUp /\ job' \in Job
  <2>1. met' \cap {"net", "cancel", "hook"} # {}
    BY <1>3, MeetFacts DEF DepsTooLate
  <2> QED
    BY <1>3, <2>1, AfterFailureFacts DEF DepsTooLate
<1>4. ASSUME DepFetchFails PROVE SGiveUp /\ job' \in Job
  <2>1. met' \cap {"net", "cancel", "hook"} # {}
    BY <1>4, MeetFacts DEF DepFetchFails
  <2> QED
    BY <1>1, <1>4, <2>1, AfterFailureFacts DEF DepFetchFails
<1>5. ASSUME DepFetchedTooLate PROVE SGiveUp /\ job' \in Job
  <2>1. met' \cap {"net", "cancel", "hook"} # {}
    BY <1>5, MeetFacts DEF DepFetchedTooLate
  <2>2. Head(job.deps) \in Dep
    BY DEF Values, Job
  <2> DEFINE l == [WithoutDeps(layers) EXCEPT ![Binary(Head(job.deps))] = "live"]
  <2>3. \A a \in App, m \in Module : l[<<a, m>>] = layers[<<a, m>>]
    BY <1>1, <2>2, LayerFacts DEF WithoutDeps
  <2>4. AfterFailure(l) /\ job.at = "depfetch"
    BY <1>5 DEF DepFetchedTooLate
  <2> HIDE DEF l
  <2> QED
    BY <2>1, <2>3, <2>4, AfterFailureFacts
<1> QED
  BY <1>2, <1>3, <1>4, <1>5

\* A module that cannot be pulled.
LEMMA FetchFailsFacts == ASSUME Values, FetchFails PROVE SGiveUp /\ job' \in Job
<1>1. PICK m \in job.todo :
        /\ At("fetch")
        /\ IsNext(m)
        /\ Meet({"net", "cancel"}) \/ (IsInstalled(job.task.new, m) /\ Calm)
        /\ layers' = RolledBack(layers)
        /\ GiveUp
        /\ lame' = lame
  BY DEF FetchFails
<1>2. Rolls
  BY <1>1, RollFacts
<1>3. \/ met' \cap {"net", "cancel", "hook"} # {}
      \/ \E n \in job.todo : layers[<<job.task.new, n>>] # "none"
  BY <1>1, MeetFacts DEF IsInstalled
<1> QED
  BY <1>1, <1>2, <1>3, GiveUpFacts DEF SGiveUp, At, Pulling

\* A module is pulled when the task has been cancelled.
STooLate(m) ==
    /\ job.at = "fetch" /\ m \in job.todo /\ layers[<<job.task.new, m>>] = "none"
    /\ "cancel" \in met'
    /\ Kept /\ Rest /\ GaveUp
    /\ lame' = IF m = "binary" THEN lame \cup {job.task.new} ELSE lame
    /\ \A a \in App, n \in Module :
          layers'[<<a, n>>] =
              IF a = job.task.new /\ n \in job.pulled THEN "none"
              ELSE IF a = job.task.new /\ n \in job.revived /\ (n = m \/ layers[<<a, n>>] # "none")
              THEN "deleted"
              ELSE IF a = job.task.new /\ n = m THEN "live" ELSE layers[<<a, n>>]

\* A module that was pulled when the task had been cancelled.
LEMMA TooLateFacts ==
    ASSUME Values, FetchedTooLate
    PROVE  (\E m \in Module : STooLate(m)) /\ job' \in Job
<1>1. PICK m \in job.todo :
        /\ At("fetch")
        /\ Meet({"cancel"})
        /\ IsNext(m)
        /\ ~ IsInstalled(job.task.new, m)
        /\ layers' = RolledBack(With({<<job.task.new, m>>}, "live"))
        /\ GiveUp
        /\ lame' = IF m = "binary" THEN lame \cup {job.task.new} ELSE lame
  BY DEF FetchedTooLate
<1>2. job \in Job /\ m \in Module /\ job.task.new \in App
  BY DEF Values, Job, Task
<1>3. \A a \in App, n \in Module :
          layers'[<<a, n>>] =
              IF a = job.task.new /\ n \in job.pulled THEN "none"
              ELSE IF a = job.task.new /\ n \in job.revived /\ (n = m \/ layers[<<a, n>>] # "none")
              THEN "deleted"
              ELSE IF a = job.task.new /\ n = m THEN "live" ELSE layers[<<a, n>>]
  BY <1>1, <1>2, LayerFacts DEF RolledBack, With
<1>4. "cancel" \in met' /\ layers[<<job.task.new, m>>] = "none" /\ job.at = "fetch"
  BY <1>1 DEF Meet, IsInstalled, At
<1>5. STooLate(m)
  BY <1>1, <1>3, <1>4, GiveUpFacts DEF STooLate
<1> QED
  BY <1>1, <1>2, <1>5, GiveUpFacts

\* The modules of ref that are done before the one that is missing.
Some(some, mods, missing) ==
    /\ some \subseteq mods \ missing
    /\ "binary" \in missing => some = {}
    /\ "binary" \in mods \ missing => "binary" \in some

\* The modules the job was to replace that are gone.
Missing(a) == {m \in job.oldMods : layers[<<a, m>>] = "none"}

\* The old version runs and is hidden.
SBusy(a) == /\ job.at = "installed" /\ layers[Binary(job.task.new)] # "none"
            /\ a \in job.task.old /\ a \in running
            /\ Kept /\ Rest /\ met' = met /\ lame' = lame
            /\ \/ /\ Missing(a) = {} /\ Marks(a, job.oldMods, "deleted")
                  /\ job'.at = "post" /\ job'.failed = job.failed
               \/ /\ Missing(a) # {} /\ LoggedOrUndone
                  /\ \E some \in SUBSET Module :
                        Some(some, job.oldMods, Missing(a)) /\ Marks(a, some, "live")

\* Marking modules of one application leaves the other layers alone.
LEMMA MarkFacts ==
    ASSUME NEW r \in App, NEW mods \in SUBSET Module, NEW mark, layers' = With({r} \X mods, mark)
    PROVE  Marks(r, mods, mark)
  BY LayerFacts DEF With, Marks

\* The modules of the old version that are gone.
LEMMA MissingFacts ==
    ASSUME Values, NEW a \in App
    PROVE  job.oldMods \ Modules(a) = Missing(a)
  BY DEF Missing, Modules, IsInstalled, Values, Job

\* OldBusy is what SBusy says.
LEMMA BusyFacts ==
    ASSUME Values, NEW a \in App, OldBusy(a)
    PROVE  SBusy(a) /\ job' \in Job
<1>1. job \in Job /\ job.oldMods \subseteq Module
  BY DEF Values, Job
<1>2. /\ job.at = "installed" /\ layers[Binary(job.task.new)] # "none"
      /\ a \in job.task.old /\ a \in running /\ met' = met /\ lame' = lame
  BY DEF OldBusy, At, IsInstalled, Binary
<1>3. CASE Missing(a) = {}
  <2>1. layers' = With({a} \X job.oldMods, "deleted") /\ Goto("post")
    BY <1>3, MissingFacts DEF OldBusy
  <2> QED
    BY <1>1, <1>2, <1>3, <2>1, MarkFacts, Goes DEF SBusy, Steps
<1>4. CASE Missing(a) # {}
  <2>1. PICK some \in DoneBefore(job.oldMods, Missing(a)) :
           layers' = With({a} \X some, "live") /\ LogOrUndo
    BY <1>4, MissingFacts DEF OldBusy
  <2>2. Some(some, job.oldMods, Missing(a)) /\ some \in SUBSET Module
    BY <1>1 DEF DoneBefore, Some
  <2>3. Marks(a, some, "live")
    BY <2>1, <2>2, MarkFacts
  <2> QED
    BY <1>2, <1>4, <2>1, <2>2, <2>3, Logs DEF SBusy
<1> QED
  BY <1>3, <1>4

\* The rollback of a removal waits for a remote.
PulledBack(a, some, failed, then) ==
    /\ job'.at = "restore" /\ job'.lost = some /\ job'.of = a
    /\ job'.failed = failed /\ job'.then = then
    /\ Kept /\ Still /\ job'.deps = job.deps /\ job'.got = job.got

\* A rollback that has to pull modules back.
LEMMA PullBackFacts ==
    ASSUME Values, NEW a \in App, NEW some \in SUBSET Module, NEW failed \in BOOLEAN,
           NEW then \in {"undo", "done"}, PullBack(a, some, failed, then)
    PROVE  PulledBack(a, some, failed, then) /\ job' \in Job
<1>1. job \in Job
  BY DEF Values
<1>2. job' = [job EXCEPT !.at = "restore", !.lost = some, !.of = a, !.failed = failed,
                         !.then = then]
  BY DEF PullBack, Become
<1>3. job' \in Job
  BY <1>1, <1>2 DEF Job, Steps
<1>4. Still
  BY DEF PullBack, Become, Still
<1> QED
  BY <1>1, <1>2, <1>3, <1>4 DEF PulledBack, Job, Kept

\* The old version is removed.
SReplace(a) ==
    /\ job.at = "replace" /\ a \in job.task.old /\ met' = met /\ lame' = lame
    /\ \/ /\ Missing(a) = {} /\ Marks(a, job.oldMods, "none")
          /\ job'.at = "post" /\ job'.failed = job.failed /\ Kept /\ Rest
       \/ /\ Missing(a) # {}
          /\ \E some \in SUBSET Module :
                /\ Some(some, job.oldMods, Missing(a)) /\ Marks(a, some, "none")
                /\ \/ job.task.kind = "update" /\ PulledBack(a, some, FALSE, "done")
                   \/ job.task.kind # "update" /\ PulledBack(a, some, TRUE, "undo")

\* Replace is what SReplace says.
LEMMA ReplaceFacts ==
    ASSUME Values, NEW a \in App, Replace(a)
    PROVE  SReplace(a) /\ job' \in Job
<1>1. job \in Job /\ job.oldMods \subseteq Module
  BY DEF Values, Job
<1>2. job.at = "replace" /\ a \in job.task.old /\ met' = met /\ lame' = lame
  BY DEF Replace, At
<1>3. CASE Missing(a) = {}
  <2>1. layers' = With({a} \X job.oldMods, "none") /\ Goto("post")
    BY <1>3, MissingFacts DEF Replace
  <2> QED
    BY <1>1, <1>2, <1>3, <2>1, MarkFacts, Goes DEF SReplace, Steps
<1>4. CASE Missing(a) # {}
  <2> DEFINE update == job.task.kind = "update"
  <2>1. PICK some \in DoneBefore(job.oldMods, Missing(a)) :
           /\ layers' = With({a} \X some, "none")
           /\ PullBack(a, some, ~update, IF update THEN "done" ELSE "undo")
    BY <1>4, MissingFacts DEF Replace
  <2>2. Some(some, job.oldMods, Missing(a)) /\ some \in SUBSET Module
    BY <1>1 DEF DoneBefore, Some
  <2>3. Marks(a, some, "none")
    BY <2>1, <2>2, MarkFacts
  <2>4. CASE update
    <3>1. PullBack(a, some, FALSE, "done")
      BY <2>1, <2>4
    <3>2. PulledBack(a, some, FALSE, "done") /\ job' \in Job
      BY <3>1, <2>2, PullBackFacts
    <3> QED
      BY <1>2, <1>4, <2>2, <2>3, <2>4, <3>2 DEF SReplace
  <2>5. CASE ~update
    <3>1. PullBack(a, some, TRUE, "undo")
      BY <2>1, <2>5
    <3>2. PulledBack(a, some, TRUE, "undo") /\ job' \in Job
      BY <3>1, <2>2, PullBackFacts
    <3> QED
      BY <1>2, <1>4, <2>2, <2>3, <2>5, <3>2 DEF SReplace
  <2> QED
    BY <2>4, <2>5
<1> QED
  BY <1>3, <1>4

\* UninstallRef().
SUndo == LET t    == job.task
             mods == IF Whole(t) THEN Modules(t.new) ELSE t.mods
             gone == {m \in mods : layers[<<t.new, m>>] = "none"}
         IN  /\ job.at = "undo" /\ met' = met /\ lame' = lame
             /\ \/ /\ gone = {} /\ Marks(t.new, mods, "none")
                   /\ job'.at = "done" /\ job'.failed = job.failed /\ Kept /\ Rest
                \/ /\ gone # {}
                   /\ \E some \in SUBSET Module :
                         /\ Some(some, mods, gone) /\ Marks(t.new, some, "none")
                         /\ PulledBack(t.new, some, TRUE, "done")

\* UninstallRef is what SUndo says.
LEMMA UndoFacts == ASSUME Values, UninstallRef PROVE SUndo /\ job' \in Job
<1> DEFINE t    == job.task
           mods == IF Whole(t) THEN Modules(t.new) ELSE t.mods
           gone == {m \in mods : layers[<<t.new, m>>] = "none"}
<1>1. job \in Job /\ t.new \in App /\ mods \subseteq Module
  BY DEF Values, Job, Task, Modules
<1>2. job.at = "undo" /\ met' = met /\ lame' = lame
  BY DEF UninstallRef, At
<1>3. mods \ Modules(t.new) = gone
  BY <1>1 DEF Modules, IsInstalled
<1>4. \/ mods \ Modules(t.new) = {} /\ layers' = With({t.new} \X mods, "none") /\ Goto("done")
      \/ /\ mods \ Modules(t.new) # {}
         /\ \E some \in DoneBefore(mods, mods \ Modules(t.new)) :
               /\ layers' = With({t.new} \X some, "none")
               /\ PullBack(t.new, some, TRUE, "done")
  BY DEF UninstallRef
<1> HIDE DEF mods, gone
<1>5. CASE gone = {}
  BY <1>1, <1>2, <1>3, <1>4, <1>5, MarkFacts, Goes DEF SUndo, Steps, mods, gone
<1>6. CASE gone # {}
  <2>1. PICK some \in DoneBefore(mods, gone) :
               /\ layers' = With({t.new} \X some, "none")
               /\ PullBack(t.new, some, TRUE, "done")
    BY <1>3, <1>4, <1>6
  <2>2. Some(some, mods, gone) /\ some \in SUBSET Module
    BY <1>1 DEF DoneBefore, Some
  <2>3. Marks(t.new, some, "none")
    BY <1>1, <2>1, <2>2, MarkFacts
  <2>4. PulledBack(t.new, some, TRUE, "done") /\ job' \in Job
    BY <1>1, <2>1, <2>2, PullBackFacts
  <2> QED
    BY <1>2, <1>6, <2>2, <2>3, <2>4 DEF SUndo, mods, gone
<1> QED
  BY <1>5, <1>6

\* A rollback pulls one module back, or cannot.
SRestore(m) == /\ job.at = "restore" /\ m \in job.lost
               /\ \/ Marks(job.of, {m}, "live") /\ met' = met
                  \/ AppSame /\ {"net", "unrestored"} \subseteq met'
               /\ job'.at = "restore" /\ job'.lost = job.lost \ {m} /\ job'.of = job.of
               /\ job'.then = job.then /\ job'.failed = job.failed /\ Kept /\ Still
               /\ job'.deps = job.deps /\ job'.got = job.got /\ lame' = lame

\* Restore is what SRestore says.
LEMMA RestoreFacts ==
    ASSUME Values, Restore
    PROVE  (\E m \in Module : SRestore(m)) /\ job' \in Job
<1>1. PICK m \in job.lost :
        /\ At("restore")
        /\ \/ layers' = With({<<job.of, m>>}, "live") /\ Calm
           \/ "net" \in Faults /\ met' = met \cup {"net", "unrestored"} /\ UNCHANGED layers
        /\ Become([job EXCEPT !.lost = @ \ {m}])
        /\ lame' = lame
  BY DEF Restore
<1>2. job \in Job /\ m \in Module /\ job.of \in App
  BY DEF Values, Job
<1>3. \/ Marks(job.of, {m}, "live") /\ met' = met
      \/ AppSame /\ {"net", "unrestored"} \subseteq met'
  BY <1>1, <1>2, LayerFacts DEF With, Marks, AppSame, Calm
<1>4. job' = [job EXCEPT !.lost = @ \ {m}] /\ Still /\ job.at = "restore"
  BY <1>1 DEF Become, Still, At
<1>5. job' \in Job
  BY <1>2, <1>4 DEF Job
<1>6. /\ job'.at = "restore" /\ job'.lost = job.lost \ {m} /\ job'.of = job.of
      /\ job'.then = job.then /\ job'.failed = job.failed /\ Kept
      /\ job'.deps = job.deps /\ job'.got = job.got
  BY <1>2, <1>4 DEF Job, Kept
<1> QED
  BY <1>1, <1>2, <1>3, <1>4, <1>5, <1>6 DEF SRestore

-----------------------------------------------------------------------------
(* Versions.                                                               *)

\* Of the applications in a set there is one of the highest version.
LEMMA HighestVersion ==
    ASSUME NEW S \in SUBSET App, S # {}
    PROVE  \E a \in S : \A b \in S : Version[b] <= Version[a]
<1> DEFINE Up(a) == {b \in S : Version[b] > Version[a]}
           R == StrictSubsetOrdering(App)
           T == {Up(a) : a \in S}
<1>1. IsWellFoundedOn(R, FiniteSubsetsOf(App))
  BY FS_StrictSubsetOrderingWellFounded
<1>2. \A a \in S : Up(a) \in FiniteSubsetsOf(App)
  <2> TAKE a \in S
  <2>1. Up(a) \subseteq App
    OBVIOUS
  <2>2. IsFiniteSet(Up(a))
    BY <2>1, ManagerAssumption, FS_Subset
  <2> QED  BY <2>1, <2>2 DEF FiniteSubsetsOf
<1>3. T \subseteq FiniteSubsetsOf(App) /\ T # {}
  BY <1>2
<1>4. \E x \in T : \A y \in T : ~ (<<y, x>> \in R)
  BY <1>1, <1>3, WFMin
<1>5. PICK a \in S : \A b \in S : ~ (<<Up(b), Up(a)>> \in R)
  BY <1>4
<1>6. ASSUME NEW b \in S, Version[b] > Version[a]  PROVE FALSE
  <2>1. \A c \in S : Version[c] \in Nat
    BY ManagerAssumption
  <2>2. Up(b) \subseteq Up(a)
    BY <1>6, <2>1
  <2>3. b \in Up(a) /\ b \notin Up(b)
    BY <1>6, <2>1
  <2>4. Up(a) \in SUBSET App /\ Up(b) \in SUBSET App
    OBVIOUS
  <2> HIDE DEF Up
  <2>5. <<Up(b), Up(a)>> \in R
    BY <2>2, <2>3, <2>4 DEF StrictSubsetOrdering
  <2> QED  BY <2>5, <1>5
<1>7. \A b \in S : Version[b] <= Version[a]
  BY <1>6, ManagerAssumption
<1> QED  BY <1>7

\* The highest listed version is one, is listed, and is there if any is.
LEMMA LatestFacts ==
    ASSUME NEW a \in App
    PROVE  /\ Latest(Id[a]) \subseteq App
           /\ \A c \in Latest(Id[a]) : Id[c] = Id[a] /\ Listed(c)
           /\ \A c, d \in Latest(Id[a]) : c = d
           /\ \A c \in Latest(Id[a]), b \in App :
                 Id[b] = Id[a] /\ Listed(b) => Version[b] <= Version[c]
           /\ Listed(a) => Latest(Id[a]) # {}
<1>1. \A c \in Latest(Id[a]) : c \in App /\ Id[c] = Id[a] /\ Listed(c)
  BY DEF Latest
<1>2. \A c \in Latest(Id[a]), b \in App :
                 Id[b] = Id[a] /\ Listed(b) => Version[b] <= Version[c]
  BY DEF Latest
<1>3. ASSUME NEW c \in Latest(Id[a]), NEW d \in Latest(Id[a]) PROVE c = d
  <2>1. Version[c] <= Version[d] /\ Version[d] <= Version[c] /\ c \in App /\ d \in App
    BY <1>1, <1>2
  <2>2. Version[c] = Version[d]
    BY <2>1, ManagerAssumption
  <2> QED
    BY <1>1, <2>1, <2>2, ManagerAssumption
<1>4. ASSUME Listed(a) PROVE Latest(Id[a]) # {}
  <2> DEFINE S == {b \in App : Id[b] = Id[a] /\ Listed(b)}
  <2>1. PICK c \in S : \A b \in S : Version[b] <= Version[c]
    BY <1>4, HighestVersion
  <2>2. c \in Latest(Id[a])
    BY <2>1 DEF Latest
  <2> QED
    BY <2>2
<1> QED
  BY <1>1, <1>2, <1>3, <1>4

-----------------------------------------------------------------------------
(* What the other steps do.                                                *)

\* A D-Bus method adds a task.
SAdd(t) == /\ ~broken /\ broken' = broken
           /\ queue' = Append(queue, t)
           /\ UNCHANGED <<layers, running, job, owned, lame>>
           /\ "twice" \notin met' => Patient(Id[t.new])
           /\ \/ /\ t.kind = "install" /\ ~ Listed(t.new) /\ t.old = Latest(Id[t.new])
                 /\ t.mods = {"binary"}
                 /\ "downgrade" \notin met' => \A b \in t.old : Version[b] < Version[t.new]
              \/ t.kind = "module" /\ t.old = {} /\ \E m \in Module \ {"binary"} : t.mods = {m}
              \/ /\ t.kind = "update"
                 /\ \E a \in App : /\ t.old = {a} /\ Id[a] = Id[t.new] /\ a \in Latest(Id[a])
                                   /\ Version[t.new] > Version[a]
                                   /\ layers[Binary(a)] # "none"
              \/ /\ t.kind = "uninstall" /\ t.old = {} /\ "uninstall" \in met'
                 /\ \E m \in Module : t.mods = {m}

\* What every D-Bus method does when it adds a task.
LEMMA AddFacts ==
    ASSUME NEW t, NEW what, Add(t, what)
    PROVE  /\ ~broken /\ broken' = broken /\ queue' = Append(queue, t)
           /\ UNCHANGED <<layers, running, job, owned, lame>>
           /\ "twice" \notin met' => Patient(Id[t.new])
           /\ what \subseteq met' /\ met \subseteq met'
  BY DEF Add, Dispatching

\* The D-Bus methods are what SAdd says.
LEMMA RequestFacts ==
    ASSUME Values,
           \/ \E a \in App : Install(a)
           \/ \E a \in App, m \in Module : InstallModule(a, m) \/ Uninstall(a, m)
           \/ \E a, b \in App : Update(a, b)
    PROVE  (\E t \in Task : SAdd(t)) /\ Values' /\ met \subseteq met'
<1>1. ASSUME NEW a \in App, Install(a)
      PROVE  (\E t \in Task : SAdd(t)) /\ Values' /\ met \subseteq met'
  <2> DEFINE t == [kind |-> "install", new |-> a, old |-> Latest(Id[a]), mods |-> {"binary"}]
             low == \A b \in Latest(Id[a]) : Version[b] < Version[a]
             what == IF low THEN {} ELSE {"downgrade"}
  <2>1. t \in Task
    BY ManagerAssumption DEF Task, Latest
  <2>2. Add(t, what) /\ ~ Listed(a)
    BY <1>1 DEF Install
  <2>3. "downgrade" \notin what => low
    OBVIOUS
  <2>4. t.kind = "install" /\ t.new = a /\ t.old = Latest(Id[a]) /\ t.mods = {"binary"}
    OBVIOUS
  <2> HIDE DEF t, what, low
  <2>5. "downgrade" \notin met' => low
    BY <2>2, <2>3, AddFacts
  <2>6. SAdd(t)
    BY <2>2, <2>4, <2>5, AddFacts DEF SAdd, low
  <2> QED
    BY <1>1, <2>1, <2>2, <2>6, AddFacts, InstallValues
<1>2. ASSUME NEW a \in App, NEW m \in Module, InstallModule(a, m)
      PROVE  (\E t \in Task : SAdd(t)) /\ Values' /\ met \subseteq met'
  <2> DEFINE t == [kind |-> "module", new |-> a, old |-> {}, mods |-> {m}]
  <2>1. t \in Task
    BY DEF Task
  <2>2. Add(t, {}) /\ m # "binary"
    BY <1>2 DEF InstallModule
  <2>3. t.kind = "module" /\ t.new = a /\ t.old = {} /\ t.mods = {m}
    OBVIOUS
  <2> HIDE DEF t
  <2>4. SAdd(t)
    BY <2>2, <2>3, AddFacts DEF SAdd
  <2> QED
    BY <1>2, <2>1, <2>2, <2>4, AddFacts, InstallModuleValues
<1>3. ASSUME NEW a \in App, NEW m \in Module, Uninstall(a, m)
      PROVE  (\E t \in Task : SAdd(t)) /\ Values' /\ met \subseteq met'
  <2> DEFINE t == [kind |-> "uninstall", new |-> a, old |-> {}, mods |-> {m}]
  <2>1. t \in Task
    BY DEF Task
  <2>2. Add(t, {"uninstall"})
    BY <1>3 DEF Uninstall
  <2>3. t.kind = "uninstall" /\ t.new = a /\ t.old = {} /\ t.mods = {m}
    OBVIOUS
  <2> HIDE DEF t
  <2>4. SAdd(t)
    BY <2>2, <2>3, AddFacts DEF SAdd
  <2> QED
    BY <1>3, <2>1, <2>2, <2>4, AddFacts, UninstallValues
<1>4. ASSUME NEW a \in App, NEW b \in App, Update(a, b)
      PROVE  (\E t \in Task : SAdd(t)) /\ Values' /\ met \subseteq met'
  <2> DEFINE t == [kind |-> "update", new |-> b, old |-> {a}, mods |-> {}]
  <2>1. t \in Task
    BY DEF Task
  <2>2. /\ Add(t, {}) /\ Id[a] = Id[b] /\ a \in Latest(Id[a]) /\ Version[b] > Version[a]
        /\ layers[Binary(a)] # "none"
    BY <1>4 DEF Update, Newest, IsInstalled, Binary
  <2>3. t.kind = "update" /\ t.new = b /\ t.old = {a}
    OBVIOUS
  <2> HIDE DEF t
  <2>4. SAdd(t)
    BY <2>2, <2>3, AddFacts DEF SAdd
  <2> QED
    BY <1>4, <2>1, <2>2, <2>4, AddFacts, UpdateValues
<1> QED
  BY <1>1, <1>2, <1>3, <1>4

\* An application starts or exits.
SRun == /\ UNCHANGED <<layers, queue, job, owned, broken, lame>>
        /\ \/ \E a \in App : /\ running' = running \cup {a}
                             /\ layers[Binary(a)] = "live"
                             /\ \A d \in ToSet(Needs[a]) : layers[Binary(d)] = "live"
                             /\ Dispatching \/ "race" \in met'
           \/ running' \subseteq running

\* Applications that start and exit change nothing else.
LEMMA RunFacts ==
    ASSUME \E a \in App : Run(a) \/ Exit(a)
    PROVE  SRun /\ met \subseteq met'
<1>1. ASSUME NEW a \in App, Run(a) PROVE SRun /\ met \subseteq met'
  BY <1>1 DEF Run, SRun, Calm, Meet
<1>2. ASSUME NEW a \in App, Exit(a) PROVE SRun /\ met \subseteq met'
  BY <1>2 DEF Exit, SRun
<1> QED
  BY <1>1, <1>2

\* deferredUninstall() removes the hidden layers that do not run.
SDeferred == /\ ~broken /\ job.at \in Waiting
             /\ UNCHANGED <<running, queue, job, owned, lame>>
             /\ \A a \in App, m \in Module :
                   layers'[<<a, m>>] = IF a \notin running /\ layers[<<a, m>>] = "deleted"
                                       THEN "none" ELSE layers[<<a, m>>]
             /\ \A d \in Dep : layers'[Binary(d)] = layers[Binary(d)]
             /\ (\A a \in App : (\E m \in Module : layers[<<a, m>>] = "deleted")
                                    => Latest(Id[a]) # {}) => ~broken'

\* deferredUninstall() is what SDeferred says.
LEMMA DeferredFacts ==
    ASSUME Values, DeferredUninstall
    PROVE  SDeferred /\ met \subseteq met'
<1> DEFINE hidden == {a \in App \ running : \E m \in Module : layers[<<a, m>>] = "deleted"}
           gone   == {k \in Layer : k[1] \in hidden /\ layers[k] = "deleted"}
<1>1. /\ layers' = With(gone, "none")
      /\ broken' = (\E a \in hidden : Latest(Id[a]) = {})
      /\ UNCHANGED <<running, queue, job, owned, lame>>
      /\ ~broken /\ job.at \in Waiting /\ met \subseteq met'
  BY DEF DeferredUninstall, Dispatching
<1>2. \A a \in App, m \in Module : <<a, m>> \in gone <=> a \notin running /\ layers[<<a, m>>] = "deleted"
  BY LayerFacts
<1>3. \A d \in Dep : Binary(d) \notin gone
  BY ManagerAssumption DEF Binary
<1>4. (\A a \in App : (\E m \in Module : layers[<<a, m>>] = "deleted")
                                    => Latest(Id[a]) # {}) => ~broken'
  BY <1>1
<1> HIDE DEF gone, hidden
<1>5. \A a \in App, m \in Module :
                   layers'[<<a, m>>] = IF a \notin running /\ layers[<<a, m>>] = "deleted"
                                       THEN "none" ELSE layers[<<a, m>>]
  BY <1>1, <1>2, LayerFacts DEF With
<1>6. \A d \in Dep : layers'[Binary(d)] = layers[Binary(d)]
  BY <1>1, <1>3, LayerFacts DEF With
<1> QED
  BY <1>1, <1>4, <1>5, <1>6 DEF SDeferred

\* Prune() removes dependencies.
SPrune == /\ Prune /\ AppSame /\ UNCHANGED <<running, queue, job, owned, broken>>
          /\ "prune" \in met'

\* Prune() leaves the layers of applications alone.
LEMMA PruneFacts == ASSUME Values, Prune PROVE SPrune /\ met \subseteq met'
  BY LayerFacts DEF Prune, SPrune, With, AppSame

\* A task becomes the job.
SBegin(t) ==
    /\ job.at = "idle" /\ ~broken /\ queue # <<>> /\ t = Head(queue) /\ queue' = Tail(queue)
    /\ UNCHANGED <<layers, running, owned, broken, met, lame>>
    /\ job'.task.kind = t.kind /\ job'.task.new = t.new /\ job'.task.old = t.old
    /\ job'.todo = {} /\ job'.pulled = {} /\ job'.revived = {} /\ job'.got = {}
    /\ job'.deps = <<>> /\ job'.lost = {} /\ job'.before = Modules(t.new)
    /\ \/ /\ t.kind = "uninstall" /\ job'.at = "undo" /\ job'.failed = FALSE
          /\ job'.task.mods = t.mods
       \/ /\ t.kind = "module" /\ job'.task.mods = t.mods
          /\ \/ /\ job'.at = "list" /\ job'.failed = FALSE /\ t.new \in Latest(Id[t.new])
                /\ t.mods \cap Modules(t.new) = {}
             \/ job'.at = "done" /\ job'.failed = TRUE
       \/ /\ t.kind \in {"install", "update"} /\ job'.at = "list" /\ job'.failed = FALSE
          /\ \/ /\ t.old # {} /\ job'.oldMods = UNION {Modules(a) : a \in t.old}
                /\ job'.task.mods = job'.oldMods
             \/ t.old = {} /\ job'.oldMods = {} /\ job'.task.mods = t.mods

\* Begin is what SBegin says.
LEMMA BeginFacts ==
    ASSUME Values, Begin,
           Head(queue).kind = "module" => \E m \in Module : Head(queue).mods = {m},
           Head(queue).kind \in {"module", "uninstall"} => Head(queue).old = {}
    PROVE  (\E t \in Task : SBegin(t)) /\ job' \in Job /\ queue' \in Seq(Task)
<1> DEFINE t == Head(queue)
           j == NewJob(t)
           m == CHOOSE m \in t.mods : TRUE
           mods == UNION {Modules(a) : a \in t.old}
<1>1. queue # <<>> /\ queue \in Seq(Task) /\ job.at = "idle" /\ ~broken
  BY DEF Values, Begin, At
<1>2. t \in Task /\ Tail(queue) \in Seq(Task)
  BY <1>1
<1>3. /\ queue' = Tail(queue)
      /\ job' = CASE t.kind = "uninstall" -> [j EXCEPT !.at = "undo"]
                  [] t.kind = "module" ->
                       IF t.new \in Latest(Id[t.new]) /\ m \notin Modules(t.new)
                       THEN j ELSE [j EXCEPT !.at = "done", !.failed = TRUE]
                  [] t.old # {} -> [j EXCEPT !.oldMods = mods, !.task.mods = mods]
                  [] OTHER -> j
      /\ UNCHANGED <<layers, running, owned, broken, met, lame>>
  BY DEF Begin
<1>4. j \in Job
  BY <1>2, NewJobType
<1>5. /\ j.at = "list" /\ j.task = t /\ j.oldMods = {} /\ j.todo = {} /\ j.pulled = {}
      /\ j.revived = {} /\ j.deps = <<>> /\ j.got = {} /\ j.lost = {} /\ j.failed = FALSE
      /\ j.before = Modules(t.new)
  BY DEF NewJob
<1>6. mods \subseteq Module
  BY DEF Modules
<1>7. /\ t.kind = "module" => t.mods = {m}
      /\ t.kind \in {"module", "uninstall"} => t.old = {}
  OBVIOUS
<1> HIDE DEF j, m, mods, t
<1>8. CASE t.kind = "uninstall"
  <2>1. job' = [j EXCEPT !.at = "undo"]
    BY <1>3, <1>7, <1>8
  <2>2. job' \in Job
    BY <1>4, <2>1 DEF Job, Steps
  <2>3. /\ job'.at = "undo" /\ job'.failed = FALSE /\ job'.task = t
        /\ job'.todo = {} /\ job'.pulled = {} /\ job'.revived = {} /\ job'.got = {}
        /\ job'.deps = <<>> /\ job'.lost = {} /\ job'.before = Modules(t.new)
    BY <1>4, <1>5, <2>1 DEF Job
  <2>4. SBegin(t)
    BY <1>1, <1>3, <1>8, <2>3 DEF SBegin, t
  <2> QED
    BY <1>2, <1>3, <2>2, <2>4
<1>9. CASE t.kind = "module"
  <2>1. CASE t.new \in Latest(Id[t.new]) /\ m \notin Modules(t.new)
    <3>1. job' = j
      BY <1>3, <1>7, <1>9, <2>1
    <3>2. t.mods \cap Modules(t.new) = {}
      BY <1>7, <1>9, <2>1
    <3>3. SBegin(t)
      BY <1>1, <1>3, <1>5, <1>9, <2>1, <3>1, <3>2 DEF SBegin, t
    <3> QED
      BY <1>2, <1>3, <1>4, <3>1, <3>3
  <2>2. CASE ~ (t.new \in Latest(Id[t.new]) /\ m \notin Modules(t.new))
    <3>1. job' = [j EXCEPT !.at = "done", !.failed = TRUE]
      BY <1>3, <1>7, <1>9, <2>2
    <3>2. job' \in Job
      BY <1>4, <3>1 DEF Job, Steps
    <3>3. /\ job'.at = "done" /\ job'.failed = TRUE /\ job'.task = t
          /\ job'.todo = {} /\ job'.pulled = {} /\ job'.revived = {} /\ job'.got = {}
          /\ job'.deps = <<>> /\ job'.lost = {} /\ job'.before = Modules(t.new)
      BY <1>4, <1>5, <3>1 DEF Job
    <3>4. SBegin(t)
      BY <1>1, <1>3, <1>9, <3>3 DEF SBegin, t
    <3> QED
      BY <1>2, <1>3, <3>2, <3>4
  <2> QED
    BY <2>1, <2>2
<1>10. CASE t.kind \in {"install", "update"} /\ t.old # {}
  <2>1. job' = [j EXCEPT !.oldMods = mods, !.task.mods = mods]
    BY <1>3, <1>10
  <2>2. job' \in Job
    BY <1>4, <1>6, <2>1 DEF Job, Task
  <2>3. /\ job'.at = "list" /\ job'.failed = FALSE
        /\ job'.task.kind = t.kind /\ job'.task.new = t.new /\ job'.task.old = t.old
        /\ job'.oldMods = mods /\ job'.task.mods = mods
        /\ job'.todo = {} /\ job'.pulled = {} /\ job'.revived = {} /\ job'.got = {}
        /\ job'.deps = <<>> /\ job'.lost = {} /\ job'.before = Modules(t.new)
    BY <1>4, <1>5, <2>1 DEF Job, Task
  <2>4. SBegin(t)
    BY <1>1, <1>3, <1>10, <2>3 DEF SBegin, t, mods
  <2> QED
    BY <1>2, <1>3, <2>2, <2>4
<1>11. CASE t.kind \in {"install", "update"} /\ t.old = {}
  <2>1. job' = j
    BY <1>3, <1>11
  <2>2. SBegin(t)
    BY <1>1, <1>3, <1>5, <1>11, <2>1 DEF SBegin, t
  <2> QED
    BY <1>2, <1>3, <1>4, <2>1, <2>2
<1>12. t.kind \in {"install", "module", "update", "uninstall"}
  BY <1>2 DEF Task
<1> QED
  BY <1>8, <1>9, <1>10, <1>11, <1>12

\* The job is over.
SReturn == /\ job.at = "done" /\ job'.at = "idle" /\ ~broken
           /\ UNCHANGED <<layers, running, queue, broken, met, lame>>
           /\ LET id == Id[job.task.new]
                  left == \E a \in App : Id[a] = id /\ layers[Binary(a)] = "live"
              IN  owned' = IF job.failed THEN owned
                           ELSE IF job.task.kind # "uninstall" THEN owned \cup {id}
                           ELSE IF left THEN owned ELSE owned \ {id}

\* Return is what SReturn says.
LEMMA ReturnFacts == ASSUME Values, Return PROVE SReturn
<1>1. job' = NoJob /\ NoJob.at = "idle"
  BY DEF Return, NoJob
<1> QED
  BY <1>1 DEF Return, SReturn, At, Values, Job

-----------------------------------------------------------------------------
(* The shape of tasks and jobs.                                            *)

\* The shape of a task of each kind.
GoodTask(t) == /\ \A c \in t.old : Id[c] = Id[t.new] /\ c # t.new
               /\ \A c, d \in t.old : c = d
               /\ t.kind \in {"module", "uninstall"} => t.old = {}
               /\ t.kind = "update" => t.old # {}
               /\ t.kind = "module" => "binary" \notin t.mods

\* What the tasks in the queue are like.
QueueShape == \A i \in DOMAIN queue :
                 /\ GoodTask(queue[i])
                 /\ queue[i].kind \in {"module", "uninstall"} =>
                        \E m \in Module : queue[i].mods = {m}
                 /\ queue[i].kind = "install" => queue[i].mods = {"binary"}

\* The steps of a job that has not failed.
Ahead == {"list", "installed", "replace", "post"} \cup Pulling

\* What a job knows at each of its steps.
JobShape ==
    /\ job.at # "idle" => GoodTask(job.task)
    /\ job.at \in Ahead => job.task.kind # "uninstall" /\ job.failed = FALSE
    /\ job.at = "replace" => job.task.old # {}
    /\ job.at = "list" => /\ job.pulled = {} /\ job.todo = {} /\ job.revived = {}
                          /\ job.got = {}
    /\ job.at \in Pulling => /\ job.task.mods = job.todo \cup job.pulled \cup job.revived
                             /\ job.todo \cap (job.pulled \cup job.revived) = {}
    /\ job.at = "fetch" => job.todo # {}
    /\ job.at \in {"deplist", "depfetch"} => job.deps # <<>> /\ "binary" \in job.pulled
    /\ job.at = "undo" => /\ job.task.kind # "update"
                          /\ job.task.kind # "uninstall" => job.failed = TRUE
    /\ job.at = "restore" =>
          \/ /\ job.of = job.task.new /\ job.then = "done" /\ job.failed = TRUE
             /\ job.task.kind # "update"
          \/ job.of \in job.task.old /\ job.task.kind = "update" /\ job.then = "done"
          \/ /\ job.of \in job.task.old /\ job.task.kind = "install" /\ job.then = "undo"
             /\ job.failed = TRUE

\* Tasks and jobs have the shape of their kind.
Shape == QueueShape /\ JobShape

\* Tasks and jobs have their shape at the start.
LEMMA InitShape == Init => Shape
  BY DEF Init, Shape, QueueShape, JobShape, NoJob, Ahead, Pulling

\* The steps, by what they do.
SJob == \/ SMove \/ SDeps \/ SLists \/ SGiveUp \/ SUndo
        \/ \E m \in Module : SFetched(m) \/ STooLate(m) \/ SRestore(m)
        \/ \E a \in App : SBusy(a) \/ SReplace(a)
SAny == \/ \E t \in Task : SAdd(t) \/ SBegin(t)
        \/ SRun \/ SDeferred \/ SPrune \/ SReturn \/ SJob

\* The actions of a job.
JobAction == \/ \E a \in App : OldIdle(a) \/ OldBusy(a) \/ Replace(a)
             \/ ListFails \/ ListAnswers \/ FetchFails \/ Fetched \/ FetchedTooLate
             \/ DepPresent \/ DepMissing \/ DepListFails \/ DepsTooLate
             \/ DepFetchFails \/ DepFetchedTooLate \/ DepFetched
             \/ InstalledNothing \/ InstalledFirst \/ OldUnknown \/ PostInstall
             \/ UninstallRef \/ Restore \/ Restored

\* Every action of a job is one of the steps above.
LEMMA JobFacts == ASSUME Values, JobShape, JobAction PROVE SJob /\ job' \in Job
<1>1. CASE \/ ListFails \/ InstalledNothing \/ InstalledFirst \/ (\E a \in App : OldIdle(a))
           \/ OldUnknown \/ PostInstall \/ Restored
  BY <1>1, MoveFacts DEF SJob
<1>2. CASE DepPresent \/ DepMissing \/ DepFetched
  <2>1. job.deps # <<>>
    BY <1>2 DEF JobShape, DepPresent, DepMissing, DepFetched, At
  <2> QED
    BY <1>2, <2>1, DepsFacts DEF SJob
<1>3. CASE DepListFails \/ DepsTooLate \/ DepFetchFails \/ DepFetchedTooLate
  <2>1. job.deps # <<>>
    BY <1>3 DEF JobShape, DepListFails, DepsTooLate, DepFetchFails, DepFetchedTooLate, At
  <2> QED
    BY <1>3, <2>1, GivesUpFacts DEF SJob
<1>4. CASE ListAnswers
  BY <1>4, ListFacts DEF SJob
<1>5. CASE FetchFails
  BY <1>5, FetchFailsFacts DEF SJob
<1>6. CASE Fetched
  BY <1>6, FetchedFacts DEF SJob
<1>7. CASE FetchedTooLate
  BY <1>7, TooLateFacts DEF SJob
<1>8. CASE \E a \in App : OldBusy(a)
  BY <1>8, BusyFacts DEF SJob
<1>9. CASE \E a \in App : Replace(a)
  BY <1>9, ReplaceFacts DEF SJob
<1>10. CASE UninstallRef
  BY <1>10, UndoFacts DEF SJob
<1>11. CASE Restore
  BY <1>11, RestoreFacts DEF SJob
<1> QED
  BY <1>1, <1>2, <1>3, <1>4, <1>5, <1>6, <1>7, <1>8, <1>9, <1>10, <1>11 DEF JobAction

\* Layers keep their type in the steps of a job, ...
LEMMA JobLayers == ASSUME Values, JobAction, job.at \in {"deplist", "depfetch"} => job.deps # <<>>
                   PROVE  layers' \in [Layer -> Mark]
<1>1. layers \in [Layer -> Mark]
  BY DEF Values
<1>2. \A ks, mark : mark \in Mark => With(ks, mark) \in [Layer -> Mark]
  BY WithType
<1>3. \A l \in [Layer -> Mark] : /\ RolledBack(l) \in [Layer -> Mark]
                                 /\ WithoutDeps(l) \in [Layer -> Mark]
  BY RolledBackType, WithoutDepsType
<1>4. "live" \in Mark /\ "none" \in Mark /\ "deleted" \in Mark
  BY DEF Mark
<1>5. ASSUME NEW l \in [Layer -> Mark], AfterFailure(l) PROVE layers' \in [Layer -> Mark]
  BY <1>3, <1>5 DEF AfterFailure
<1>6. CASE DepListFails \/ DepsTooLate \/ DepFetchFails
  BY <1>1, <1>3, <1>5, <1>6 DEF DepListFails, DepsTooLate, DepFetchFails
<1>7. CASE DepFetchedTooLate
  <2>1. [WithoutDeps(layers) EXCEPT ![Binary(Head(job.deps))] = "live"] \in [Layer -> Mark]
    BY <1>1, <1>3, <1>4
  <2> QED
    BY <1>5, <1>7, <2>1 DEF DepFetchedTooLate
<1>8. CASE \/ \E a \in App : OldIdle(a)
           \/ ListFails \/ DepPresent \/ DepMissing \/ InstalledNothing \/ InstalledFirst
           \/ OldUnknown \/ PostInstall \/ Restored
  BY <1>1, <1>8, Zenon DEF OldIdle, ListFails, DepPresent, DepMissing, InstalledNothing,
     InstalledFirst, OldUnknown, PostInstall, Restored
<1>9. CASE ListAnswers \/ Fetched \/ DepFetched
  <2>1. \E ks : layers' = With(ks, "live")
    BY <1>9, Zenon DEF ListAnswers, Fetched, DepFetched
  <2> QED
    BY <1>2, <1>4, <2>1
<1>10. CASE FetchFails \/ FetchedTooLate
  BY <1>1, <1>2, <1>3, <1>4, <1>10 DEF FetchFails, FetchedTooLate
<1>11. ASSUME NEW a \in App, OldBusy(a) PROVE layers' \in [Layer -> Mark]
  <2>1. \E ks : layers' = With(ks, "live") \/ layers' = With(ks, "deleted")
    BY <1>11, Zenon DEF OldBusy
  <2> QED
    BY <1>2, <1>4, <2>1
<1>12. ASSUME NEW a \in App, Replace(a) PROVE layers' \in [Layer -> Mark]
  <2>1. \E ks : layers' = With(ks, "none")
    BY <1>12, Zenon DEF Replace
  <2> QED
    BY <1>2, <1>4, <2>1
<1>13. CASE UninstallRef
  <2>1. \E ks : layers' = With(ks, "none")
    BY <1>13, Zenon DEF UninstallRef
  <2> QED
    BY <1>2, <1>4, <2>1
<1>14. CASE Restore
  BY <1>1, <1>2, <1>4, <1>14 DEF Restore
<1> QED
  BY <1>6, <1>7, <1>8, <1>9, <1>10, <1>11, <1>12, <1>13, <1>14 DEF JobAction

\* ... links do, ...
LEMMA JobExported == ASSUME Values, JobAction PROVE exported' \subseteq App
<1>1. exported \subseteq App /\ job.task.new \in App /\ job.of \in App
  BY DEF Values, Job, Task
<1>2. CASE InstalledFirst
  BY <1>1, <1>2, ExportType DEF InstalledFirst
<1>3. ASSUME NEW a \in App, Replace(a) PROVE exported' \subseteq App
  BY <1>1, <1>3, ExportType DEF Replace
<1>4. CASE UninstallRef
  BY <1>1, <1>4, ExportType DEF UninstallRef
<1>5. CASE Restored
  BY <1>1, <1>5, ExportType DEF Restored
<1>6. CASE \/ \E a \in App : OldIdle(a) \/ OldBusy(a)
           \/ ListFails \/ ListAnswers \/ FetchFails \/ Fetched \/ FetchedTooLate
           \/ DepPresent \/ DepMissing \/ DepListFails \/ DepsTooLate
           \/ DepFetchFails \/ DepFetchedTooLate \/ DepFetched
           \/ InstalledNothing \/ OldUnknown \/ PostInstall \/ Restore
  BY <1>1, <1>6, Zenon DEF OldIdle, OldBusy, ListFails, ListAnswers, FetchFails,
     Fetched, FetchedTooLate, DepPresent, DepMissing, DepListFails, DepsTooLate, DepFetchFails,
     DepFetchedTooLate, DepFetched, InstalledNothing, OldUnknown, PostInstall, Restore,
     AfterFailure
<1> QED
  BY <1>2, <1>3, <1>4, <1>5, <1>6 DEF JobAction

\* ... the faults met do, ...
LEMMA JobMet ==
    ASSUME Values, JobAction
    PROVE  /\ met \subseteq met'
           /\ met' \subseteq AllFaults \cup AllRequests \cup {"early", "bare", "unrestored"}
<1>1. ASSUME NEW fs, Meet(fs)
      PROVE  met \subseteq met' /\ met' \subseteq AllFaults \cup AllRequests \cup {"early", "bare", "unrestored"}
  BY <1>1, ManagerAssumption DEF Meet, Values
<1>2. ASSUME met' = met
      PROVE  met \subseteq met' /\ met' \subseteq AllFaults \cup AllRequests \cup {"early", "bare", "unrestored"}
  BY <1>2 DEF Values
<1>3. (\E fs : Meet(fs)) \/ met' = met \/ met' = met \cup {"net", "unrestored"}
  BY Zenon DEF JobAction, OldIdle, OldBusy, Replace, ListFails, ListAnswers, FetchFails,
     Fetched, FetchedTooLate, DepPresent, DepMissing, DepListFails, DepsTooLate, DepFetchFails,
     DepFetchedTooLate, DepFetched, InstalledNothing, InstalledFirst, OldUnknown, PostInstall,
     UninstallRef, Restore, Restored, Calm
<1> QED
  BY <1>1, <1>2, <1>3 DEF Values, AllFaults

\* ... and the applications that lack dependencies do.
LEMMA JobLame == ASSUME Values, JobAction PROVE lame' \subseteq App
<1>1. lame \subseteq App /\ job.task.new \in App
  BY DEF Values, Job, Task
<1>2. lame' \subseteq lame \cup {job.task.new}
  BY DEF JobAction, OldIdle, OldBusy, Replace, ListFails, ListAnswers, FetchFails,
     Fetched, FetchedTooLate, DepPresent, DepMissing, DepListFails, DepsTooLate, DepFetchFails,
     DepFetchedTooLate, DepFetched, InstalledNothing, InstalledFirst, OldUnknown, PostInstall,
     UninstallRef, Restore, Restored, AfterFailure, Supplied
<1> QED
  BY <1>1, <1>2

\* What no step of a job changes.
LEMMA JobStill == ASSUME Values, SJob PROVE Still
  BY DEF SJob, SMove, SListFails, SNothing, SFirst, SIdle, SUnknown, SPost, SRestored, Moved,
     Rest, SDeps, SLists, SGiveUp, SUndo, SFetched, STooLate, SRestore, SBusy, SReplace, Still,
     PulledBack

\* Every step is one of those above, and the variables keep their types.
LEMMA StepFacts ==
    ASSUME Values, Shape, Next
    PROVE  /\ SAny /\ Values' /\ met \subseteq met'
           /\ ~ragged' => ~ragged /\ ~Mixed'
<1>1. ~ragged' => ~ragged /\ ~Mixed'
  BY DEF Next
<1>2. CASE JobAction
  <2>1. SJob /\ job' \in Job
    BY <1>2, JobFacts DEF Shape
  <2>2. Still
    BY <2>1, JobStill
  <2>3. layers' \in [Layer -> Mark]
    BY <1>2, JobLayers DEF Shape, JobShape
  <2>4. exported' \subseteq App /\ lame' \subseteq App
    BY <1>2, JobExported, JobLame
  <2>5. Values'
    BY <1>2, <2>1, <2>2, <2>3, <2>4, JobMet DEF Values, Still
  <2> QED
    BY <1>1, <1>2, <2>1, <2>5, JobMet DEF SAny
<1>3. CASE \/ \E a \in App : Install(a)
           \/ \E a \in App, m \in Module : InstallModule(a, m) \/ Uninstall(a, m)
           \/ \E a, b \in App : Update(a, b)
  BY <1>1, <1>3, RequestFacts DEF SAny
<1>4. CASE \E a \in App : Run(a) \/ Exit(a)
  BY <1>1, <1>4, RunFacts, OtherValues DEF SAny
<1>5. CASE DeferredUninstall
  BY <1>1, <1>5, DeferredFacts, OtherValues DEF SAny
<1>6. CASE Prune
  BY <1>1, <1>6, PruneFacts, OtherValues DEF SAny
<1>7. CASE Return
  BY <1>1, <1>7, ReturnFacts, OtherValues DEF SAny, SReturn
<1>8. CASE Begin
  <2>1. queue # <<>> /\ Head(queue) = queue[1] /\ 1 \in DOMAIN queue
    BY <1>8 DEF Begin, Values
  <2>2. /\ Head(queue).kind = "module" => \E m \in Module : Head(queue).mods = {m}
        /\ Head(queue).kind \in {"module", "uninstall"} => Head(queue).old = {}
    BY <2>1 DEF Shape, QueueShape, GoodTask
  <2>3. PICK t \in Task : SBegin(t)
    BY <1>8, <2>2, BeginFacts
  <2>4. job' \in Job /\ queue' \in Seq(Task)
    BY <1>8, <2>2, BeginFacts
  <2>5. Values'
    BY <1>8, <2>4 DEF Values, Begin
  <2> QED
    BY <1>1, <2>3, <2>5 DEF SAny, SBegin
<1> QED
  BY <1>2, <1>3, <1>4, <1>5, <1>6, <1>7, <1>8 DEF Next, Step, JobAction

\* The elements of a queue that has grown.
LEMMA AppendFacts ==
    ASSUME NEW s \in Seq(Task), NEW t \in Task
    PROVE  \A i \in DOMAIN Append(s, t) :
              \/ i \in DOMAIN s /\ Append(s, t)[i] = s[i]
              \/ i = Len(s) + 1 /\ i \notin DOMAIN s /\ Append(s, t)[i] = t
  OBVIOUS

\* The elements of a queue that has lost its front.
LEMMA TailFacts ==
    ASSUME NEW s \in Seq(Task), s # <<>>
    PROVE  /\ 1 \in DOMAIN s /\ Head(s) = s[1]
           /\ \A i \in DOMAIN Tail(s) : i + 1 \in DOMAIN s /\ Tail(s)[i] = s[i + 1] /\ i + 1 # 1
  OBVIOUS

\* What the types say of the queue, ...
LEMMA QueueTyped ==
    ASSUME Values
    PROVE  \A i \in DOMAIN queue : /\ queue[i] \in Task /\ queue[i].new \in App
                                   /\ queue[i].old \subseteq App
<1>1. \A i \in DOMAIN queue : queue[i] \in Task
  BY DEF Values
<1> QED
  BY <1>1 DEF Task

\* ... and of the job.
LEMMA JobTyped ==
    ASSUME Values
    PROVE  /\ job \in Job /\ job.task.new \in App /\ job.task.old \subseteq App
           /\ job.task.mods \subseteq Module /\ job.todo \subseteq Module
           /\ job.oldMods \subseteq Module /\ job.pulled \subseteq Module
           /\ job.revived \subseteq Module /\ job.lost \subseteq Module /\ job.of \in App
  BY DEF Values, Job, Task

\* A new task has the shape of its kind.
LEMMA AskedShape ==
    ASSUME Values, NEW t \in Task, SAdd(t)
    PROVE  /\ GoodTask(t)
           /\ t.kind \in {"module", "uninstall"} => \E m \in Module : t.mods = {m}
           /\ t.kind = "install" => t.mods = {"binary"}
<1>0. t.new \in App
  BY DEF Task
<1>1. CASE t.kind = "install"
  <2>1. ~ Listed(t.new) /\ t.old = Latest(Id[t.new]) /\ t.mods = {"binary"}
    BY <1>1 DEF SAdd
  <2>2. \A c \in t.old : Id[c] = Id[t.new] /\ c # t.new
    BY <1>0, <2>1, LatestFacts
  <2>3. \A c, d \in t.old : c = d
    BY <1>0, <2>1, LatestFacts
  <2> QED
    BY <1>1, <2>1, <2>2, <2>3 DEF GoodTask
<1>2. CASE t.kind = "update"
  <2>1. PICK a \in App : t.old = {a} /\ Id[a] = Id[t.new] /\ Version[t.new] > Version[a]
    BY <1>2 DEF SAdd
  <2>2. a # t.new
    BY <1>0, <2>1, ManagerAssumption
  <2> QED
    BY <1>2, <2>1, <2>2 DEF GoodTask
<1>3. CASE t.kind = "module"
  BY <1>3 DEF GoodTask, SAdd
<1>4. CASE t.kind = "uninstall"
  BY <1>4 DEF GoodTask, SAdd
<1> QED
  BY <1>1, <1>2, <1>3, <1>4 DEF SAdd

\* Tasks that wait keep their shape.
LEMMA QueueShapeStep == ASSUME Values, Shape, SAny PROVE QueueShape'
<1>1. ASSUME NEW t \in Task, SAdd(t) PROVE QueueShape'
  <2>1. queue' = Append(queue, t) /\ queue \in Seq(Task)
    BY <1>1 DEF SAdd, Values
  <2> SUFFICES ASSUME NEW i \in DOMAIN queue'
               PROVE  /\ GoodTask(queue'[i])
                      /\ queue'[i].kind \in {"module", "uninstall"} =>
                             \E m \in Module : queue'[i].mods = {m}
                      /\ queue'[i].kind = "install" => queue'[i].mods = {"binary"}
    BY DEF QueueShape, GoodTask
  <2>2. (i \in DOMAIN queue /\ queue'[i] = queue[i]) \/ queue'[i] = t
    BY <2>1, AppendFacts
  <2> QED
    BY <1>1, <2>2, AskedShape DEF Shape, QueueShape
<1>2. ASSUME NEW t \in Task, SBegin(t) PROVE QueueShape'
  <2>1. queue' = Tail(queue) /\ queue \in Seq(Task) /\ queue # <<>>
    BY <1>2 DEF SBegin, Values
  <2> SUFFICES ASSUME NEW i \in DOMAIN queue'
               PROVE  /\ GoodTask(queue'[i])
                      /\ queue'[i].kind \in {"module", "uninstall"} =>
                             \E m \in Module : queue'[i].mods = {m}
                      /\ queue'[i].kind = "install" => queue'[i].mods = {"binary"}
    BY DEF QueueShape, GoodTask
  <2>2. i + 1 \in DOMAIN queue /\ queue'[i] = queue[i + 1]
    BY <2>1, TailFacts
  <2> QED
    BY <2>2 DEF Shape, QueueShape
<1>3. CASE queue' = queue
  BY <1>3 DEF Shape, QueueShape, GoodTask
<1>4. SRun \/ SDeferred \/ SPrune \/ SReturn \/ SJob => queue' = queue
  BY JobStill DEF SRun, SDeferred, SPrune, SReturn, Still
<1> QED
  BY <1>1, <1>2, <1>3, <1>4 DEF SAny

\* The job keeps its shape.
LEMMA JobShapeStep == ASSUME Values, Shape, SAny, Values' PROVE JobShape'
<1>0. job \in Job /\ job' \in Job /\ JobShape
  BY DEF Values, Shape
<1>1. CASE job' = job
  BY <1>0, <1>1 DEF JobShape, GoodTask
<1>2. (\E t \in Task : SAdd(t)) \/ SRun \/ SDeferred \/ SPrune => job' = job
  BY DEF SAdd, SRun, SDeferred, SPrune
<1>3. CASE SReturn
  BY <1>3 DEF SReturn, JobShape, Ahead, Pulling
<1>4. ASSUME NEW t \in Task, SBegin(t) PROVE JobShape'
  <2>1. t = queue[1] /\ 1 \in DOMAIN queue
    BY <1>4, TailFacts DEF SBegin, Values
  <2>2. GoodTask(t) /\ (t.kind = "install" => t.mods = {"binary"})
    BY <2>1 DEF Shape, QueueShape
  <2>4. GoodTask(job'.task)
    BY <1>4, <2>2 DEF SBegin, GoodTask
  <2> QED
    BY <1>4, <2>4 DEF SBegin, JobShape, Ahead, Pulling, GoodTask
<1>5. CASE SMove
  <2>1. Kept /\ Rest
    BY <1>5 DEF SMove, SListFails, SNothing, SFirst, SIdle, SUnknown, SPost, SRestored, Moved
  <2>2. GoodTask(job'.task)
    BY <1>0, <1>5, <2>1 DEF SMove, SListFails, SNothing, SFirst, SIdle, SUnknown, SPost,
       SRestored, Kept, JobShape
  <2> QED
    BY <1>0, <1>5, <2>1, <2>2 DEF SMove, SListFails, SNothing, SFirst, SIdle, SUnknown, SPost,
       SRestored, Kept, Rest, JobShape, LoggedOrUndone, Ahead, Pulling, GoodTask, Job
<1>6. CASE SDeps
  <2>1. GoodTask(job'.task)
    BY <1>0, <1>6 DEF SDeps, Kept, JobShape
  <2> QED
    BY <1>0, <1>6, <2>1 DEF SDeps, Kept, JobShape, Ahead, Pulling, GoodTask
<1>7. CASE SLists
  <2>1. GoodTask(job'.task)
    BY <1>0, <1>7 DEF SLists, JobShape, GoodTask
  <2>2. job.at = "list" /\ job'.at \in {"installed", "fetch"} /\ job'.failed = job.failed
        /\ job'.task.kind = job.task.kind
    BY <1>7 DEF SLists
  <2>3. job'.task.mods = job'.todo \cup job'.revived /\ job'.todo \cap job'.revived = {}
        /\ job'.pulled = {}
    BY <1>0, <1>7 DEF SLists, JobShape
  <2>4. job'.at = "fetch" => job'.todo # {}
    BY <1>7 DEF SLists
  <2> QED
    BY <1>0, <2>1, <2>2, <2>3, <2>4 DEF JobShape, Ahead, Pulling, GoodTask
<1>8. CASE SGiveUp
  <2>1. GoodTask(job'.task)
    BY <1>0, <1>8 DEF SGiveUp, Kept, JobShape, Pulling
  <2> QED
    BY <1>0, <1>8, <2>1 DEF SGiveUp, GaveUp, Kept, JobShape, Ahead, Pulling, GoodTask
<1>9. ASSUME NEW m \in Module, STooLate(m) PROVE JobShape'
  <2>1. GoodTask(job'.task)
    BY <1>0, <1>9 DEF STooLate, Kept, JobShape
  <2> QED
    BY <1>0, <1>9, <2>1 DEF STooLate, GaveUp, Kept, JobShape, Ahead, Pulling, GoodTask
<1>10. ASSUME NEW m \in Module, SFetched(m) PROVE JobShape'
  <2>1. GoodTask(job'.task)
    BY <1>0, <1>10 DEF SFetched, JobShape
  <2>2. /\ job'.task.mods = job'.todo \cup job'.pulled \cup job'.revived
        /\ job'.todo \cap (job'.pulled \cup job'.revived) = {}
    BY <1>0, <1>10 DEF SFetched, JobShape, Pulling
  <2>3. job'.at = "deplist" => "binary" \in job'.pulled
    BY <1>10 DEF SFetched
  <2>4. /\ job'.task = job.task /\ job'.failed = job.failed /\ job.at = "fetch"
        /\ \/ job'.at = "deplist" /\ job'.deps # <<>>
           \/ job'.at = "installed" /\ job'.todo = {} /\ job'.deps = <<>>
           \/ job'.at = "fetch" /\ job'.todo # {} /\ job'.deps = <<>>
    BY <1>10 DEF SFetched
  <2> QED
    BY <1>0, <2>1, <2>2, <2>3, <2>4 DEF JobShape, Ahead, Pulling, GoodTask
<1>11. ASSUME NEW a \in App, SBusy(a) PROVE JobShape'
  <2>1. GoodTask(job'.task)
    BY <1>0, <1>11 DEF SBusy, Kept, JobShape
  <2> QED
    BY <1>0, <1>11, <2>1 DEF SBusy, LoggedOrUndone, Kept, JobShape, Ahead, Pulling, GoodTask
<1>12. ASSUME NEW a \in App, SReplace(a) PROVE JobShape'
  <2>1. Kept
    BY <1>12 DEF SReplace, PulledBack
  <2>2. GoodTask(job'.task)
    BY <1>0, <1>12, <2>1 DEF SReplace, Kept, JobShape
  <2>3. job.task.kind # "update" => job.task.kind = "install"
    BY <1>0, <1>12 DEF SReplace, JobShape, GoodTask, Ahead, Job, Task
  <2> QED
    BY <1>0, <1>12, <2>1, <2>2, <2>3 DEF SReplace, PulledBack, Kept, JobShape, Ahead, Pulling, GoodTask
<1>13. CASE SUndo
  <2>1. Kept
    BY <1>13 DEF SUndo, PulledBack
  <2>2. GoodTask(job'.task)
    BY <1>0, <1>13, <2>1 DEF SUndo, Kept, JobShape
  <2>3. \/ job'.at = "done"
        \/ job'.at = "restore" /\ job'.of = job.task.new /\ job'.then = "done" /\ job'.failed = TRUE
    BY <1>13 DEF SUndo, PulledBack
  <2>4. job.at = "undo"
    BY <1>13 DEF SUndo
  <2> QED
    BY <1>0, <2>1, <2>2, <2>3, <2>4 DEF Kept, JobShape, Ahead, Pulling, GoodTask
<1>14. ASSUME NEW m \in Module, SRestore(m) PROVE JobShape'
  <2>1. GoodTask(job'.task)
    BY <1>0, <1>14 DEF SRestore, Kept, JobShape
  <2> QED
    BY <1>0, <1>14, <2>1 DEF SRestore, Kept, JobShape, Ahead, Pulling, GoodTask
<1> QED
  BY <1>1, <1>2, <1>3, <1>4, <1>5, <1>6, <1>7, <1>8, <1>9, <1>10, <1>11, <1>12, <1>13, <1>14
     DEF SAny, SJob

\* Types and shapes, from one step to the next.
LEMMA ShapeStep == ASSUME Values, Shape, Next PROVE Shape' /\ Values'
  BY StepFacts, QueueShapeStep, JobShapeStep DEF Shape

-----------------------------------------------------------------------------
(* A failed installation leaves nothing.                                   *)

\* Of the modules of the new reference there are only those of before, or those of the
\* task too; and the ones of the task are all there.
Clean == \A m \in Module : layers[<<job.task.new, m>>] # "none" => m \in job.before
Within == \A m \in Module : layers[<<job.task.new, m>>] # "none" =>
                               m \in job.before \/ m \in job.task.mods
InPlace == \A m \in job.task.mods : layers[<<job.task.new, m>>] = "live"

\* Which modules of the new version are there, at each step of an installation that was not
\* cancelled.
FailInv ==
    "cancel" \notin met /\ job.task.kind = "install" =>
        /\ job.at = "list" => Clean
        /\ job.at \in Pulling =>
              /\ \A m \in Module : layers[<<job.task.new, m>>] # "none" =>
                                      m \in job.before \/ m \in job.pulled
              /\ \A m \in Module : m \in job.pulled \/ m \in job.revived =>
                                      layers[<<job.task.new, m>>] = "live"
        /\ job.at \in {"installed", "replace", "post"} => Within /\ InPlace
        /\ job.at = "undo" => Clean \/ (Within /\ InPlace)
        /\ job.at = "restore" /\ job.of = job.task.new => Clean /\ job.lost \subseteq job.before
        /\ job.at = "restore" /\ job.of # job.task.new => Within /\ InPlace
        /\ job.at = "done" /\ job.failed = TRUE => Clean

\* FailInv holds at the start.
LEMMA InitFail == Init => FailInv
  BY DEF Init, FailInv, NoJob, Pulling

\* FailInv is preserved: each rollback takes back exactly what its own step has brought.
LEMMA FailStep ==
    ASSUME Values, Shape, FailInv, SAny, met \subseteq met', Values', Shape' PROVE FailInv'
<1> SUFFICES ASSUME "cancel" \notin met', job'.task.kind = "install"
             PROVE  FailInv'
  BY DEF FailInv
<1>0. job \in Job /\ job' \in Job /\ "cancel" \notin met
      /\ job.task.new \in App /\ job.task.mods \subseteq Module
      /\ job'.task.new \in App /\ job'.task.mods \subseteq Module
  BY DEF Values, Job, Task
<1> USE DEF Clean, Within, InPlace
<1>1. CASE job' = job /\ AppSame
  BY <1>0, <1>1 DEF FailInv, AppSame
<1>2. (\E t \in Task : SAdd(t)) \/ SRun \/ SPrune => job' = job /\ AppSame
  BY DEF SAdd, SRun, SPrune, AppSame
<1>3. CASE SDeferred
  BY <1>0, <1>3 DEF SDeferred, FailInv
<1>4. CASE SReturn
  BY <1>4 DEF SReturn, FailInv, Pulling
<1>5. ASSUME NEW t \in Task, SBegin(t) PROVE FailInv'
  <2>1. t.new \in App /\ \A m \in Module : layers[<<t.new, m>>] # "none" => m \in Modules(t.new)
    BY DEF Task, Modules, IsInstalled
  <2> QED
    BY <1>5, <2>1 DEF SBegin, FailInv, Pulling
<1>6. CASE SMove
  <2>1. Kept /\ Rest /\ layers' = layers
    BY <1>6 DEF SMove, SListFails, SNothing, SFirst, SIdle, SUnknown, SPost, SRestored, Moved
  <2>2. job.task.kind = "install" /\ Shape
    BY <2>1 DEF Kept
  <2>3. job.at = "restore" /\ job.of = job.task.new => job.then = "done"
    BY <1>6 DEF Shape, JobShape, GoodTask
  <2>4. job.at = "restore" /\ job.of # job.task.new => job.then = "undo"
    BY <2>2 DEF Shape, JobShape
  <2> QED
    BY <1>0, <1>6, <2>1, <2>2, <2>3, <2>4 DEF SMove, SListFails, SNothing, SFirst, SIdle,
       SUnknown, SPost, SRestored, LoggedOrUndone, FailInv, Kept, Rest, Pulling, Shape, JobShape, Ahead
<1>7. CASE SDeps
  BY <1>0, <1>7 DEF SDeps, Kept, AppSame, FailInv, Pulling, Shape, JobShape
<1>8. CASE SLists
  BY <1>0, <1>8 DEF SLists, Marks, FailInv, Pulling, Shape, JobShape
<1>9. CASE SGiveUp
  BY <1>0, <1>9 DEF SGiveUp, GaveUp, Kept, AppSame, Rolls, FailInv, Pulling, Shape, JobShape
<1>10. ASSUME NEW m \in Module, STooLate(m) PROVE FALSE
  BY <1>0, <1>10 DEF STooLate
<1>11. ASSUME NEW m \in Module, SFetched(m) PROVE FailInv'
  BY <1>0, <1>11 DEF SFetched, Marks, FailInv, Pulling, Shape, JobShape
<1>12. ASSUME NEW a \in App, SBusy(a) PROVE FailInv'
  <2>1. a # job.task.new
    BY <1>12 DEF SBusy, Shape, JobShape, GoodTask
  <2> QED
    BY <1>0, <1>12, <2>1 DEF SBusy, Marks, Kept, LoggedOrUndone, FailInv, Pulling
<1>13. ASSUME NEW a \in App, SReplace(a) PROVE FailInv'
  <2>1. a # job.task.new
    BY <1>13 DEF SReplace, Shape, JobShape, GoodTask
  <2> QED
    BY <1>0, <1>13, <2>1 DEF SReplace, PulledBack, Marks, Kept, FailInv, Pulling
<1>14. CASE SUndo
  <2>1. ~ Whole(job.task) /\ job.task.kind = "install"
    BY <1>14 DEF SUndo, PulledBack, Kept, Whole
  <2> DEFINE gone == {m \in job.task.mods : layers[<<job.task.new, m>>] = "none"}
  <2>2. Kept
    BY <1>14 DEF SUndo, PulledBack
  <2>3. Clean \/ (Within /\ InPlace)
    BY <1>0, <1>14, <2>1 DEF SUndo, FailInv
  <2>4. CASE gone = {}
    <3>1. Marks(job.task.new, job.task.mods, "none") /\ job'.at = "done"
      BY <1>14, <2>1, <2>4 DEF SUndo
    <3> QED
      BY <1>0, <2>2, <2>3, <3>1 DEF Marks, Kept, FailInv, Pulling
  <2>5. CASE gone # {}
    <3>1. PICK some \in SUBSET Module :
             /\ Some(some, job.task.mods, gone) /\ Marks(job.task.new, some, "none")
             /\ PulledBack(job.task.new, some, TRUE, "done")
      BY <1>14, <2>1, <2>5 DEF SUndo
    <3>2. Clean
      BY <2>3, <2>5
    <3>3. some \subseteq job.before
      BY <1>0, <3>1, <3>2 DEF Some
    <3>4. job'.at = "restore" /\ job'.of = job.task.new /\ job'.lost = some
      BY <3>1 DEF PulledBack
    <3> HIDE DEF gone
    <3> QED
      BY <1>0, <2>2, <3>1, <3>2, <3>3, <3>4 DEF Marks, Kept, FailInv, Pulling
  <2> QED
    BY <2>4, <2>5
<1>15. ASSUME NEW m \in Module, SRestore(m) PROVE FailInv'
  BY <1>0, <1>15 DEF SRestore, Marks, AppSame, Kept, FailInv, Pulling
<1> QED
  BY <1>1, <1>2, <1>3, <1>4, <1>5, <1>6, <1>7, <1>8, <1>9, <1>10, <1>11, <1>12, <1>13, <1>14,
     <1>15 DEF SAny, SJob

-----------------------------------------------------------------------------
(* Nothing is added twice.                                                 *)

\* A job touches only the versions of its application.
LEMMA OthersUntouched ==
    ASSUME Values, Shape, SJob
    PROVE  /\ \A a \in App, m \in Module : Id[a] # Id[job.task.new] =>
                 layers'[<<a, m>>] = layers[<<a, m>>]
           /\ job'.task.new = job.task.new /\ job'.task.old = job.task.old
           /\ job'.task.kind = job.task.kind
           /\ job.at # "idle" /\ job'.at # "idle"
<1>1. CASE SMove
  BY <1>1 DEF SMove, SListFails, SNothing, SFirst, SIdle, SUnknown, SPost, SRestored, Moved, Kept,
     LoggedOrUndone, Values, Job
<1>2. CASE SDeps
  BY <1>2 DEF SDeps, AppSame, Kept
<1>3. CASE SLists
  BY <1>3 DEF SLists, Marks
<1>4. CASE SGiveUp
  BY <1>4 DEF SGiveUp, AppSame, Rolls, Kept, GaveUp, Pulling
<1>5. CASE SUndo
  <2>1. Kept /\ job.at # "idle" /\ job'.at # "idle"
    BY <1>5 DEF SUndo, PulledBack
  <2>2. \E mods : Marks(job.task.new, mods, "none")
    BY <1>5 DEF SUndo
  <2> QED
    BY <2>1, <2>2 DEF Marks, Kept
<1>6. ASSUME NEW m \in Module, SFetched(m) \/ STooLate(m)
      PROVE  /\ \A a \in App, n \in Module : Id[a] # Id[job.task.new] =>
                   layers'[<<a, n>>] = layers[<<a, n>>]
             /\ job'.task.new = job.task.new /\ job'.task.old = job.task.old
             /\ job'.task.kind = job.task.kind
             /\ job.at # "idle" /\ job'.at # "idle"
  BY <1>6 DEF SFetched, STooLate, Marks, Kept, GaveUp
<1>7. ASSUME NEW m \in Module, SRestore(m)
      PROVE  /\ \A a \in App, n \in Module : Id[a] # Id[job.task.new] =>
                   layers'[<<a, n>>] = layers[<<a, n>>]
             /\ job'.task.new = job.task.new /\ job'.task.old = job.task.old
             /\ job'.task.kind = job.task.kind
             /\ job.at # "idle" /\ job'.at # "idle"
  <2>1. Id[job.of] = Id[job.task.new]
    BY <1>7 DEF SRestore, Shape, JobShape, GoodTask
  <2> QED
    BY <1>7, <2>1 DEF SRestore, AppSame, Marks, Kept
<1>8. ASSUME NEW a \in App, SBusy(a) \/ SReplace(a)
      PROVE  /\ \A b \in App, m \in Module : Id[b] # Id[job.task.new] =>
                   layers'[<<b, m>>] = layers[<<b, m>>]
             /\ job'.task.new = job.task.new /\ job'.task.old = job.task.old
             /\ job'.task.kind = job.task.kind
             /\ job.at # "idle" /\ job'.at # "idle"
  <2>1. Id[a] = Id[job.task.new]
    BY <1>8 DEF SBusy, SReplace, Shape, JobShape, GoodTask
  <2>2. Kept /\ job.at # "idle" /\ job'.at # "idle"
    BY <1>8 DEF SBusy, SReplace, PulledBack, LoggedOrUndone
  <2>3. \E mods, mark : Marks(a, mods, mark)
    BY <1>8 DEF SBusy, SReplace
  <2> QED
    BY <2>1, <2>2, <2>3 DEF Marks, Kept
<1> QED
  BY <1>1, <1>2, <1>3, <1>4, <1>5, <1>6, <1>7, <1>8 DEF SJob

\* No two tasks are for the same application.
Apart == /\ \A i, j \in DOMAIN queue : i # j => Id[queue[i].new] # Id[queue[j].new]
         /\ job.at # "idle" => \A i \in DOMAIN queue : Id[queue[i].new] # Id[job.task.new]

\* Tasks that bring a version in place of another.
Replacing(t) == t.kind \in {"install", "update"}

\* What a task brings is not there yet.
NotYet ==
    /\ \A i \in DOMAIN queue : Replacing(queue[i]) =>
          \A m \in Module : layers[<<queue[i].new, m>>] # "live"
    /\ job.at = "list" /\ Replacing(job.task) =>
          \A m \in Module : layers[<<job.task.new, m>>] # "live"
    /\ job.at = "list" /\ job.task.kind = "module" =>
          \A m \in job.task.mods : layers[<<job.task.new, m>>] = "none"
    /\ job.at \in Pulling => \A m \in job.todo : layers[<<job.task.new, m>>] = "none"

\* Clients that wait for their tasks: these never meet what they bring.
TwiceInv == "twice" \notin met => Apart /\ NotYet

\* TwiceInv holds at the start.
LEMMA InitTwice == Init => TwiceInv
  BY DEF Init, TwiceInv, Apart, NotYet, NoJob, Pulling

\* Clients that wait for their tasks keep tasks apart.
LEMMA ApartStep ==
    ASSUME Values, Shape, TwiceInv, SAny, "twice" \notin met', "twice" \notin met
    PROVE  Apart'
<1>0. Apart
  BY DEF TwiceInv
<1>1. ASSUME NEW t \in Task, SAdd(t) PROVE Apart'
  <2>1. queue' = Append(queue, t) /\ queue \in Seq(Task) /\ job' = job /\ Patient(Id[t.new])
    BY <1>1 DEF SAdd, Values
  <2>2. \A i \in DOMAIN queue : Id[queue[i].new] # Id[t.new]
    BY <2>1 DEF Patient, ToSet
  <2>3. job.at # "idle" => Id[job.task.new] # Id[t.new]
    BY <2>1 DEF Patient
  <2>4. \A i \in DOMAIN queue' : \/ i \in DOMAIN queue /\ queue'[i] = queue[i]
                                 \/ i = Len(queue) + 1 /\ queue'[i] = t
    BY <2>1, AppendFacts
  <2>5. \A i, j \in DOMAIN queue' : i # j => Id[queue'[i].new] # Id[queue'[j].new]
    BY <1>0, <2>2, <2>4 DEF Apart
  <2>6. job'.at # "idle" => \A i \in DOMAIN queue' : Id[queue'[i].new] # Id[job'.task.new]
    BY <1>0, <2>1, <2>3, <2>4 DEF Apart
  <2> QED
    BY <2>5, <2>6 DEF Apart
<1>2. ASSUME NEW t \in Task, SBegin(t) PROVE Apart'
  <2>1. /\ queue' = Tail(queue) /\ queue \in Seq(Task) /\ queue # <<>> /\ t = Head(queue)
        /\ job'.task.new = t.new
    BY <1>2 DEF SBegin, Values
  <2>2. /\ t = queue[1] /\ 1 \in DOMAIN queue
        /\ \A i \in DOMAIN queue' : i + 1 \in DOMAIN queue /\ queue'[i] = queue[i + 1] /\ i + 1 # 1
    BY <2>1, TailFacts
  <2>3. \A i, j \in DOMAIN queue' : i # j => i + 1 # j + 1
    BY <2>1
  <2> QED
    BY <1>0, <2>1, <2>2, <2>3 DEF Apart
<1>3. CASE SRun \/ SDeferred \/ SPrune
  BY <1>0, <1>3 DEF SRun, SDeferred, SPrune, Apart
<1>4. CASE SReturn
  BY <1>0, <1>4 DEF SReturn, Apart
<1>5. CASE SJob
  <2>1. queue' = queue
    BY <1>5, JobStill DEF Still
  <2> QED
    BY <1>0, <1>5, <2>1, OthersUntouched DEF Apart
<1> QED
  BY <1>1, <1>2, <1>3, <1>4, <1>5 DEF SAny

\* The layers of the references in the queue stay, but for hidden ones that go.
LEMMA QueuedUntouched ==
    ASSUME Values, Shape, Apart, SAny
    PROVE  \A i \in DOMAIN queue, a \in App, m \in Module :
              Id[a] = Id[queue[i].new] =>
                 \/ layers'[<<a, m>>] = layers[<<a, m>>]
                 \/ layers[<<a, m>>] = "deleted" /\ layers'[<<a, m>>] = "none"
<1>1. CASE AppSame
  BY <1>1 DEF AppSame
<1>2. (\E t \in Task : SAdd(t) \/ SBegin(t)) \/ SRun \/ SPrune \/ SReturn => AppSame
  BY DEF SAdd, SBegin, SRun, SPrune, SReturn, AppSame
<1>3. CASE SDeferred
  BY <1>3 DEF SDeferred
<1>4. CASE SJob
  BY <1>4, OthersUntouched DEF Apart
<1> QED
  BY <1>1, <1>2, <1>3, <1>4 DEF SAny

\* A task to replace something is asked for when the new version is not listed.
LEMMA AskedNotYet ==
    ASSUME NEW t \in Task, SAdd(t), Replacing(t)
    PROVE  \A m \in Module : layers[<<t.new, m>>] # "live"
<1>1. t.new \in App
  BY DEF Task
<1>2. CASE t.kind = "install"
  BY <1>2 DEF SAdd, Listed
<1>3. CASE t.kind = "update"
  <2>1. PICK a \in App : Id[a] = Id[t.new] /\ a \in Latest(Id[a]) /\ Version[t.new] > Version[a]
    BY <1>3 DEF SAdd
  <2>2. Listed(t.new) => Version[t.new] <= Version[a]
    BY <1>1, <2>1, LatestFacts
  <2>3. ~ Listed(t.new)
    BY <1>1, <2>1, <2>2, ManagerAssumption
  <2> QED
    BY <2>3 DEF Listed
<1> QED
  BY <1>2, <1>3 DEF Replacing

\* What a task is to bring is not there before.
LEMMA NotYetStep ==
    ASSUME Values, Shape, TwiceInv, SAny, "twice" \notin met', "twice" \notin met, Values', Shape'
    PROVE  NotYet'
<1>0. /\ Apart /\ NotYet /\ job \in Job /\ job.task.new \in App
      /\ job.task.mods \subseteq Module /\ job.todo \subseteq Module
      /\ \A i \in DOMAIN queue : queue[i].new \in App
  BY QueueTyped, JobTyped DEF TwiceInv
<1>1. \A i \in DOMAIN queue : Replacing(queue[i]) =>
          \A m \in Module : layers'[<<queue[i].new, m>>] # "live"
  BY <1>0, QueuedUntouched DEF NotYet
<1>2. ASSUME NEW t \in Task, SAdd(t) PROVE NotYet'
  <2>1. queue' = Append(queue, t) /\ queue \in Seq(Task) /\ job' = job /\ layers' = layers
    BY <1>2 DEF SAdd, Values
  <2>2. \A i \in DOMAIN queue' : (i \in DOMAIN queue /\ queue'[i] = queue[i]) \/ queue'[i] = t
    BY <2>1, AppendFacts
  <2> QED
    BY <1>0, <1>1, <1>2, <2>1, <2>2, AskedNotYet DEF NotYet
<1>3. ASSUME NEW t \in Task, SBegin(t) PROVE NotYet'
  <2>1. /\ queue' = Tail(queue) /\ queue \in Seq(Task) /\ queue # <<>> /\ t = Head(queue)
        /\ job'.task.new = t.new /\ job'.task.kind = t.kind /\ layers' = layers
    BY <1>3 DEF SBegin, Values
  <2>2. /\ t = queue[1] /\ 1 \in DOMAIN queue
        /\ \A i \in DOMAIN queue' : i + 1 \in DOMAIN queue /\ queue'[i] = queue[i + 1]
    BY <2>1, TailFacts
  <2>3. \A i \in DOMAIN queue' : Replacing(queue'[i]) =>
          \A m \in Module : layers'[<<queue'[i].new, m>>] # "live"
    BY <1>1, <2>2
  <2>4. job'.at = "list" /\ t.kind = "module" => t.mods \cap Modules(t.new) = {}
        /\ job'.task.mods = t.mods
    BY <1>3 DEF SBegin
  <2>5. job'.at = "list" /\ t.kind = "module" =>
          \A m \in job'.task.mods : layers'[<<t.new, m>>] = "none"
    BY <2>1, <2>4 DEF Modules, IsInstalled, Task
  <2>6. job'.at \notin Pulling
    BY <1>3 DEF SBegin, Pulling
  <2>7. Replacing(t) => \A m \in Module : layers[<<t.new, m>>] # "live"
    BY <1>0, <2>2 DEF NotYet
  <2> QED
    BY <2>1, <2>3, <2>5, <2>6, <2>7 DEF NotYet, Replacing
<1>4. CASE SRun \/ SPrune \/ SReturn
  BY <1>0, <1>4 DEF SRun, SPrune, SReturn, AppSame, NotYet, Pulling, Values, Job, Task
<1>5. CASE SDeferred
  BY <1>0, <1>5 DEF SDeferred, NotYet
<1>6. CASE SJob
  <2>1. queue' = queue
    BY <1>6, JobStill DEF Still
  <2>2. job'.at # "list"
    BY <1>6 DEF SJob, SMove, SListFails, SNothing, SFirst, SIdle, SUnknown, SPost, SRestored,
       LoggedOrUndone, SDeps, SLists, SGiveUp, GaveUp, SUndo, SFetched, STooLate, SRestore, SBusy,
       SReplace, PulledBack, Values, Job
  <2>3. ASSUME job'.at \in Pulling
        PROVE  \A m \in job'.todo : layers'[<<job'.task.new, m>>] = "none"
    <3>1. CASE SDeps
      BY <1>0, <3>1 DEF SDeps, AppSame, Kept, NotYet, Pulling
    <3>2. CASE SLists
      <4>1. \A m \in job'.todo : m \in job.task.mods /\ layers[<<job.task.new, m>>] # "deleted"
        BY <1>0, <3>2 DEF SLists
      <4>2. job.task.kind \in {"install", "update", "module"} /\ job.at = "list"
        BY <3>2 DEF SLists, Shape, JobShape, Ahead, Values, Job, Task
      <4>3. \A m \in job'.todo : layers[<<job.task.new, m>>] = "none"
        BY <1>0, <4>1, <4>2 DEF NotYet, Replacing, Values, Mark, Layer
      <4> QED
        BY <1>0, <3>2, <4>3 DEF SLists, Marks
    <3>3. ASSUME NEW m \in Module, SFetched(m)
          PROVE  \A n \in job'.todo : layers'[<<job'.task.new, n>>] = "none"
      BY <1>0, <3>3 DEF SFetched, Marks, NotYet, Pulling
    <3>4. \/ SDeps \/ SLists \/ \E m \in Module : SFetched(m)
      BY <1>6, <2>3 DEF SJob, SMove, SListFails, SNothing, SFirst, SIdle, SUnknown, SPost, SRestored,
       LoggedOrUndone, SGiveUp, GaveUp, SUndo, STooLate, SRestore, SBusy,
       SReplace, PulledBack, Values, Job, Pulling
    <3> QED
      BY <3>1, <3>2, <3>3, <3>4
  <2> QED
    BY <1>1, <2>1, <2>2, <2>3 DEF NotYet
<1> QED
  BY <1>2, <1>3, <1>4, <1>5, <1>6 DEF SAny

\* TwiceInv is preserved.
LEMMA TwiceStep ==
    ASSUME Values, Shape, TwiceInv, SAny, met \subseteq met', Values', Shape'
    PROVE  TwiceInv'
  BY ApartStep, NotYetStep DEF TwiceInv

\* The flag that an item was added twice is raised only when it was.
LEMMA FlagStep ==
    ASSUME Values, Shape, TwiceInv, NeverAddedTwice, Next, met \subseteq met'
    PROVE  NeverAddedTwice'
<1> SUFFICES ASSUME "twice" \notin met', "twice" \notin met, ~twice
             PROVE  ~twice'
  BY DEF NeverAddedTwice, Spared
<1>1. CASE FetchFails
  <2>1. PICK m \in job.todo : At("fetch") /\ twice' = (twice \/ IsInstalled(job.task.new, m))
    BY <1>1 DEF FetchFails
  <2>2. ~ IsInstalled(job.task.new, m)
    BY <2>1 DEF TwiceInv, NotYet, At, Pulling, IsInstalled
  <2> QED
    BY <2>1, <2>2
<1>2. CASE ~FetchFails
  BY <1>2, Zenon DEF Next, Step, Install, Run, Exit, OldIdle, OldBusy, Replace, InstallModule,
     Uninstall, Update, DeferredUninstall, Prune, Begin, Return, ListFails, ListAnswers,
     Fetched, FetchedTooLate, DepPresent, DepMissing, DepListFails, DepsTooLate,
     DepFetchFails, DepFetchedTooLate, DepFetched, InstalledNothing, InstalledFirst,
     OldUnknown, PostInstall, UninstallRef, Restore, Restored, Add, AfterFailure
<1> QED
  BY <1>1, <1>2

-----------------------------------------------------------------------------
(* What is in place while a job is at work.                                *)

\* Nothing went wrong.
Smooth == met \cap {"net", "cancel", "hook"} = {} /\ "twice" \notin met

\* What a job has brought is there.
LiveInv ==
    /\ job.at \in Pulling =>
          /\ job.task.mods # {}
          /\ \A m \in Module : m \in job.pulled \/ m \in job.revived =>
                layers[<<job.task.new, m>>] = "live"
    /\ job.at \in {"installed", "replace", "post"} => job.task.mods # {} /\ InPlace
    /\ job.at \in {"undo", "restore"} /\ job.task.kind # "uninstall" /\ Smooth =>
          InPlace /\ (job.at = "restore" => job.of # job.task.new)

\* LiveInv holds at the start.
LEMMA InitLive == Init => LiveInv
  BY DEF Init, LiveInv, NoJob, Pulling

\* LiveInv is preserved.
LEMMA LiveStep ==
    ASSUME Values, Shape, TwiceInv, LiveInv, SAny, met \subseteq met', Values', Shape'
    PROVE  LiveInv'
<1>0. Smooth' => Smooth
  BY DEF Smooth
<1>01. /\ job \in Job /\ job.task.new \in App /\ job.task.mods \subseteq Module
       /\ job.pulled \subseteq Module /\ job.revived \subseteq Module
  BY JobTyped
<1>02. job' \in Job /\ job'.task.mods \subseteq Module
  BY DEF Values, Job, Task
<1>1. CASE job' = job /\ AppSame
  BY <1>0, <1>01, <1>1 DEF LiveInv, AppSame, InPlace
<1>2. (\E t \in Task : SAdd(t)) \/ SRun \/ SPrune => job' = job /\ AppSame
  BY DEF SAdd, SRun, SPrune, AppSame
<1>3. CASE SDeferred
  BY <1>0, <1>01, <1>3 DEF SDeferred, LiveInv, InPlace
<1>4. CASE SReturn
  BY <1>4 DEF SReturn, LiveInv, Pulling
<1>5. ASSUME NEW t \in Task, SBegin(t) PROVE LiveInv'
  BY <1>5 DEF SBegin, LiveInv, Pulling
<1>6. CASE SMove
  <2>1. Kept /\ Rest /\ layers' = layers
    BY <1>6 DEF SMove, SListFails, SNothing, SFirst, SIdle, SUnknown, SPost, SRestored, Moved
  <2>2. job.at = "restore" => job.then \in {"undo", "done"}
    BY <1>01 DEF Job
  <2> QED
    BY <1>0, <1>01, <1>6, <2>1, <2>2 DEF SMove, SListFails, SNothing, SFirst, SIdle,
       SUnknown, SPost, SRestored, LoggedOrUndone, LiveInv, InPlace, Kept, Rest, Pulling, Smooth
<1>7. CASE SDeps
  BY <1>0, <1>01, <1>7 DEF SDeps, Kept, AppSame, LiveInv, InPlace, Pulling, Shape, JobShape
<1>8. CASE SLists
  BY <1>0, <1>01, <1>8 DEF SLists, Marks, LiveInv, InPlace, Pulling, Shape, JobShape
<1>9. CASE SGiveUp
  <2>1. CASE Smooth'
    <3>1. \/ AppSame /\ job.todo = {}
          \/ \E m \in job.todo : layers[<<job.task.new, m>>] # "none"
      BY <1>9, <2>1 DEF SGiveUp, Smooth
    <3>2. \A m \in job.todo : layers[<<job.task.new, m>>] = "none"
      BY <1>0, <1>9, <2>1 DEF SGiveUp, TwiceInv, NotYet, Smooth
    <3>3. AppSame /\ job.todo = {} /\ met' \cap {"net", "cancel", "hook"} # {}
      BY <1>9, <2>1, <3>1, <3>2 DEF SGiveUp, Smooth
    <3> QED
      BY <2>1, <3>3 DEF Smooth
  <2>2. CASE ~Smooth'
    BY <1>9, <2>2 DEF SGiveUp, GaveUp, LiveInv, Pulling
  <2> QED
    BY <2>1, <2>2
<1>10. ASSUME NEW m \in Module, STooLate(m) PROVE LiveInv'
  BY <1>10 DEF STooLate, GaveUp, LiveInv, Pulling, Smooth
<1>11. ASSUME NEW m \in Module, SFetched(m) PROVE LiveInv'
  BY <1>01, <1>11 DEF SFetched, Marks, LiveInv, InPlace, Pulling, Shape, JobShape
<1>12. ASSUME NEW a \in App, SBusy(a) PROVE LiveInv'
  <2>1. a # job.task.new
    BY <1>12 DEF SBusy, Shape, JobShape, GoodTask
  <2> QED
    BY <1>0, <1>01, <1>12, <2>1 DEF SBusy, Marks, Kept, LoggedOrUndone, LiveInv, InPlace, Pulling
<1>13. ASSUME NEW a \in App, SReplace(a) PROVE LiveInv'
  <2>1. a # job.task.new
    BY <1>13 DEF SReplace, Shape, JobShape, GoodTask
  <2> QED
    BY <1>0, <1>01, <1>13, <2>1 DEF SReplace, PulledBack, Marks, Kept, LiveInv, InPlace, Pulling
<1>14. CASE SUndo
  <2>1. Kept /\ job'.at \in {"done", "restore"} /\ job.at = "undo"
    BY <1>14 DEF SUndo, PulledBack
  <2>2. ASSUME job'.at = "restore", job'.task.kind # "uninstall", Smooth' PROVE FALSE
    <3>1. InPlace /\ ~Whole(job.task)
      BY <1>0, <2>1, <2>2 DEF LiveInv, Kept, Whole
    <3>2. \E m \in job.task.mods : layers[<<job.task.new, m>>] = "none"
      BY <1>14, <2>2, <3>1 DEF SUndo
    <3> QED
      BY <3>1, <3>2 DEF InPlace
  <2> QED
    BY <2>1, <2>2 DEF LiveInv, Pulling
<1>15. ASSUME NEW m \in Module, SRestore(m) PROVE LiveInv'
  BY <1>0, <1>01, <1>15 DEF SRestore, Marks, AppSame, Kept, LiveInv, InPlace, Pulling
<1> QED
  BY <1>1, <1>2, <1>3, <1>4, <1>5, <1>6, <1>7, <1>8, <1>9, <1>10, <1>11, <1>12, <1>13, <1>14,
     <1>15 DEF SAny, SJob

\* No version is partly hidden.
RagInv == ~ragged => ~Mixed

\* The steps before the old version goes.
BeforeEnd == {"list", "installed", "replace"} \cup Pulling

\* The version a task replaces is there, with the modules the job found.
OldInv ==
    "twice" \notin met /\ ~ragged =>
        /\ \A i \in DOMAIN queue : \A c \in queue[i].old :
              /\ \E m \in Module : layers[<<c, m>>] = "live"
              /\ queue[i].kind = "update" => layers[<<c, "binary">>] = "live"
        /\ job.at \in BeforeEnd => \A c \in job.task.old : \A m \in Module :
              layers[<<c, m>>] = IF m \in job.oldMods THEN "live" ELSE "none"
        /\ job.at \in BeforeEnd /\ job.task.kind = "update" => "binary" \in job.oldMods
        /\ job.at = "restore" => job.of = job.task.new

\* OldInv holds at the start, and no version is hidden in part.
LEMMA InitOld == Init => OldInv /\ RagInv
<1> SUFFICES ASSUME Init PROVE OldInv /\ RagInv
  OBVIOUS
<1>1. OldInv
  BY DEF Init, OldInv, NoJob, Pulling, BeforeEnd
<1>2. \A a \in App, m \in Module : layers[<<a, m>>] = "none"
  BY LayerFacts DEF Init
<1> QED
  BY <1>1, <1>2 DEF RagInv, Mixed

\* OldInv is preserved: only the job itself touches the version it replaces.
LEMMA OldStep ==
    ASSUME Values, Shape, TwiceInv, RagInv, OldInv, SAny, met \subseteq met', Values', Shape',
           ~ragged' => ~ragged
    PROVE  OldInv'
<1> SUFFICES ASSUME "twice" \notin met', ~ragged'
             PROVE  OldInv'
  BY DEF OldInv
<1>0. /\ "twice" \notin met /\ ~ragged /\ Apart /\ ~Mixed
  BY DEF TwiceInv, RagInv
<1>01. /\ job \in Job /\ job.task.new \in App /\ job.task.mods \subseteq Module
       /\ job.task.old \subseteq App /\ job.oldMods \subseteq Module
  BY JobTyped
<1>02. \A i \in DOMAIN queue : queue[i].new \in App /\ queue[i].old \subseteq App
  BY QueueTyped
<1>03. \A i \in DOMAIN queue : \A c \in queue[i].old :
              /\ \E m \in Module : layers[<<c, m>>] = "live"
              /\ queue[i].kind = "update" => layers[<<c, "binary">>] = "live"
  BY <1>0 DEF OldInv
<1>04. \A i \in DOMAIN queue : \A c \in queue[i].old :
              /\ \E m \in Module : layers'[<<c, m>>] = "live"
              /\ queue[i].kind = "update" => layers'[<<c, "binary">>] = "live"
  <2> TAKE i \in DOMAIN queue
  <2> TAKE c \in queue[i].old
  <2>1. c \in App /\ Id[c] = Id[queue[i].new] /\ "binary" \in Module
    BY <1>02, ManagerAssumption DEF Shape, QueueShape, GoodTask
  <2>2. \A m \in Module : layers[<<c, m>>] = "live" => layers'[<<c, m>>] = "live"
    BY <1>0, <2>1, QueuedUntouched
  <2> QED
    BY <1>03, <2>1, <2>2
<1>05. /\ job.at \in BeforeEnd => \A c \in job.task.old : \A m \in Module :
              layers[<<c, m>>] = IF m \in job.oldMods THEN "live" ELSE "none"
       /\ job.at \in BeforeEnd /\ job.task.kind = "update" => "binary" \in job.oldMods
       /\ job.at = "restore" => job.of = job.task.new
  BY <1>0 DEF OldInv
<1>1. ASSUME NEW t \in Task, SAdd(t) PROVE OldInv'
  <2>1. queue' = Append(queue, t) /\ queue \in Seq(Task) /\ job' = job /\ layers' = layers
    BY <1>1 DEF SAdd, Values
  <2>2. \A i \in DOMAIN queue' : (i \in DOMAIN queue /\ queue'[i] = queue[i]) \/ queue'[i] = t
    BY <2>1, AppendFacts
  <2>3. t.new \in App
    BY DEF Task
  <2>4. \A c \in t.old : c \in App /\ \E m \in Module : layers[<<c, m>>] = "live"
    BY <1>1, <2>3, LatestFacts DEF SAdd, Listed
  <2>5. t.kind = "update" => \A c \in t.old : layers[<<c, "binary">>] # "none"
    BY <1>1 DEF SAdd, Binary
  <2>6. t.kind = "update" => \A c \in t.old : layers[<<c, "binary">>] = "live"
    <3> SUFFICES ASSUME t.kind = "update", NEW c \in t.old PROVE layers[<<c, "binary">>] = "live"
      OBVIOUS
    <3>1. "binary" \in Module /\ c \in App
      BY <2>4, ManagerAssumption
    <3>2. layers[<<c, "binary">>] \in Mark
      BY <3>1, LayerFacts DEF Values
    <3>3. layers[<<c, "binary">>] # "deleted"
      BY <1>0, <2>4, <3>1 DEF Mixed
    <3> QED
      BY <2>5, <3>2, <3>3 DEF Mark
  <2> QED
    BY <1>04, <1>05, <2>1, <2>2, <2>4, <2>6 DEF OldInv
<1>2. ASSUME NEW t \in Task, SBegin(t) PROVE OldInv'
  <2>1. /\ queue' = Tail(queue) /\ queue \in Seq(Task) /\ queue # <<>> /\ t = Head(queue)
        /\ job'.task.new = t.new /\ job'.task.kind = t.kind /\ job'.task.old = t.old
        /\ layers' = layers
    BY <1>2 DEF SBegin, Values
  <2>2. /\ t = queue[1] /\ 1 \in DOMAIN queue
        /\ \A i \in DOMAIN queue' : i + 1 \in DOMAIN queue /\ queue'[i] = queue[i + 1]
    BY <2>1, TailFacts
  <2>3. \A i \in DOMAIN queue' : \A c \in queue'[i].old :
              /\ \E m \in Module : layers'[<<c, m>>] = "live"
              /\ queue'[i].kind = "update" => layers'[<<c, "binary">>] = "live"
    BY ZenonT(60), <1>04, <2>2
  <2>4. /\ \A c \in t.old : \E m \in Module : layers[<<c, m>>] = "live"
        /\ t.kind = "update" => t.old # {} /\ \A c \in t.old : layers[<<c, "binary">>] = "live"
        /\ \A c, d \in t.old : c = d
        /\ t.kind \in {"module", "uninstall"} => t.old = {}
        /\ t.old \subseteq App
    <3>1. GoodTask(t)
      BY <2>2 DEF Shape, QueueShape
    <3> QED
      BY <1>02, <1>03, <2>2, <3>1 DEF GoodTask
  <2>5. t.old # {} /\ job'.at = "list" => job'.oldMods = UNION {Modules(a) : a \in t.old}
    BY <1>2, <2>4 DEF SBegin
  <2>6. ASSUME job'.at = "list", NEW c \in t.old, NEW m \in Module
        PROVE  layers[<<c, m>>] = IF m \in job'.oldMods THEN "live" ELSE "none"
    <3>1. job'.oldMods = Modules(c)
      BY <2>4, <2>5, <2>6
    <3>2. c \in App /\ layers[<<c, m>>] # "deleted" /\ layers[<<c, m>>] \in Mark
      BY <1>0, <2>4, LayerFacts DEF Mixed, Values
    <3> QED
      BY <3>1, <3>2 DEF Modules, IsInstalled, Mark
  <2>7. job'.at = "list" /\ t.kind = "update" => "binary" \in job'.oldMods
    <3> SUFFICES ASSUME job'.at = "list", t.kind = "update" PROVE "binary" \in job'.oldMods
      OBVIOUS
    <3>1. PICK c \in t.old : layers[<<c, "binary">>] = "live"
      BY <2>4
    <3>2. "binary" \in Module
      BY ManagerAssumption
    <3> QED
      BY <2>6, <3>1, <3>2
  <2>8. job'.at \in {"list", "undo", "done"}
    BY <1>2 DEF SBegin
  <2> QED
    BY <2>1, <2>3, <2>6, <2>7, <2>8 DEF OldInv, BeforeEnd, Pulling
<1>3. CASE SRun \/ SPrune
  BY <1>01, <1>04, <1>05, <1>3 DEF SRun, SPrune, AppSame, OldInv
<1>4. CASE SReturn
  BY <1>04, <1>4 DEF SReturn, OldInv, BeforeEnd, Pulling
<1>5. CASE SDeferred
  BY <1>01, <1>04, <1>05, <1>5 DEF SDeferred, OldInv
<1>6. CASE SJob
  <2>1. queue' = queue /\ job'.task.old = job.task.old /\ job'.task.new = job.task.new
        /\ job'.task.kind = job.task.kind
    BY <1>6, JobStill, OthersUntouched DEF Still
  <2>2. \A c \in job.task.old : c # job.task.new
    BY <1>6, OthersUntouched DEF Shape, JobShape, GoodTask
  <2>3. SUFFICES /\ job'.at \in BeforeEnd =>
                       /\ job.at \in BeforeEnd /\ job'.oldMods = job.oldMods
                       /\ \A c \in job.task.old : \A m \in Module :
                             layers'[<<c, m>>] = layers[<<c, m>>]
                 /\ job'.at = "restore" => job'.of = job'.task.new
    BY <1>01, <1>04, <1>05, <2>1, <2>3 DEF OldInv
  <2> USE DEF BeforeEnd, Pulling
  <2>4. CASE SMove
    BY <1>01, <2>4 DEF SMove, SListFails, SNothing, SFirst, SIdle,
       SUnknown, SPost, SRestored, LoggedOrUndone, Moved, Kept, Job
  <2>5. CASE SDeps
    BY <1>01, <2>5 DEF SDeps, AppSame, Kept
  <2>6. CASE SLists
    <3>1. job.at = "list" /\ job'.oldMods = job.oldMods
      BY <2>6 DEF SLists
    <3>2. \E back : Marks(job.task.new, back, "live")
      BY <2>6, Zenon DEF SLists
    <3>3. job'.at \in {"installed", "fetch"}
      BY <2>6 DEF SLists
    <3> QED
      BY <1>01, <2>2, <3>1, <3>2, <3>3 DEF Marks
  <2>7. CASE SGiveUp
    BY <2>7 DEF SGiveUp, GaveUp
  <2>8. CASE SUndo
    BY <2>8 DEF SUndo, PulledBack, Kept
  <2>9. ASSUME NEW m \in Module, SFetched(m)
        PROVE  job'.at \in BeforeEnd => /\ job.at \in BeforeEnd /\ job'.oldMods = job.oldMods
                       /\ \A c \in job.task.old : \A n \in Module :
                             layers'[<<c, n>>] = layers[<<c, n>>]
    BY <1>01, <2>2, <2>9 DEF SFetched, Marks
  <2>10. ASSUME NEW m \in Module, SFetched(m) PROVE job'.at # "restore"
    BY <2>10 DEF SFetched
  <2>11. ASSUME NEW m \in Module, STooLate(m) PROVE job'.at \notin BeforeEnd \cup {"restore"}
    BY <2>11 DEF STooLate, GaveUp
  <2>12. ASSUME NEW m \in Module, SRestore(m)
         PROVE  job'.at \notin BeforeEnd /\ job'.of = job'.task.new
    BY <1>05, <2>12 DEF SRestore, Kept
  <2>13. ASSUME NEW a \in App, SBusy(a) PROVE job'.at \notin BeforeEnd \cup {"restore"}
    BY <2>13 DEF SBusy, LoggedOrUndone
  <2>14. ASSUME NEW a \in App, SReplace(a) PROVE job'.at \notin BeforeEnd \cup {"restore"}
    <3>1. Missing(a) = {}
      BY <1>01, <1>05, <2>14 DEF SReplace, Missing
    <3> QED
      BY <2>14, <3>1 DEF SReplace
  <2> QED
    BY <1>6, <2>4, <2>5, <2>6, <2>7, <2>8, <2>9, <2>10, <2>11, <2>12, <2>13, <2>14 DEF SJob
<1> QED
  BY <1>1, <1>2, <1>3, <1>4, <1>5, <1>6 DEF SAny

-----------------------------------------------------------------------------
(* A hidden version has a listed one in its place.                         *)

\* A version that is marked deleted.
Hidden(a) == \E m \in Module : layers[<<a, m>>] = "deleted"

\* The steps after which the new version may still be taken back.
Open == {"list", "installed", "replace", "undo", "restore"} \cup Pulling

\* b stays listed, whatever becomes of the job.
Backs(b, a) == /\ Id[b] = Id[a] /\ Listed(b)
               /\ job.at \in Open /\ Replacing(job.task) => b # job.task.new

\* Every hidden version has another in its place that no rollback takes away.
BackInv ==
    met \cap {"hook", "uninstall", "twice"} = {} /\ ~ragged =>
        /\ ~broken
        /\ \A i \in DOMAIN queue : queue[i].kind # "uninstall"
        /\ job.at # "idle" => job.task.kind # "uninstall"
        /\ \A a \in App : Hidden(a) => \E b \in App : Backs(b, a)
        /\ job.at \in Pulling /\ job.revived # {} => \E b \in App : Backs(b, job.task.new)
        /\ job.at \in Open /\ job.task.kind = "module" =>
              \E m \in Module : m \notin job.task.mods /\ layers[<<job.task.new, m>>] = "live"

\* BackInv holds at the start.
LEMMA InitBack == Init => BackInv
<1> SUFFICES ASSUME Init PROVE BackInv
  OBVIOUS
<1>1. \A a \in App, m \in Module : layers[<<a, m>>] = "none"
  BY LayerFacts DEF Init
<1>2. ~broken
  BY Zenon DEF Init
<1>3. job.at = "idle" /\ queue = <<>>
  BY DEF Init, NoJob
<1>4. \A a \in App : ~Hidden(a)
  BY <1>1 DEF Hidden
<1>5. job.at \notin Pulling /\ job.at \notin Open /\ DOMAIN queue = {}
  BY <1>3 DEF Pulling, Open
<1> QED
  BY <1>2, <1>3, <1>4, <1>5 DEF BackInv

\* The job of an optional module leaves the other modules alone.
LEMMA ModuleKeeps ==
    ASSUME Values, Shape, SJob, job.task.kind = "module",
           NEW m \in Module, m \notin job.task.mods, layers[<<job.task.new, m>>] = "live"
    PROVE  layers'[<<job.task.new, m>>] = "live" /\ job'.task.mods \subseteq job.task.mods
<1>0. /\ job \in Job /\ job.task.new \in App /\ job.task.mods \subseteq Module
      /\ job.task.old = {}
  BY JobTyped, OthersUntouched DEF Shape, JobShape, GoodTask
<1> DEFINE Good == layers'[<<job.task.new, m>>] = "live" /\ job'.task.mods \subseteq job.task.mods
<1>1. job.at \in Pulling => m \notin job.pulled /\ m \notin job.revived
  BY DEF Shape, JobShape
<1>2. CASE SMove
  BY <1>0, <1>2 DEF SMove, SListFails, SNothing, SFirst, SIdle, SUnknown, SPost, SRestored, Moved,
     Kept
<1>3. CASE SDeps
  BY <1>0, <1>3 DEF SDeps, AppSame, Kept
<1>4. CASE SLists
  <2>1. \E back : Marks(job.task.new, back, "live")
    BY <1>4, Zenon DEF SLists
  <2> QED
    BY <1>0, <1>4, <2>1 DEF SLists, Marks
<1>5. CASE SGiveUp
  BY <1>0, <1>1, <1>5 DEF SGiveUp, AppSame, Rolls, Kept
<1>6. CASE SUndo
  <2>1. ~Whole(job.task) /\ Kept
    BY <1>6 DEF Whole, SUndo, PulledBack
  <2>2. \E some : some \subseteq job.task.mods /\ Marks(job.task.new, some, "none")
    BY <1>6, <2>1 DEF SUndo, Some
  <2> QED
    BY <1>0, <2>1, <2>2 DEF Marks, Kept
<1>7. ASSUME NEW n \in Module, SFetched(n) PROVE Good
  BY <1>0, <1>7 DEF SFetched, Marks
<1>8. ASSUME NEW n \in Module, STooLate(n) PROVE Good
  BY <1>0, <1>1, <1>8 DEF STooLate, Kept, Pulling
<1>9. ASSUME NEW n \in Module, SRestore(n) PROVE Good
  BY <1>0, <1>9 DEF SRestore, Marks, AppSame, Kept
<1>10. ASSUME NEW a \in App, SBusy(a) \/ SReplace(a) PROVE FALSE
  BY <1>0, <1>10 DEF SBusy, SReplace
<1> QED
  BY <1>2, <1>3, <1>4, <1>5, <1>6, <1>7, <1>8, <1>9, <1>10 DEF SJob

\* BackInv is preserved: the version in the place of a hidden one goes only when another takes
\* its place.
LEMMA BackStep ==
    ASSUME Values, Shape, TwiceInv, LiveInv, RagInv, OldInv, BackInv, SAny, met \subseteq met',
           Values', Shape', TwiceInv', ~ragged' => ~ragged
    PROVE  BackInv'
<1> SUFFICES ASSUME met' \cap {"hook", "uninstall", "twice"} = {}, ~ragged'
             PROVE  BackInv'
  BY DEF BackInv
<1>0. /\ met \cap {"hook", "uninstall", "twice"} = {} /\ ~ragged /\ Apart /\ NotYet /\ NotYet'
      /\ "hook" \notin met' /\ "uninstall" \notin met'
  BY DEF TwiceInv
<1>01. /\ job \in Job /\ job.task.new \in App /\ job.task.mods \subseteq Module
       /\ job.task.old \subseteq App /\ job.oldMods \subseteq Module
       /\ job.revived \subseteq Module /\ job.pulled \subseteq Module
  BY JobTyped
<1>02. /\ ~broken
       /\ \A i \in DOMAIN queue : queue[i].kind # "uninstall"
       /\ job.at # "idle" => job.task.kind # "uninstall"
  BY <1>0 DEF BackInv
<1>03. \A a \in App : Hidden(a) => \E b \in App : Backs(b, a)
  BY <1>0 DEF BackInv
<1>04. job.at \in Pulling /\ job.revived # {} => \E b \in App : Backs(b, job.task.new)
  BY <1>0 DEF BackInv
<1>05. job.at \in Open /\ job.task.kind = "module" =>
          \E m \in Module : m \notin job.task.mods /\ layers[<<job.task.new, m>>] = "live"
  BY <1>0 DEF BackInv
<1>06. job' \in Job /\ job'.task.new \in App
  BY DEF Values, Job, Task
<1>1. CASE job' = job /\ AppSame /\ queue' = queue /\ broken' = broken
  <2>1. \A a \in App : Hidden(a)' <=> Hidden(a)
    BY <1>1 DEF AppSame, Hidden
  <2>2. \A a \in App : Listed(a)' <=> Listed(a)
    BY <1>1 DEF AppSame, Listed
  <2>3. \A a, b \in App : Backs(b, a)' <=> Backs(b, a)
    BY <1>1, <2>2 DEF Backs
  <2> QED
    BY <1>01, <1>02, <1>03, <1>04, <1>05, <1>1, <2>1, <2>3 DEF BackInv, AppSame
<1>2. SRun \/ SPrune => job' = job /\ AppSame /\ queue' = queue /\ broken' = broken
  BY DEF SRun, SPrune, AppSame
<1>3. ASSUME NEW t \in Task, SAdd(t) PROVE BackInv'
  <2>1. queue' = Append(queue, t) /\ queue \in Seq(Task) /\ job' = job /\ layers' = layers
        /\ ~broken'
    BY <1>3 DEF SAdd, Values
  <2>2. \A i \in DOMAIN queue' : (i \in DOMAIN queue /\ queue'[i] = queue[i]) \/ queue'[i] = t
    BY <2>1, AppendFacts
  <2>3. t.kind # "uninstall"
    BY <1>0, <1>3 DEF SAdd
  <2>4. \A a \in App : Hidden(a)' <=> Hidden(a)
    BY <2>1 DEF Hidden
  <2>5. \A a, b \in App : Backs(b, a)' <=> Backs(b, a)
    BY <2>1 DEF Backs, Listed
  <2> QED
    BY <1>01, <1>02, <1>03, <1>04, <1>05, <2>1, <2>2, <2>3, <2>4, <2>5 DEF BackInv
<1>4. ASSUME NEW t \in Task, SBegin(t) PROVE BackInv'
  <2>1. /\ queue' = Tail(queue) /\ queue \in Seq(Task) /\ queue # <<>> /\ t = Head(queue)
        /\ job'.task.new = t.new /\ job'.task.kind = t.kind /\ layers' = layers /\ ~broken'
        /\ job.at = "idle"
    BY <1>4 DEF SBegin, Values
  <2>2. /\ t = queue[1] /\ 1 \in DOMAIN queue
        /\ \A i \in DOMAIN queue' : i + 1 \in DOMAIN queue /\ queue'[i] = queue[i + 1]
    BY <2>1, TailFacts
  <2>3. t.kind # "uninstall" /\ \A i \in DOMAIN queue' : queue'[i].kind # "uninstall"
    BY <1>02, <2>2
  <2>4. job'.at \in {"list", "done"}
    BY <1>4, <2>3 DEF SBegin
  <2>5. Replacing(job'.task) /\ job'.at \in Open =>
           \A m \in Module : layers'[<<job'.task.new, m>>] # "live"
    <3>1. job'.at \in Open => job'.at = "list"
      BY <2>4 DEF Open, Pulling
    <3> QED
      BY <1>0, <3>1 DEF NotYet
  <2>6. ASSUME NEW a \in App, NEW b \in App, Backs(b, a) PROVE Backs(b, a)'
    <3>1. Id[b] = Id[a] /\ \E m \in Module : layers'[<<b, m>>] = "live"
      BY <2>1, <2>6 DEF Backs, Listed
    <3>2. Replacing(job'.task) /\ job'.at \in Open => b # job'.task.new
      BY <2>5, <3>1
    <3> QED
      BY <3>1, <3>2 DEF Backs, Listed
  <2>7. \A a \in App : Hidden(a)' <=> Hidden(a)
    BY <2>1 DEF Hidden
  <2>8. job'.at \in Open /\ t.kind = "module" =>
          \E m \in Module : m \notin job'.task.mods /\ layers[<<t.new, m>>] = "live"
    <3> SUFFICES ASSUME job'.at \in Open, t.kind = "module"
                 PROVE  \E m \in Module : m \notin job'.task.mods /\ layers[<<t.new, m>>] = "live"
      OBVIOUS
    <3>1. t.new \in Latest(Id[t.new]) /\ t.mods \cap Modules(t.new) = {} /\ job'.task.mods = t.mods
      BY <1>4, <2>4 DEF SBegin, Open, Pulling
    <3>2. PICK m \in Module : layers[<<t.new, m>>] = "live"
      BY <3>1 DEF Latest, Listed
    <3>3. m \in Modules(t.new)
      BY <3>2 DEF Modules, IsInstalled
    <3> QED
      BY <3>1, <3>2, <3>3
  <2>9. job'.at \notin Pulling
    BY <2>4 DEF Pulling
  <2> QED
    BY <1>03, <2>1, <2>3, <2>6, <2>7, <2>8, <2>9 DEF BackInv
<1>5. CASE SReturn
  <2>1. job'.at = "idle" /\ layers' = layers /\ queue' = queue /\ ~broken'
    BY <1>5 DEF SReturn
  <2>2. \A a, b \in App : Backs(b, a) => Backs(b, a)'
    BY <2>1 DEF Backs, Listed, Open, Pulling
  <2>3. \A a \in App : Hidden(a)' <=> Hidden(a)
    BY <2>1 DEF Hidden
  <2> QED
    BY <1>02, <1>03, <2>1, <2>2, <2>3 DEF BackInv, Open, Pulling
<1>6. CASE SDeferred
  <2>1. job' = job /\ queue' = queue
    BY <1>6 DEF SDeferred
  <2>2. \A a \in App, m \in Module :
           \/ layers'[<<a, m>>] = layers[<<a, m>>]
           \/ layers[<<a, m>>] = "deleted" /\ layers'[<<a, m>>] = "none"
    BY <1>6 DEF SDeferred
  <2>3. \A a \in App : Hidden(a)' => Hidden(a)
    BY <2>2 DEF Hidden
  <2>4. \A a, b \in App : Backs(b, a) => Backs(b, a)'
    BY <2>1, <2>2 DEF Backs, Listed
  <2>5. ASSUME NEW a \in App, \E m \in Module : layers[<<a, m>>] = "deleted"
        PROVE  Latest(Id[a]) # {}
    <3>1. PICK b \in App : Id[b] = Id[a] /\ Listed(b)
      BY <1>03, <2>5 DEF Hidden, Backs
    <3> QED
      BY <3>1, LatestFacts
  <2>6. ~broken'
    BY <1>6, <2>5 DEF SDeferred
  <2> QED
    BY <1>01, <1>02, <1>03, <1>04, <1>05, <2>1, <2>2, <2>3, <2>4, <2>6 DEF BackInv

<1>7. CASE SJob
  <2>1. /\ queue' = queue /\ broken' = broken
        /\ job'.task.old = job.task.old /\ job'.task.new = job.task.new
        /\ job'.task.kind = job.task.kind /\ job.at # "idle" /\ job'.at # "idle"
        /\ \A a \in App, m \in Module : Id[a] # Id[job.task.new] =>
                 layers'[<<a, m>>] = layers[<<a, m>>]
    BY <1>7, JobStill, OthersUntouched DEF Still
  <2>2. /\ \A c \in job.task.old : c # job.task.new /\ Id[c] = Id[job.task.new]
        /\ job.task.kind = "module" => job.task.old = {}
        /\ job.task.kind # "uninstall"
    BY <1>02, <2>1 DEF Shape, JobShape, GoodTask
  <2>3. ASSUME NEW a \in App, Id[a] # Id[job.task.new], Hidden(a)'
        PROVE  \E b \in App : Backs(b, a)'
    <3>1. Hidden(a)
      BY <2>1, <2>3 DEF Hidden
    <3>2. PICK b \in App : Backs(b, a)
      BY <1>03, <3>1
    <3> QED
      BY <2>1, <2>3, <3>2 DEF Backs, Listed
  <2>4. SUFFICES /\ \A a \in App : Id[a] = Id[job.task.new] /\ Hidden(a)' =>
                       \E b \in App : Backs(b, a)'
                 /\ job'.at \in Pulling /\ job'.revived # {} =>
                       \E b \in App : Backs(b, job.task.new)'
                 /\ job'.at \in Open /\ job.task.kind = "module" =>
                       \E m \in Module : m \notin job'.task.mods /\ layers'[<<job.task.new, m>>] = "live"
    <3>1. \A a \in App : Hidden(a)' => \E b \in App : Backs(b, a)'
      BY <2>3, <2>4
    <3>2. job'.at \in Open /\ job'.task.kind = "module" =>
             \E m \in Module : m \notin job'.task.mods /\ layers'[<<job'.task.new, m>>] = "live"
      BY <2>1, <2>4
    <3> QED
      BY <1>02, <2>1, <2>2, <2>4, <3>1, <3>2 DEF BackInv
  <2>5. CASE SPost
    <3>1. job'.at = "done" /\ layers' = layers
      BY <1>0, <2>5 DEF SPost, Moved
    <3>2. \A a \in App : Hidden(a)' <=> Hidden(a)
      BY <3>1 DEF Hidden
    <3>3. \A a, b \in App : Backs(b, a) => Backs(b, a)'
      BY <3>1 DEF Backs, Listed, Open, Pulling
    <3> QED
      BY <1>03, <3>1, <3>2, <3>3 DEF Open, Pulling
  <2>6. ASSUME ~SPost PROVE job.at \in Open
    BY <1>7, <2>6 DEF SJob, SMove, SListFails, SNothing, SFirst, SIdle, SUnknown, SRestored,
       SDeps, SLists, SGiveUp, SUndo, SFetched, STooLate, SRestore, SBusy, SReplace, Open, Pulling
  <2>7. CASE ~SPost /\ job.task.kind = "module"
    <3>1. PICK m \in Module : m \notin job.task.mods /\ layers[<<job.task.new, m>>] = "live"
      BY <1>05, <2>6, <2>7
    <3>3. layers'[<<job.task.new, m>>] = "live" /\ job'.task.mods \subseteq job.task.mods
      BY <1>7, <2>7, <3>1, ModuleKeeps
    <3>4. \A a \in App : Id[a] = Id[job.task.new] => Backs(job.task.new, a)'
      BY <2>1, <2>7, <3>3 DEF Backs, Listed, Replacing
    <3>5. Backs(job.task.new, job.task.new)'
      BY <2>1, <2>7, <3>3 DEF Backs, Listed, Replacing
    <3>6. m \notin job'.task.mods
      BY <3>1, <3>3
    <3> QED
      BY <1>06, <3>3, <3>4, <3>5, <3>6
  <2>8. CASE Replacing(job.task) /\ \E a \in App : SBusy(a) \/ SReplace(a)
    <3>1. PICK a \in App : SBusy(a) \/ SReplace(a)
      BY <2>8
    <3>2. a \in job.task.old /\ job.at \in BeforeEnd
      BY <3>1 DEF SBusy, SReplace, BeforeEnd
    <3>3. Missing(a) = {}
      BY <1>0, <1>01, <3>2 DEF OldInv, Missing
    <3>4. job'.at = "post" /\ \E mark : Marks(a, job.oldMods, mark)
      BY <3>1, <3>3 DEF SBusy, SReplace
    <3>5. PICK m \in Module : layers[<<job.task.new, m>>] = "live"
      BY <1>01, <3>1 DEF SBusy, SReplace, LiveInv, InPlace
    <3>6. layers'[<<job.task.new, m>>] = "live"
      BY <1>01, <2>2, <3>2, <3>4, <3>5 DEF Marks
    <3>7. \A c \in App : Id[c] = Id[job.task.new] => Backs(job.task.new, c)'
      BY <2>1, <3>4, <3>6 DEF Backs, Listed, Open, Pulling
    <3>8. job'.at \notin Open /\ job'.at \notin Pulling
      BY <3>4 DEF Open, Pulling
    <3> QED
      BY <1>06, <3>7, <3>8
  <2>9. CASE ~SPost /\ Replacing(job.task) /\ ~ \E a \in App : SBusy(a) \/ SReplace(a)
    <3>1. /\ \A b \in App, m \in Module : b # job.task.new => layers'[<<b, m>>] = layers[<<b, m>>]
          /\ \A m \in Module : layers'[<<job.task.new, m>>] = "deleted" =>
                \/ layers[<<job.task.new, m>>] = "deleted"
                \/ job.at \in Pulling /\ job.revived # {}
          /\ job'.at \in Pulling /\ job'.revived # {} =>
                \/ job.at \in Pulling /\ job.revived # {}
                \/ Hidden(job.task.new)
      <4> DEFINE Others == \A b \in App, m \in Module :
                              b # job.task.new => layers'[<<b, m>>] = layers[<<b, m>>]
      <4> DEFINE Mine == \A m \in Module : layers'[<<job.task.new, m>>] = "deleted" =>
                \/ layers[<<job.task.new, m>>] = "deleted"
                \/ job.at \in Pulling /\ job.revived # {}
      <4> DEFINE Back == job'.at \in Pulling /\ job'.revived # {} =>
                \/ job.at \in Pulling /\ job.revived # {}
                \/ Hidden(job.task.new)
      <4>1. CASE SMove
        BY <1>01, <4>1 DEF SMove, SListFails, SNothing, SFirst, SIdle, SUnknown, SPost,
           SRestored, Moved, Kept, Pulling, LoggedOrUndone, Job
      <4>2. CASE SDeps
        BY <1>01, <4>2 DEF SDeps, AppSame, Kept, Pulling
      <4>3. CASE SLists
        <5>1. \E back : Marks(job.task.new, back, "live")
          BY <4>3, Zenon DEF SLists
        <5>2. \A m \in job'.revived : m \in Module /\ layers[<<job.task.new, m>>] = "deleted"
          BY <1>01, <4>3 DEF SLists
        <5> QED
          BY <1>01, <5>1, <5>2 DEF Marks, Hidden
      <4>4. CASE SGiveUp
        BY <1>01, <4>4 DEF SGiveUp, AppSame, Rolls, Kept, GaveUp, Pulling
      <4>5. CASE SUndo
        <5>1. \E some : Marks(job.task.new, some, "none")
          BY <4>5 DEF SUndo
        <5>2. job'.at \notin Pulling
          BY <4>5 DEF SUndo, PulledBack, Pulling
        <5> QED
          BY <1>01, <5>1, <5>2 DEF Marks
      <4>6. ASSUME NEW n \in Module, SFetched(n) PROVE Others /\ Mine /\ Back
        BY <1>01, <4>6 DEF SFetched, Marks, Pulling
      <4>7. ASSUME NEW n \in Module, STooLate(n) PROVE Others /\ Mine /\ Back
        BY <1>01, <4>7 DEF STooLate, GaveUp, Pulling
      <4>8. ASSUME NEW n \in Module, SRestore(n) PROVE Others /\ Mine /\ Back
        <5>1. job.of = job.task.new
          BY <1>0, <4>8 DEF SRestore, OldInv
        <5> QED
          BY <1>01, <4>8, <5>1 DEF SRestore, Marks, AppSame, Kept, Pulling
      <4> QED
        BY <1>7, <2>9, <4>1, <4>2, <4>3, <4>4, <4>5, <4>6, <4>7, <4>8 DEF SJob
    <3>2. \A a, b \in App : Backs(b, a) => Backs(b, a)'
      BY <2>1, <2>6, <2>9, <3>1 DEF Backs, Listed
    <3>3. \A a \in App : Id[a] = Id[job.task.new] /\ Hidden(a)' => \E b \in App : Backs(b, a)
      BY <1>01, <1>03, <1>04, <3>1 DEF Hidden
    <3>4. job'.at \in Pulling /\ job'.revived # {} => \E b \in App : Backs(b, job.task.new)
      BY <1>01, <1>03, <1>04, <3>1
    <3>5. \A b \in App : Backs(b, job.task.new) => Backs(b, job.task.new)'
      BY <2>1, <2>6, <2>9, <3>1 DEF Backs, Listed
    <3>6. job.task.kind # "module"
      BY <2>9 DEF Replacing
    <3> QED
      BY <1>01, <3>2, <3>3, <3>4, <3>5, <3>6
  <2>10. job.task.kind = "module" \/ Replacing(job.task)
    BY <1>01, <2>2 DEF Job, Task, Replacing
  <2> QED
    BY <2>5, <2>7, <2>8, <2>9, <2>10
<1> QED
  BY <1>1, <1>2, <1>3, <1>4, <1>5, <1>6, <1>7 DEF SAny

-----------------------------------------------------------------------------
(* An application that is installed keeps a version.                       *)

\* Uninstall() names one module, and when that is gone has nothing to pull back.
UninstallInv ==
    job.task.kind = "uninstall" =>
        /\ job.at = "undo" => job.failed = FALSE /\ \E m \in Module : job.task.mods = {m}
        /\ job.at = "restore" => job.lost = {}

\* UninstallInv holds at the start.
LEMMA InitUninstall == Init => UninstallInv
  BY DEF Init, UninstallInv, NoJob, AnyTask

\* Uninstall() succeeds, or changes nothing.
LEMMA UninstallKeeps ==
    ASSUME Values, UninstallInv, SUndo, job.task.kind = "uninstall"
    PROVE  \/ job'.at = "done" /\ job'.failed = FALSE
           \/ job'.at = "restore" /\ job'.lost = {} /\ job'.failed = TRUE /\ AppSame
<1> DEFINE t == job.task
           mods == IF Whole(t) THEN Modules(t.new) ELSE t.mods
           gone == {m \in mods : layers[<<t.new, m>>] = "none"}
<1>1. job.at = "undo" /\ job.failed = FALSE
  BY DEF SUndo, UninstallInv
<1>2. PICK m \in Module : t.mods = {m}
  BY <1>1 DEF UninstallInv
<1>3. CASE gone = {}
  BY <1>1, <1>3 DEF SUndo
<1>4. CASE gone # {}
  <2>1. ~Whole(t)
    BY <1>4 DEF Modules, IsInstalled
  <2>2. gone = mods
    BY <1>2, <1>4, <2>1
  <2>3. PICK some \in SUBSET Module : /\ Some(some, mods, gone) /\ Marks(t.new, some, "none")
                                      /\ PulledBack(t.new, some, TRUE, "done")
    BY <1>4 DEF SUndo
  <2>4. some = {}
    BY <2>2, <2>3 DEF Some
  <2> QED
    BY <2>3, <2>4 DEF PulledBack, Marks, AppSame
<1> QED
  BY <1>3, <1>4

\* UninstallInv is preserved.
LEMMA UninstallStep ==
    ASSUME Values, Shape, UninstallInv, SAny, Values' PROVE UninstallInv'
<1> SUFFICES ASSUME job'.task.kind = "uninstall" PROVE UninstallInv'
  BY DEF UninstallInv
<1>1. CASE job' = job
  BY <1>1 DEF UninstallInv
<1>2. (\E t \in Task : SAdd(t)) \/ SRun \/ SPrune \/ SDeferred => job' = job
  BY DEF SAdd, SRun, SPrune, SDeferred
<1>3. CASE SReturn
  BY <1>3 DEF SReturn, UninstallInv
<1>4. ASSUME NEW t \in Task, SBegin(t) PROVE UninstallInv'
  <2>1. 1 \in DOMAIN queue /\ t = queue[1]
    BY <1>4, TailFacts DEF SBegin, Values
  <2> QED
    BY <1>4, <2>1 DEF SBegin, UninstallInv, Shape, QueueShape
<1>5. CASE SJob
  <2>1. job.task.kind = "uninstall" /\ job.at # "idle"
    BY <1>5, OthersUntouched
  <2>2. job.at \notin Ahead
    BY <2>1 DEF Shape, JobShape
  <2>3. CASE SUndo
    <3>1. Kept
      BY <2>3 DEF SUndo, PulledBack
    <3> QED
      BY <2>1, <2>3, <3>1, UninstallKeeps DEF UninstallInv, Kept
  <2>4. CASE \E m \in Module : SRestore(m)
    BY <2>1, <2>4 DEF SRestore, UninstallInv
  <2>5. CASE SRestored
    <3>1. job.then = "done"
      BY <2>1, <2>5 DEF SRestored, Shape, JobShape, GoodTask
    <3> QED
      BY <2>5, <3>1 DEF SRestored, UninstallInv
  <2> QED
    BY <1>5, <2>2, <2>3, <2>4, <2>5 DEF SJob, SMove, SListFails, SNothing, SFirst, SIdle, SUnknown,
       SPost, SDeps, SLists, SGiveUp, SFetched, STooLate, SBusy, SReplace, Ahead, Pulling
<1> QED
  BY <1>1, <1>2, <1>3, <1>4, <1>5 DEF SAny

\* Only the removal of the old version touches another one than the new.
LEMMA OnlyNew ==
    ASSUME Values, Shape, OldInv, SJob, "twice" \notin met, ~ragged,
           ~ \E a \in App : SBusy(a) \/ SReplace(a)
    PROVE  \A b \in App, m \in Module : b # job.task.new => layers'[<<b, m>>] = layers[<<b, m>>]
<1> DEFINE Others == \A b \in App, m \in Module :
                        b # job.task.new => layers'[<<b, m>>] = layers[<<b, m>>]
<1>1. CASE SMove
  BY <1>1 DEF SMove, SListFails, SNothing, SFirst, SIdle, SUnknown, SPost, SRestored, Moved
<1>2. CASE SDeps
  BY <1>2 DEF SDeps, AppSame
<1>3. CASE SLists
  <2>1. \E back : Marks(job.task.new, back, "live")
    BY <1>3, Zenon DEF SLists
  <2> QED
    BY <2>1 DEF Marks
<1>4. CASE SGiveUp
  BY <1>4 DEF SGiveUp, AppSame, Rolls
<1>5. CASE SUndo
  <2>1. \E some : Marks(job.task.new, some, "none")
    BY <1>5 DEF SUndo
  <2> QED
    BY <2>1 DEF Marks
<1>6. ASSUME NEW n \in Module, SFetched(n) PROVE Others
  BY <1>6 DEF SFetched, Marks
<1>7. ASSUME NEW n \in Module, STooLate(n) PROVE Others
  BY <1>7 DEF STooLate
<1>8. ASSUME NEW n \in Module, SRestore(n) PROVE Others
  <2>1. job.of = job.task.new
    BY <1>8 DEF SRestore, OldInv
  <2> QED
    BY <1>8, <2>1 DEF SRestore, Marks, AppSame
<1> QED
  BY <1>1, <1>2, <1>3, <1>4, <1>5, <1>6, <1>7, <1>8 DEF SJob

\* The job of an optional module leaves the module binary alone.
LEMMA ModuleJob ==
    ASSUME Values, Shape, SJob, job.task.kind = "module",
           job.at = "restore" => "binary" \notin job.lost
    PROVE  \A a \in App : layers'[<<a, "binary">>] = layers[<<a, "binary">>]
<1> DEFINE Same == \A a \in App : layers'[<<a, "binary">>] = layers[<<a, "binary">>]
<1>0. "binary" \in Module /\ "binary" \notin job.task.mods /\ job.task.old = {}
  BY OthersUntouched, ManagerAssumption DEF Shape, JobShape, GoodTask
<1>1. job.at \in Pulling => /\ "binary" \notin job.pulled /\ "binary" \notin job.revived
                            /\ "binary" \notin job.todo
  BY <1>0 DEF Shape, JobShape
<1>2. CASE SMove
  BY <1>2 DEF SMove, SListFails, SNothing, SFirst, SIdle, SUnknown, SPost, SRestored, Moved
<1>3. CASE SDeps
  BY <1>0, <1>3 DEF SDeps, AppSame
<1>4. CASE SLists
  <2>1. \E back : back \subseteq job.task.mods /\ Marks(job.task.new, back, "live")
    <3> DEFINE mods == job.task.mods \cap Offers[job.task.new]
               back == {m \in mods : layers[<<job.task.new, m>>] = "deleted"}
    <3>1. Marks(job.task.new, back, "live")
      BY <1>4, Zenon DEF SLists
    <3>2. back \subseteq job.task.mods
      OBVIOUS
    <3> HIDE DEF back
    <3> QED
      BY <3>1, <3>2
  <2> QED
    BY <1>0, <2>1 DEF Marks
<1>5. CASE SGiveUp
  BY <1>0, <1>1, <1>5 DEF SGiveUp, AppSame, Rolls
<1>6. CASE SUndo
  <2>1. ~Whole(job.task)
    BY DEF Whole
  <2>2. \E some : some \subseteq job.task.mods /\ Marks(job.task.new, some, "none")
    BY <1>6, <2>1 DEF SUndo, Some
  <2> QED
    BY <1>0, <2>2 DEF Marks
<1>7. ASSUME NEW n \in Module, SFetched(n) PROVE Same
  BY <1>0, <1>1, <1>7 DEF SFetched, Marks, Pulling
<1>8. ASSUME NEW n \in Module, STooLate(n) PROVE Same
  BY <1>0, <1>1, <1>8 DEF STooLate, Pulling
<1>9. ASSUME NEW n \in Module, SRestore(n) PROVE Same
  BY <1>0, <1>9 DEF SRestore, Marks, AppSame
<1>10. ASSUME NEW a \in App, SBusy(a) \/ SReplace(a) PROVE FALSE
  BY <1>0, <1>10 DEF SBusy, SReplace
<1> QED
  BY <1>2, <1>3, <1>4, <1>5, <1>6, <1>7, <1>8, <1>9, <1>10 DEF SJob

\* a stays, whatever becomes of the job.
Keeps(a, id) == /\ Id[a] = id /\ layers[<<a, "binary">>] = "live"
                /\ job.at \in Open /\ Replacing(job.task) => a # job.task.new

\* Every application that is owned has such a version.
OwnInv ==
    met \cap {"hook", "twice"} = {} /\ ~ragged =>
        /\ \A id \in owned : \/ \E a \in App : Keeps(a, id)
                             \/ /\ job.at = "done" /\ job.failed = FALSE
                                /\ job.task.kind = "uninstall" /\ id = Id[job.task.new]
        /\ job.at \in {"replace", "post"} => layers[<<job.task.new, "binary">>] = "live"
        /\ job.at = "done" /\ job.failed = FALSE /\ job.task.kind # "uninstall" =>
              \E a \in App : Keeps(a, Id[job.task.new])

\* OwnInv holds at the start.
LEMMA InitOwn == Init => OwnInv
  BY DEF Init, OwnInv, NoJob, Open, Pulling

\* OwnInv is preserved.
LEMMA OwnStep ==
    ASSUME Values, Shape, TwiceInv, LiveInv, RagInv, OldInv, UninstallInv, OwnInv, SAny,
           met \subseteq met', Values', Shape', TwiceInv', ~ragged' => ~ragged
    PROVE  OwnInv'
<1> SUFFICES ASSUME met' \cap {"hook", "twice"} = {}, ~ragged'
             PROVE  OwnInv'
  BY DEF OwnInv
<1>0. /\ met \cap {"hook", "twice"} = {} /\ ~ragged /\ Apart /\ NotYet /\ NotYet' /\ ~Mixed
      /\ "hook" \notin met' /\ "binary" \in Module
  BY ManagerAssumption DEF TwiceInv, RagInv
<1>01. /\ job \in Job /\ job.task.new \in App /\ job.task.mods \subseteq Module
       /\ job.task.old \subseteq App /\ job.oldMods \subseteq Module
       /\ job.revived \subseteq Module /\ job.pulled \subseteq Module
       /\ job.task.kind \in {"install", "module", "update", "uninstall"}
  BY JobTyped DEF Job, Task
<1>02. \A id \in owned : \/ \E a \in App : Keeps(a, id)
                         \/ /\ job.at = "done" /\ job.failed = FALSE
                            /\ job.task.kind = "uninstall" /\ id = Id[job.task.new]
  BY <1>0 DEF OwnInv
<1>03. job.at \in {"replace", "post"} => layers[<<job.task.new, "binary">>] = "live"
  BY <1>0 DEF OwnInv
<1>04. job.at = "done" /\ job.failed = FALSE /\ job.task.kind # "uninstall" =>
              \E a \in App : Keeps(a, Id[job.task.new])
  BY <1>0 DEF OwnInv
<1>06. job' \in Job /\ job'.task.new \in App
  BY DEF Values, Job, Task
<1>1. CASE /\ job' = job /\ owned' = owned
           /\ \A a \in App, m \in Module : layers[<<a, m>>] = "live" => layers'[<<a, m>>] = "live"
  <2>1. \A a \in App, id \in owned : Keeps(a, id) => Keeps(a, id)'
    BY <1>0, <1>1 DEF Keeps
  <2>2. \A a \in App : Keeps(a, Id[job.task.new]) => Keeps(a, Id[job.task.new])'
    BY <1>0, <1>1 DEF Keeps
  <2> QED
    BY <1>0, <1>01, <1>02, <1>03, <1>04, <1>1, <2>1, <2>2 DEF OwnInv
<1>2. (\E t \in Task : SAdd(t)) \/ SRun \/ SPrune \/ SDeferred =>
           /\ job' = job /\ owned' = owned
           /\ \A a \in App, m \in Module : layers[<<a, m>>] = "live" => layers'[<<a, m>>] = "live"
  BY DEF SAdd, SRun, SPrune, SDeferred, AppSame
<1>3. CASE SReturn
  <2>1. job'.at = "idle" /\ layers' = layers /\ job.at = "done"
    BY <1>3 DEF SReturn
  <2>2. \A a \in App : \A id : Keeps(a, id) => Keeps(a, id)'
    BY <2>1 DEF Keeps, Open, Pulling
  <2>3. CASE job.failed = TRUE
    BY <1>02, <1>3, <2>1, <2>2, <2>3 DEF SReturn, OwnInv
  <2>4. CASE job.failed = FALSE /\ job.task.kind # "uninstall"
    <3>1. owned' = owned \cup {Id[job.task.new]}
      BY <1>3, <2>4 DEF SReturn
    <3> QED
      BY <1>02, <1>04, <2>1, <2>2, <2>4, <3>1 DEF OwnInv
  <2>5. CASE job.failed = FALSE /\ job.task.kind = "uninstall"
    <3> DEFINE id == Id[job.task.new]
               left == \E a \in App : Id[a] = id /\ layers[Binary(a)] = "live"
    <3>1. owned' = IF left THEN owned ELSE owned \ {id}
      BY <1>3, <2>5 DEF SReturn
    <3>2. left => \E a \in App : Id[a] = id /\ layers'[<<a, "binary">>] = "live"
      BY <2>1 DEF Binary
    <3>3. \A i \in owned : i # id => \E a \in App : Id[a] = i /\ layers'[<<a, "binary">>] = "live"
      BY <1>02, <2>1 DEF Keeps
    <3> HIDE DEF id, left
    <3>4. \A i \in owned' : i \in owned /\ (i # id \/ left)
      BY <3>1
    <3>5. \A i \in owned' : \E a \in App : Id[a] = i /\ layers'[<<a, "binary">>] = "live"
      BY <3>2, <3>3, <3>4
    <3>6. \A i \in owned' : \E a \in App : Keeps(a, i)'
      BY <2>1, <3>5 DEF Keeps, Open, Pulling
    <3> QED
      BY <2>1, <3>6 DEF OwnInv
  <2> QED
    BY <1>01, <2>3, <2>4, <2>5 DEF Job
<1>4. ASSUME NEW t \in Task, SBegin(t) PROVE OwnInv'
  <2>1. /\ job'.task.new = t.new /\ job'.task.kind = t.kind /\ layers' = layers /\ owned' = owned
        /\ job.at = "idle"
    BY <1>4 DEF SBegin
  <2>2. job'.at \in {"list", "undo", "done"} /\ (job'.at = "done" => job'.failed = TRUE)
        /\ (job'.at = "undo" => job'.task.kind = "uninstall")
    BY <1>4, <2>1 DEF SBegin
  <2>3. Replacing(job'.task) /\ job'.at \in Open =>
           \A m \in Module : layers'[<<job'.task.new, m>>] # "live"
    <3>1. Replacing(job'.task) /\ job'.at \in Open => job'.at = "list"
      BY <2>2 DEF Open, Pulling, Replacing
    <3> QED
      BY <1>0, <3>1 DEF NotYet
  <2>4. \A a \in App, id \in owned : Keeps(a, id) => Keeps(a, id)'
    BY <1>0, <2>1, <2>3 DEF Keeps
  <2> QED
    BY <1>02, <2>1, <2>2, <2>4 DEF OwnInv
<1>5. CASE SJob
  <2>1. /\ owned' = owned
        /\ job'.task.old = job.task.old /\ job'.task.new = job.task.new
        /\ job'.task.kind = job.task.kind /\ job.at # "idle" /\ job'.at # "idle"
        /\ \A a \in App, m \in Module : Id[a] # Id[job.task.new] =>
                 layers'[<<a, m>>] = layers[<<a, m>>]
    BY <1>5, JobStill, OthersUntouched DEF Still
  <2>2. /\ \A c \in job.task.old : c # job.task.new /\ Id[c] = Id[job.task.new]
        /\ job.task.kind \in {"module", "uninstall"} => job.task.old = {}
        /\ job.task.kind = "module" => "binary" \notin job.task.mods
        /\ job.task.kind = "update" => job.task.old # {}
    BY <2>1 DEF Shape, JobShape, GoodTask
  <2>3. \A id \in owned, a \in App : id # Id[job.task.new] /\ Keeps(a, id) => Keeps(a, id)'
    BY <1>0, <2>1 DEF Keeps
  <2>4. job.at # "done"
    BY <1>5 DEF SJob, SMove, SListFails, SNothing, SFirst, SIdle, SUnknown, SPost, SRestored,
       SDeps, SLists, SGiveUp, SUndo, SFetched, STooLate, SRestore, SBusy, SReplace, Pulling
  <2> DEFINE id == Id[job.task.new]
  <2>5. SUFFICES /\ (\E a \in App : Keeps(a, id)) =>
                       \/ \E a \in App : Keeps(a, id)'
                       \/ job'.at = "done" /\ job'.failed = FALSE /\ job.task.kind = "uninstall"
                 /\ job'.at \in {"replace", "post"} => layers'[<<job.task.new, "binary">>] = "live"
                 /\ job'.at = "done" /\ job'.failed = FALSE /\ job.task.kind # "uninstall" =>
                       \E a \in App : Keeps(a, id)'
    <3>1. \A i \in owned : \E a \in App : Keeps(a, i)
      BY <1>02, <2>4
    <3>2. \A i \in owned' : \/ \E a \in App : Keeps(a, i)'
                            \/ /\ job'.at = "done" /\ job'.failed = FALSE
                               /\ job'.task.kind = "uninstall" /\ i = Id[job'.task.new]
      BY <2>1, <2>3, <2>5, <3>1
    <3> QED
      BY <2>1, <2>5, <3>2 DEF OwnInv
  <2>6. job.at \in {"installed", "replace"} /\ layers[<<job.task.new, "binary">>] # "none" =>
           layers[<<job.task.new, "binary">>] = "live"
    <3> SUFFICES ASSUME job.at \in {"installed", "replace"},
                        layers[<<job.task.new, "binary">>] # "none"
                 PROVE  layers[<<job.task.new, "binary">>] = "live"
      OBVIOUS
    <3>1. PICK m \in Module : layers[<<job.task.new, m>>] = "live"
      BY <1>01 DEF LiveInv, InPlace
    <3>2. layers[<<job.task.new, "binary">>] \in Mark
      BY <1>0, <1>01, LayerFacts DEF Values
    <3>3. layers[<<job.task.new, "binary">>] # "deleted"
      BY <1>0, <1>01, <3>1 DEF Mixed
    <3> QED
      BY <3>2, <3>3 DEF Mark
  <2>7. CASE SPost
    <3>1. job'.at = "done" /\ layers' = layers /\ job.at = "post"
      BY <1>0, <2>7 DEF SPost, Moved
    <3>2. Keeps(job.task.new, id)'
      BY <1>03, <2>1, <3>1 DEF Keeps, Open, Pulling
    <3> QED
      BY <1>06, <3>1, <3>2
  <2>8. CASE \E a \in App : SBusy(a) \/ SReplace(a)
    <3>1. PICK a \in App : SBusy(a) \/ SReplace(a)
      BY <2>8
    <3>2. a \in job.task.old /\ job.at \in BeforeEnd
      BY <3>1 DEF SBusy, SReplace, BeforeEnd
    <3>3. Missing(a) = {}
      BY <1>0, <1>01, <3>2 DEF OldInv, Missing
    <3>4. job'.at = "post" /\ \E mark : Marks(a, job.oldMods, mark)
      BY <3>1, <3>3 DEF SBusy, SReplace
    <3>5. layers[<<job.task.new, "binary">>] = "live"
      BY <1>03, <2>6, <3>1 DEF SBusy, SReplace, Binary
    <3>6. layers'[<<job.task.new, "binary">>] = "live"
      BY <1>0, <1>01, <2>2, <3>2, <3>4, <3>5 DEF Marks
    <3>7. Keeps(job.task.new, id)'
      BY <2>1, <3>4, <3>6 DEF Keeps, Open, Pulling
    <3> QED
      BY <1>06, <3>4, <3>6, <3>7
  <2>9. CASE job.task.kind = "uninstall"
    <3>1. job.at \notin Ahead /\ (job.at = "restore" => job.then = "done" /\ job.failed = TRUE)
      BY <2>1, <2>2, <2>9 DEF Shape, JobShape
    <3>2. job.at # "restore" \/ job.lost = {}
      BY <2>9 DEF UninstallInv
    <3>3. SUndo \/ SRestored
      BY <1>5, <3>1, <3>2 DEF SJob, SMove, SListFails, SNothing, SFirst, SIdle, SUnknown,
       SPost, SDeps, SLists, SGiveUp, SFetched, STooLate, SBusy, SReplace, SRestore, Ahead, Pulling
    <3>4. \/ job'.at = "done" /\ job'.failed = FALSE
          \/ job'.at \in {"done", "restore"} /\ AppSame
      <4>1. CASE SUndo
        BY <2>9, <4>1, UninstallKeeps
      <4>2. CASE SRestored
        BY <3>1, <4>2 DEF SRestored, Moved, AppSame
      <4> QED
        BY <3>3, <4>1, <4>2
    <3>5. AppSame => \A a \in App : Keeps(a, id) => Keeps(a, id)'
      BY <1>0, <2>1, <2>9 DEF Keeps, AppSame, Replacing
    <3> QED
      BY <2>9, <3>4, <3>5
  <2>10. CASE /\ job.task.kind # "uninstall" /\ ~SPost
              /\ ~ \E a \in App : SBusy(a) \/ SReplace(a)
    <3>1. job.at \in Open
      BY <1>5, <2>10 DEF SJob, SMove, SListFails, SNothing, SFirst, SIdle, SUnknown, SRestored,
         SDeps, SLists, SGiveUp, SUndo, SFetched, STooLate, SRestore, Open, Pulling
    <3>2. ASSUME NEW a \in App, Keeps(a, id) PROVE Keeps(a, id)'
      <4>1. layers[<<a, "binary">>] = "live" /\ (Replacing(job.task) => a # job.task.new)
        BY <3>1, <3>2 DEF Keeps
      <4>2. CASE Replacing(job.task)
        <5>1. layers'[<<a, "binary">>] = layers[<<a, "binary">>]
          BY <1>0, <1>5, <2>10, <4>1, <4>2, OnlyNew
        <5> QED
          BY <2>1, <3>2, <4>1, <4>2, <5>1 DEF Keeps
      <4>3. CASE job.task.kind = "module"
        <5>1. layers'[<<a, "binary">>] = "live"
          <6>1. CASE job.at # "restore"
            BY <1>5, <4>1, <4>3, <6>1, ModuleJob
          <6>2. CASE job.at = "restore"
            <7>1. SRestored \/ \E m \in Module : SRestore(m)
              BY <1>5, <6>2 DEF SJob, SMove, SListFails, SNothing, SFirst, SIdle, SUnknown,
                 SPost, SDeps, SLists, SGiveUp, SFetched, STooLate, SBusy, SReplace, SUndo, Pulling
            <7> QED
              BY <1>0, <4>1, <7>1 DEF SRestored, Moved, SRestore, Marks, AppSame
          <6> QED
            BY <6>1, <6>2
        <5>2. ~ Replacing(job'.task)
          BY <2>1, <4>3 DEF Replacing
        <5> QED
          BY <2>1, <3>2, <5>1, <5>2 DEF Keeps
      <4> QED
        BY <1>01, <2>10, <4>2, <4>3 DEF Replacing
    <3>3. ASSUME job'.at \in {"replace", "post"}
          PROVE  layers'[<<job.task.new, "binary">>] = "live"
      <4>1. SFirst \/ SIdle
        BY <1>5, <2>10, <3>3 DEF SJob, SMove, SListFails, SNothing, SUnknown, SRestored,
           SDeps, SLists, SGiveUp, SUndo, SFetched, STooLate, SRestore, Open, Pulling,
           LoggedOrUndone, GaveUp, PulledBack, Values, Job
      <4> QED
        BY <2>6, <4>1 DEF SFirst, SIdle, Moved, Binary
    <3>4. ASSUME job'.at = "done", job'.failed = FALSE PROVE \E a \in App : Keeps(a, id)'
      <4>1. (SNothing \/ SUnknown) /\ job.task.kind = "update"
        <5>1. job.at # "restore"
          <6> SUFFICES ASSUME job.at = "restore" PROVE FALSE
            OBVIOUS
          <6>1. job.of = job.task.new
            BY <1>0 DEF OldInv
          <6>2. job.failed = TRUE
            BY <2>2, <6>1 DEF Shape, JobShape
          <6>3. SRestored \/ \E m \in Module : SRestore(m)
            BY <1>5 DEF SJob, SMove, SListFails, SNothing, SFirst, SIdle, SUnknown,
               SPost, SDeps, SLists, SGiveUp, SFetched, STooLate, SBusy, SReplace, SUndo, Pulling
          <6> QED
            BY <3>4, <6>2, <6>3 DEF SRestored, SRestore
        <5>2. job.at = "undo" => job.failed = TRUE
          BY <2>10 DEF Shape, JobShape
        <5>3. ~SUndo
          BY <3>4, <5>2 DEF SUndo, PulledBack
        <5> QED
          BY <1>5, <2>10, <3>4, <5>1, <5>3 DEF SJob, SMove, SListFails, SNothing, SFirst, SIdle,
             SUnknown, SRestored, SDeps, SLists, SGiveUp, SFetched, STooLate, SRestore,
             LoggedOrUndone, GaveUp
      <4>2. PICK c \in job.task.old : layers[<<c, "binary">>] = "live"
        BY <1>0, <2>2, <4>1 DEF OldInv, SNothing, SUnknown, BeforeEnd
      <4>3. Keeps(c, id)
        BY <2>2, <4>2 DEF Keeps
      <4> QED
        BY <1>01, <3>2, <4>3
    <3> QED
      BY <3>2, <3>3, <3>4
  <2> QED
    BY <2>7, <2>8, <2>9, <2>10
<1> QED
  BY <1>1, <1>2, <1>3, <1>4, <1>5 DEF SAny

-----------------------------------------------------------------------------
(* One version of an application is listed.                                *)

\* A version that is listed.
Live(a) == layers[<<a, "binary">>] = "live"

\* Both versions are listed between InstallRef() and removeAfterInstall().
Unfinished == job.at \in {"installed", "replace"} \cup Pulling /\ Replacing(job.task)

\* At any other time one is, and a job knows all others.
SingleInv ==
    met \cap {"net", "cancel", "hook", "busy", "twice"} = {} /\ ~ragged =>
        /\ \A a, b \in App : Id[a] = Id[b] /\ Live(a) /\ Live(b) =>
              a = b \/ (Unfinished /\ job.task.new \in {a, b})
        /\ \A i \in DOMAIN queue : Replacing(queue[i]) =>
              \A c \in App : Id[c] = Id[queue[i].new] /\ Live(c) =>
                 c \in queue[i].old \/ \E d \in queue[i].old : ~Live(d)
        /\ job.at \in BeforeEnd /\ Replacing(job.task) =>
              /\ \A c \in App : Id[c] = Id[job.task.new] /\ Live(c) /\ c # job.task.new =>
                    c \in job.task.old \/ "binary" \notin job.task.mods
              /\ Live(job.task.new) => "binary" \in job.task.mods

\* SingleInv holds at the start.
LEMMA InitSingle == Init => SingleInv
<1> SUFFICES ASSUME Init PROVE SingleInv
  OBVIOUS
<1>1. \A a \in App : ~Live(a)
  BY LayerFacts DEF Init, Live, Binary
<1>2. job.at = "idle" /\ DOMAIN queue = {}
  BY DEF Init, NoJob
<1> QED
  BY <1>1, <1>2 DEF SingleInv, BeforeEnd, Pulling

\* Without faults nothing is given up, and only Uninstall() comes to a rollback.
LEMMA NoRollback ==
    ASSUME Values, Shape, TwiceInv, LiveInv, OldInv, SJob, met \subseteq met', Smooth', ~ragged
    PROVE  /\ ~SGiveUp /\ \A m \in Module : ~STooLate(m)
           /\ job.at = "restore" => job.task.kind = "uninstall"
<1>1. Smooth /\ "twice" \notin met
  BY DEF Smooth
<1>2. ~SGiveUp
  <2> SUFFICES ASSUME SGiveUp PROVE FALSE
    OBVIOUS
  <2>1. job.at \in Pulling /\ \E m \in job.todo : layers[<<job.task.new, m>>] # "none"
    BY DEF SGiveUp, Smooth
  <2> QED
    BY <1>1, <2>1 DEF TwiceInv, NotYet
<1>3. \A m \in Module : ~STooLate(m)
  BY DEF STooLate, Smooth
<1>4. job.at = "restore" => job.task.kind = "uninstall"
  BY <1>1 DEF LiveInv, OldInv
<1> QED
  BY <1>2, <1>3, <1>4

\* SingleInv is preserved.
LEMMA SingleStep ==
    ASSUME Values, Shape, TwiceInv, LiveInv, RagInv, OldInv, UninstallInv, SingleInv, SAny,
           met \subseteq met', Values', Shape', TwiceInv', OldInv', ~ragged' => ~ragged
    PROVE  SingleInv'
<1> SUFFICES ASSUME met' \cap {"net", "cancel", "hook", "busy", "twice"} = {}, ~ragged'
             PROVE  SingleInv'
  BY DEF SingleInv
<1>0. /\ met \cap {"net", "cancel", "hook", "busy", "twice"} = {} /\ ~ragged
      /\ "twice" \notin met /\ "twice" \notin met'
      /\ Apart /\ NotYet /\ NotYet' /\ ~Mixed
      /\ "hook" \notin met' /\ "busy" \notin met' /\ "binary" \in Module
  BY ManagerAssumption DEF TwiceInv, RagInv
<1>00. Smooth'
  BY DEF Smooth
<1>01. /\ job \in Job /\ job.task.new \in App /\ job.task.mods \subseteq Module
       /\ job.task.old \subseteq App /\ job.oldMods \subseteq Module
       /\ job.task.kind \in {"install", "module", "update", "uninstall"}
  BY JobTyped DEF Job, Task
<1>02. \A a, b \in App : Id[a] = Id[b] /\ Live(a) /\ Live(b) =>
              a = b \/ (Unfinished /\ job.task.new \in {a, b})
  BY <1>0 DEF SingleInv
<1>03. \A i \in DOMAIN queue : Replacing(queue[i]) =>
          \A c \in App : Id[c] = Id[queue[i].new] /\ Live(c) =>
                 c \in queue[i].old \/ \E d \in queue[i].old : ~Live(d)
  BY <1>0 DEF SingleInv
<1>04. job.at \in BeforeEnd /\ Replacing(job.task) =>
          /\ \A c \in App : Id[c] = Id[job.task.new] /\ Live(c) /\ c # job.task.new =>
                    c \in job.task.old \/ "binary" \notin job.task.mods
          /\ Live(job.task.new) => "binary" \in job.task.mods
  BY <1>0 DEF SingleInv
<1>05. \A i \in DOMAIN queue : Replacing(queue[i]) =>
          \A c \in App : Id[c] = Id[queue[i].new] /\ Live(c)' =>
                 c \in queue[i].old \/ \E d \in queue[i].old : ~Live(d)'
  <2>1. \A i \in DOMAIN queue, c \in App : Id[c] = Id[queue[i].new] => (Live(c)' <=> Live(c))
    BY <1>0, QueuedUntouched DEF Live
  <2>2. \A i \in DOMAIN queue : \A d \in queue[i].old : d \in App /\ Id[d] = Id[queue[i].new]
    BY QueueTyped DEF Shape, QueueShape, GoodTask
  <2> QED
    BY <1>03, <2>1, <2>2
<1>1. CASE /\ job' = job /\ queue' = queue
           /\ \A a \in App : Live(a)' <=> Live(a)
  <2>1. Unfinished' <=> Unfinished
    BY <1>1 DEF Unfinished
  <2>2. \A c \in job.task.old : c \in App
    BY <1>01
  <2> QED
    BY <1>01, <1>02, <1>04, <1>05, <1>1, <2>1, <2>2 DEF SingleInv
<1>2. SRun \/ SPrune \/ SDeferred => /\ job' = job /\ queue' = queue
                                     /\ \A a \in App : Live(a)' <=> Live(a)
  BY <1>0 DEF SRun, SPrune, SDeferred, AppSame, Live
<1>3. ASSUME NEW t \in Task, SAdd(t) PROVE SingleInv'
  <2>1. /\ queue' = Append(queue, t) /\ queue \in Seq(Task) /\ job' = job /\ layers' = layers
        /\ Patient(Id[t.new]) /\ t.new \in App
    BY <1>0, <1>3 DEF SAdd, Values, Task
  <2>2. \A i \in DOMAIN queue' : (i \in DOMAIN queue /\ queue'[i] = queue[i]) \/ queue'[i] = t
    BY <2>1, AppendFacts
  <2>3. Unfinished => Id[job.task.new] # Id[t.new]
    BY <2>1 DEF Patient, Unfinished, Pulling
  <2>4. ASSUME Replacing(t), NEW c \in App, Id[c] = Id[t.new], Live(c)
        PROVE  c \in t.old \/ \E d \in t.old : ~Live(d)
    <3>1. \A d \in t.old : d \in App /\ Id[d] = Id[t.new]
      BY <1>3, AskedShape, <2>1 DEF GoodTask, Task
    <3>2. t.old # {}
      <4>1. CASE t.kind = "update"
        BY <1>3, <4>1 DEF SAdd
      <4>2. CASE t.kind = "install"
        <5>1. Listed(c)
          BY <1>0, <2>4 DEF Listed, Live
        <5>2. t.old = Latest(Id[c])
          BY <1>3, <2>4, <4>2 DEF SAdd
        <5> QED
          BY <5>1, <5>2, LatestFacts
      <4> QED
        BY <2>4, <4>1, <4>2 DEF Replacing
    <3>3. PICK d \in t.old : TRUE
      BY <3>2
    <3> QED
      BY <1>02, <2>3, <2>4, <3>1, <3>3
  <2>5. \A i \in DOMAIN queue' : Replacing(queue'[i]) =>
          \A c \in App : Id[c] = Id[queue'[i].new] /\ Live(c) =>
                 c \in queue'[i].old \/ \E d \in queue'[i].old : ~Live(d)
    BY <1>03, <2>2, <2>4
  <2>6. Unfinished' <=> Unfinished
    BY <2>1 DEF Unfinished
  <2>7. \A c : Live(c)' <=> Live(c)
    BY <2>1 DEF Live
  <2> QED
    BY <1>02, <1>04, <2>1, <2>5, <2>6, <2>7 DEF SingleInv
<1>4. ASSUME NEW t \in Task, SBegin(t) PROVE SingleInv'
  <2>1. /\ queue' = Tail(queue) /\ queue \in Seq(Task) /\ queue # <<>> /\ t = Head(queue)
        /\ job'.task.new = t.new /\ job'.task.kind = t.kind /\ job'.task.old = t.old
        /\ layers' = layers /\ job.at = "idle"
    BY <1>4 DEF SBegin, Values
  <2>2. /\ t = queue[1] /\ 1 \in DOMAIN queue
        /\ \A i \in DOMAIN queue' : i + 1 \in DOMAIN queue /\ queue'[i] = queue[i + 1]
    BY <2>1, TailFacts
  <2>3. \A i \in DOMAIN queue' : Replacing(queue'[i]) =>
          \A c \in App : Id[c] = Id[queue'[i].new] /\ Live(c)' =>
                 c \in queue'[i].old \/ \E d \in queue'[i].old : ~Live(d)'
    BY <1>05, <2>2
  <2>4. \A c : Live(c)' <=> Live(c)
    BY <2>1 DEF Live
  <2>5. \A a, b \in App : Id[a] = Id[b] /\ Live(a)' /\ Live(b)' => a = b
    BY <1>02, <2>1, <2>4 DEF Unfinished, Pulling
  <2>6. ASSUME job'.at \in BeforeEnd, Replacing(job'.task)
        PROVE  /\ \A c \in App : Id[c] = Id[t.new] /\ Live(c)' /\ c # t.new =>
                    c \in t.old \/ "binary" \notin job'.task.mods
               /\ ~Live(t.new)'
    <3>1. job'.at = "list" /\ Replacing(t)
      BY <1>4, <2>1, <2>6 DEF SBegin, BeforeEnd, Pulling, Replacing
    <3>2. ~Live(t.new)'
      BY <1>0, <2>1, <2>6, <3>1 DEF NotYet, Live
    <3>3. ASSUME NEW d \in t.old, ~Live(d) PROVE "binary" \notin job'.task.mods
      <4>1. layers'[<<d, "binary">>] = IF "binary" \in job'.oldMods THEN "live" ELSE "none"
        BY <1>0, <2>1, <2>6, <3>3 DEF OldInv
      <4>2. "binary" \notin job'.oldMods
        BY <2>1, <3>3, <4>1 DEF Live
      <4>3. job'.task.mods = job'.oldMods
        BY <1>4, <3>1, <3>3 DEF SBegin, Replacing
      <4> QED
        BY <4>2, <4>3
    <3> QED
      BY <1>03, <2>2, <2>4, <3>1, <3>2, <3>3
  <2> QED
    BY <2>1, <2>3, <2>5, <2>6 DEF SingleInv, Live
<1>5. CASE SReturn
  <2>1. job'.at = "idle" /\ layers' = layers /\ queue' = queue /\ job.at = "done"
    BY <1>5 DEF SReturn
  <2>2. \A c : Live(c)' <=> Live(c)
    BY <2>1 DEF Live
  <2>3. \A a, b \in App : Id[a] = Id[b] /\ Live(a)' /\ Live(b)' => a = b
    BY <1>02, <2>1, <2>2 DEF Unfinished, Pulling
  <2> QED
    BY <1>05, <2>1, <2>3 DEF SingleInv, BeforeEnd, Pulling
<1>6. CASE SJob
  <2>1. /\ queue' = queue
        /\ job'.task.old = job.task.old /\ job'.task.new = job.task.new
        /\ job'.task.kind = job.task.kind /\ job.at # "idle" /\ job'.at # "idle"
        /\ \A a \in App, m \in Module : Id[a] # Id[job.task.new] =>
                 layers'[<<a, m>>] = layers[<<a, m>>]
    BY <1>6, JobStill, OthersUntouched DEF Still
  <2>2. /\ \A c \in job.task.old : c # job.task.new /\ Id[c] = Id[job.task.new]
        /\ \A c, d \in job.task.old : c = d
        /\ job.task.kind \in {"module", "uninstall"} => job.task.old = {}
    BY <2>1 DEF Shape, JobShape, GoodTask
  <2>3. /\ ~SGiveUp /\ \A m \in Module : ~STooLate(m)
        /\ job.at = "restore" => job.task.kind = "uninstall"
    BY <1>0, <1>00, <1>6, NoRollback
  <2> DEFINE Alone == \A a, b \in App : Id[a] = Id[b] /\ Live(a)' /\ Live(b)' => a = b
  <2>4. ASSUME job'.at \notin BeforeEnd \/ ~Replacing(job.task), Alone PROVE SingleInv'
    <3>1. ~(job'.at \in BeforeEnd /\ Replacing(job'.task))
      BY <2>1, <2>4 DEF Replacing
    <3> QED
      BY <1>05, <2>1, <2>4, <3>1 DEF SingleInv
  <2>5. ASSUME ~Unfinished, \A a \in App : Live(a)' => Live(a) PROVE Alone
    BY <1>02, <2>5
  <2>6. CASE ~Replacing(job.task)
    <3>1. ~Unfinished
      BY <2>6 DEF Unfinished
    <3>2. \A a \in App : Live(a)' => Live(a)
      <4>1. CASE job.task.kind = "module"
        BY <1>6, <2>3, <4>1, ModuleJob DEF Live
      <4>2. CASE job.task.kind = "uninstall"
        <5>1. job.at \notin Ahead /\ (job.at = "restore" => job.lost = {})
          BY <2>1, <4>2 DEF Shape, JobShape, UninstallInv
        <5>2. SUndo \/ SRestored
          BY <1>6, <5>1 DEF SJob, SMove, SListFails, SNothing, SFirst, SIdle, SUnknown,
             SPost, SDeps, SLists, SGiveUp, SFetched, STooLate, SBusy, SReplace, SRestore, Ahead,
             Pulling
        <5>3. layers' = layers \/ \E some : Marks(job.task.new, some, "none")
          BY <5>2 DEF SUndo, SRestored, Moved
        <5> QED
          BY <1>0, <5>3 DEF Marks, Live
      <4> QED
        BY <1>01, <2>6, <4>1, <4>2 DEF Replacing
    <3> QED
      BY <2>4, <2>5, <2>6, <3>1, <3>2
  <2>7. ASSUME Replacing(job.task), job'.at \in BeforeEnd, job'.at # "list", job.at \in BeforeEnd,
               job'.task.mods \subseteq job.task.mods,
               "binary" \in job.task.mods /\ Live(job.task.new) => "binary" \in job'.task.mods,
               \A a \in App : a # job.task.new => (Live(a)' <=> Live(a)),
               Live(job.task.new)' => Live(job.task.new) \/ "binary" \in job'.task.mods
        PROVE  SingleInv'
    <3>1. Unfinished'
      BY <2>1, <2>7 DEF Unfinished, Replacing, BeforeEnd
    <3>2. \A a, b \in App : Id[a] = Id[b] /\ Live(a)' /\ Live(b)' =>
              a = b \/ (Unfinished' /\ job'.task.new \in {a, b})
      BY <1>01, <1>02, <2>1, <2>7, <3>1
    <3>3. \A c \in App : Id[c] = Id[job.task.new] /\ Live(c)' /\ c # job.task.new =>
                    c \in job.task.old \/ "binary" \notin job'.task.mods
      BY <1>04, <2>7
    <3>4. Live(job.task.new)' => "binary" \in job'.task.mods
      BY <1>04, <2>7
    <3> QED
      BY <1>05, <2>1, <3>2, <3>3, <3>4 DEF SingleInv
  <2>8. CASE Replacing(job.task)
    <3>0. \A a \in App : layers' = layers => (Live(a)' <=> Live(a))
      BY DEF Live
    <3>1. CASE SDeps
      <4>1. Kept /\ AppSame /\ job.at \in BeforeEnd /\ job'.at \in BeforeEnd /\ job'.at # "list"
        BY <3>1 DEF SDeps, BeforeEnd, Pulling
      <4>2. \A a \in App : Live(a)' <=> Live(a)
        BY <1>0, <4>1 DEF AppSame, Live
      <4>3. Live(job.task.new)' <=> Live(job.task.new)
        BY <1>0, <1>01, <2>1, <4>1 DEF AppSame, Live
      <4> QED
        BY <2>7, <2>8, <4>1, <4>2, <4>3 DEF Kept
    <3>2. CASE SLists
      <4> DEFINE mods == job.task.mods \cap Offers[job.task.new]
                 back == {m \in mods : layers[<<job.task.new, m>>] = "deleted"}
      <4>1. /\ job.at = "list" /\ job'.at \in {"installed", "fetch"} /\ job'.task.mods = mods
            /\ Marks(job.task.new, back, "live")
        BY <3>2, Zenon DEF SLists
      <4>2. ~Live(job.task.new)
        BY <1>0, <2>8, <4>1 DEF NotYet, Live
      <4>3. \A a \in App : a # job.task.new => (Live(a)' <=> Live(a))
        BY <1>0, <4>1 DEF Marks, Live
      <4>4. Live(job.task.new)' => "binary" \in back
        BY <1>0, <1>01, <2>1, <4>1, <4>2 DEF Marks, Live
      <4> QED
        BY <2>7, <2>8, <4>1, <4>2, <4>3, <4>4 DEF BeforeEnd, Pulling
    <3>3. ASSUME NEW m \in Module, SFetched(m) PROVE SingleInv'
      <4>1. /\ job.at = "fetch" /\ job'.at \in {"deplist", "installed", "fetch"}
            /\ job'.task.mods = job.task.mods /\ Marks(job.task.new, {m}, "live") /\ m \in job.task.mods
        BY <3>3 DEF SFetched, Shape, JobShape, Pulling
      <4>2. \A a \in App : a # job.task.new => (Live(a)' <=> Live(a))
        BY <1>0, <4>1 DEF Marks, Live
      <4>3. Live(job.task.new)' => Live(job.task.new) \/ "binary" \in job'.task.mods
        BY <1>0, <1>01, <2>1, <4>1 DEF Marks, Live
      <4> QED
        BY <2>7, <2>8, <4>1, <4>2, <4>3 DEF BeforeEnd, Pulling
    <3>4. CASE SIdle
      <4>1. job.at = "installed" /\ job'.at = "replace" /\ layers' = layers /\ Kept
        BY <3>4 DEF SIdle, Moved
      <4>2. Live(job.task.new)' <=> Live(job.task.new)
        BY <2>1, <4>1 DEF Live
      <4> QED
        BY <2>7, <2>8, <3>0, <4>1, <4>2 DEF BeforeEnd, Kept
    <3>5. ASSUME NEW o \in App, SBusy(o) \/ SReplace(o) PROVE SingleInv'
      <4>1. o \in job.task.old /\ job.at \in BeforeEnd
        BY <3>5 DEF SBusy, SReplace, BeforeEnd
      <4>2. \A m \in Module : layers[<<o, m>>] = IF m \in job.oldMods THEN "live" ELSE "none"
        BY <1>0, <4>1 DEF OldInv
      <4>3. Missing(o) = {}
        BY <1>01, <4>2 DEF Missing
      <4>4. job'.at = "post" /\ \E mark \in {"none", "deleted"} : Marks(o, job.oldMods, mark)
        BY <3>5, <4>3 DEF SBusy, SReplace
      <4>5. ~Live(o)'
        BY <1>0, <4>2, <4>4 DEF Marks, Live
      <4>6. \A a \in App : Live(a)' => Live(a) /\ a # o
        BY <1>0, <4>4, <4>5 DEF Marks, Live
      <4>7. ASSUME NEW c \in App, Id[c] = Id[job.task.new], Live(c)', Live(job.task.new),
                   c # job.task.new
            PROVE  FALSE
        BY <1>04, <2>2, <2>8, <4>1, <4>6, <4>7
      <4>8. Alone
        BY <1>02, <4>6, <4>7
      <4> QED
        BY <2>4, <4>4, <4>8 DEF BeforeEnd, Pulling
    <3>6. CASE SUndo
      <4>1. job.at = "undo" /\ job'.at \in {"done", "restore"}
            /\ \E some : Marks(job.task.new, some, "none")
        BY <3>6 DEF SUndo, PulledBack
      <4>2. \A a \in App : Live(a)' => Live(a)
        BY <1>0, <4>1 DEF Marks, Live
      <4>3. ~Unfinished
        BY <4>1 DEF Unfinished, Pulling
      <4> QED
        BY <2>4, <2>5, <4>1, <4>2, <4>3 DEF BeforeEnd, Pulling
    <3>7. CASE SListFails \/ SPost
      <4>1. job.at \in {"list", "post"} /\ job'.at = "done" /\ layers' = layers
        BY <1>0, <3>7 DEF SListFails, SPost, Moved
      <4>2. ~Unfinished
        BY <4>1 DEF Unfinished, Pulling
      <4> QED
        BY <2>4, <2>5, <3>0, <4>1, <4>2 DEF BeforeEnd, Pulling
    <3>8. CASE SNothing \/ SFirst
      <4>1. job.at = "installed" /\ job'.at \in {"done", "undo", "post"} /\ layers' = layers
        BY <3>8 DEF SNothing, SFirst, Moved, LoggedOrUndone
      <4>2. \/ ~Live(job.task.new)
            \/ job.task.old = {}
        BY <3>8 DEF SNothing, SFirst, Live, Binary
      <4>3. ASSUME NEW c \in App, Id[c] = Id[job.task.new], Live(c), Live(job.task.new),
                   c # job.task.new
            PROVE  FALSE
        BY <1>04, <2>8, <4>1, <4>2, <4>3 DEF BeforeEnd
      <4>4. Alone
        BY <1>02, <3>0, <4>1, <4>3
      <4> QED
        BY <2>4, <4>1, <4>4 DEF BeforeEnd, Pulling
    <3>9. ~SUnknown /\ ~SRestored /\ \A m \in Module : ~SRestore(m)
      BY <1>0, <2>3, <2>8 DEF SUnknown, SRestored, SRestore, Replacing
    <3> QED
      BY <1>6, <2>3, <3>1, <3>2, <3>3, <3>4, <3>5, <3>6, <3>7, <3>8, <3>9 DEF SJob, SMove
  <2> QED
    BY <2>6, <2>8
<1> QED
  BY <1>1, <1>2, <1>3, <1>4, <1>5, <1>6 DEF SAny

-----------------------------------------------------------------------------
(* The layer of a running application stays.                               *)

\* What runs is there, and a job that replaces a version knows it does not run.
RunInv ==
    met \cap {"net", "cancel", "hook", "busy", "race", "twice", "uninstall"} = {} /\ ~ragged =>
        /\ \A a \in running : layers[<<a, "binary">>] # "none"
        /\ job.at = "replace" => \A c \in job.task.old : c \notin running
        /\ job.at = "undo" => "binary" \notin job.task.mods

\* RunInv holds at the start.
LEMMA InitRun == Init => RunInv
  BY DEF Init, RunInv, NoJob

\* RunInv is preserved: what runs is hidden, and hidden layers that run stay.
LEMMA RunStep ==
    ASSUME Values, Shape, TwiceInv, LiveInv, RagInv, OldInv, BackInv, RunInv, SAny,
           met \subseteq met', Values', Shape', ~ragged' => ~ragged
    PROVE  RunInv'
<1> SUFFICES ASSUME met' \cap {"net", "cancel", "hook", "busy", "race", "twice", "uninstall"} = {},
                    ~ragged'
             PROVE  RunInv'
  BY DEF RunInv
<1>0. /\ met \cap {"net", "cancel", "hook", "busy", "race", "twice", "uninstall"} = {} /\ ~ragged
      /\ "twice" \notin met /\ "race" \notin met' /\ "hook" \notin met' /\ "busy" \notin met'
      /\ "binary" \in Module /\ met \cap {"hook", "uninstall", "twice"} = {}
  BY ManagerAssumption
<1>00. Smooth' /\ (job.at # "idle" => job.task.kind # "uninstall")
  BY <1>0 DEF Smooth, BackInv
<1>01. /\ job \in Job /\ job.task.new \in App /\ job.task.mods \subseteq Module
       /\ job.task.old \subseteq App /\ job.oldMods \subseteq Module /\ running \subseteq App
  BY JobTyped DEF Values
<1>02. /\ \A a \in running : layers[<<a, "binary">>] # "none"
       /\ job.at = "replace" => \A c \in job.task.old : c \notin running
       /\ job.at = "undo" => "binary" \notin job.task.mods
  BY <1>0 DEF RunInv
<1>1. ASSUME NEW t \in Task, SAdd(t) PROVE RunInv'
  BY <1>02, <1>1 DEF SAdd, RunInv
<1>2. ASSUME NEW t \in Task, SBegin(t) PROVE RunInv'
  <2>1. 1 \in DOMAIN queue /\ t = queue[1]
    BY <1>2, TailFacts DEF SBegin, Values
  <2>2. t.kind # "uninstall"
    BY <1>0, <2>1 DEF BackInv
  <2> QED
    BY <1>02, <1>2, <2>2 DEF SBegin, RunInv
<1>3. CASE SRun
  <2>1. CASE running' \subseteq running
    BY <1>02, <1>3, <2>1 DEF SRun, RunInv
  <2>2. ASSUME NEW a \in App, running' = running \cup {a}, layers[Binary(a)] = "live", Dispatching
        PROVE  RunInv'
    <3>1. job.at # "replace"
      BY <2>2 DEF Dispatching, Waiting, Pulling
    <3> QED
      BY <1>02, <1>3, <2>2, <3>1 DEF SRun, RunInv, Binary
  <2> QED
    BY <1>0, <1>3, <2>1, <2>2 DEF SRun
<1>4. CASE SPrune
  BY <1>0, <1>01, <1>02, <1>4 DEF SPrune, AppSame, RunInv
<1>5. CASE SDeferred
  BY <1>0, <1>01, <1>02, <1>5 DEF SDeferred, RunInv
<1>6. CASE SReturn
  BY <1>02, <1>6 DEF SReturn, RunInv
<1>7. CASE SJob
  <2>1. /\ running' = running
        /\ job'.task.old = job.task.old /\ job'.task.new = job.task.new
        /\ job'.task.kind = job.task.kind /\ job.at # "idle" /\ job'.at # "idle"
    BY <1>7, JobStill, OthersUntouched DEF Still
  <2>2. /\ ~SGiveUp /\ (\A m \in Module : ~STooLate(m)) /\ job.at # "restore"
    BY <1>0, <1>00, <1>7, <2>1, NoRollback
  <2>3. /\ \A c, d \in job.task.old : c = d
    BY <2>1 DEF Shape, JobShape, GoodTask
  <2>4. SUFFICES /\ \A a \in running : layers'[<<a, "binary">>] # "none"
                 /\ job'.at = "replace" => \A c \in job.task.old : c \notin running
                 /\ job'.at = "undo" => "binary" \notin job'.task.mods
    BY <2>1, <2>4 DEF RunInv
  <2>5. CASE SMove
    <3>1. layers' = layers /\ Kept
      BY <2>5 DEF SMove, SListFails, SNothing, SFirst, SIdle, SUnknown, SPost, SRestored, Moved
    <3>2. job'.at = "replace" => \A c \in job.task.old : c \notin running
      BY <1>01, <2>3, <2>5 DEF SMove, SListFails, SNothing, SFirst, SIdle, SUnknown, SPost,
         SRestored, LoggedOrUndone, Job
    <3>3. ASSUME job'.at = "undo" PROVE "binary" \notin job.task.mods
      <4>1. SNothing
        BY <1>0, <2>2, <2>5, <3>3 DEF SMove, SListFails, SFirst, SIdle, SUnknown, SPost, SRestored
      <4> QED
        BY <4>1 DEF SNothing, LiveInv, InPlace, Binary
    <3> QED
      BY <1>02, <3>1, <3>2, <3>3 DEF Kept
  <2>6. CASE SDeps
    BY <1>0, <1>01, <1>02, <2>6 DEF SDeps, AppSame
  <2>7. CASE SLists
    <3>1. \E back : Marks(job.task.new, back, "live")
      BY <2>7, Zenon DEF SLists
    <3>2. job'.at \in {"installed", "fetch"}
      BY <2>7 DEF SLists
    <3> QED
      BY <1>0, <1>01, <1>02, <3>1, <3>2 DEF Marks
  <2>8. ASSUME NEW m \in Module, SFetched(m)
        PROVE  (\A a \in running : layers'[<<a, "binary">>] # "none")
               /\ job'.at \notin {"replace", "undo"}
    BY <1>0, <1>01, <1>02, <2>8 DEF SFetched, Marks
  <2>9. ASSUME NEW o \in App, SBusy(o) \/ SReplace(o)
        PROVE  (\A a \in running : layers'[<<a, "binary">>] # "none") /\ job'.at = "post"
    <3>1. o \in job.task.old /\ job.at \in BeforeEnd
      BY <2>9 DEF SBusy, SReplace, BeforeEnd
    <3>2. Missing(o) = {}
      BY <1>0, <1>01, <3>1 DEF Missing, OldInv
    <3>3. job'.at = "post" /\ \/ Marks(o, job.oldMods, "deleted")
                              \/ o \notin running /\ Marks(o, job.oldMods, "none")
      BY <1>02, <2>9, <3>1, <3>2 DEF SBusy, SReplace
    <3> QED
      BY <1>0, <1>01, <1>02, <3>3 DEF Marks
  <2>10. CASE SUndo
    <3>1. ~Whole(job.task) /\ "binary" \notin job.task.mods /\ job'.at \in {"done", "restore"}
      BY <1>00, <1>02, <2>1, <2>10 DEF Whole, SUndo, PulledBack
    <3>2. \E some : some \subseteq job.task.mods /\ Marks(job.task.new, some, "none")
      BY <2>10, <3>1 DEF SUndo, Some
    <3> QED
      BY <1>0, <1>01, <1>02, <3>1, <3>2 DEF Marks
  <2>11. \A m \in Module : ~SRestore(m)
    BY <2>2 DEF SRestore
  <2> QED
    BY <1>7, <2>2, <2>5, <2>6, <2>7, <2>8, <2>9, <2>10, <2>11 DEF SJob
<1> QED
  BY <1>1, <1>2, <1>3, <1>4, <1>5, <1>6, <1>7 DEF SAny

-----------------------------------------------------------------------------
(* The dependencies of applications stay.                                  *)

\* The dependencies stay.
DepSame == \A d \in Dep : layers'[Binary(d)] = layers[Binary(d)]

\* A layer of an application is none of a dependency.
LEMMA AppDiffers ==
    \A d \in Dep, r \in App : \A ms : Binary(d) \in Layer /\ Binary(d) \notin {r} \X ms
  BY ManagerAssumption DEF Layer, Binary

\* Marking layers of applications leaves dependencies alone.
LEMMA WithApp ==
    ASSUME NEW r \in App, NEW ms, NEW mark, layers' = With({r} \X ms, mark)
    PROVE  DepSame
  BY AppDiffers DEF With, DepSame

\* So does the rollback of InstallRef().
LEMMA RolledBackDep ==
    ASSUME Values, NEW l, NEW d \in Dep
    PROVE  RolledBack(l)[Binary(d)] = l[Binary(d)]
<1>1. job.task.new \in App
  BY JobTyped
<1> QED
  BY <1>1, AppDiffers DEF RolledBack

\* What a dependency that could not be pulled takes with it.
Dropped == /\ job.at \in {"deplist", "depfetch"} /\ job'.at \in {"done", "undo"}
           /\ \A d \in Dep : /\ d \notin job.got /\ layers[Binary(d)] = "live" =>
                                  layers'[Binary(d)] = "live"
                             /\ layers[Binary(d)] # "deleted" => layers'[Binary(d)] # "deleted"

\* Which dependencies the rollback of pullDependency() removes.
LEMMA DropFacts ==
    ASSUME Values, DepListFails \/ DepFetchFails \/ DepFetchedTooLate
    PROVE  Dropped
<1> USE DEF At
<1>1. PICK l : /\ AfterFailure(l)
               /\ \/ l = WithoutDeps(layers)
                  \/ l = [WithoutDeps(layers) EXCEPT ![Binary(Head(job.deps))] = "live"]
  BY DEF DepListFails, DepFetchFails, DepFetchedTooLate
<1>2. job.at \in {"deplist", "depfetch"}
  BY DEF DepListFails, DepFetchFails, DepFetchedTooLate
<1>3. job'.at \in {"done", "undo"}
  BY <1>1, GiveUpFacts DEF AfterFailure, GaveUp
<1>4. \A d \in Dep : WithoutDeps(layers)[Binary(d)] =
                        IF d \in job.got THEN "none" ELSE layers[Binary(d)]
  BY LayerFacts DEF WithoutDeps, Binary
<1>5. WithoutDeps(layers) \in [Layer -> Mark]
  BY WithoutDepsType DEF Values
<1>6. \A d \in Dep : \/ l[Binary(d)] = WithoutDeps(layers)[Binary(d)]
                     \/ l[Binary(d)] = "live"
  BY <1>1, <1>5, LayerFacts
<1>7. \A d \in Dep : layers'[Binary(d)] = l[Binary(d)]
  BY <1>1, RolledBackDep DEF AfterFailure
<1> QED
  BY <1>2, <1>3, <1>4, <1>6, <1>7 DEF Dropped

\* What a job does to dependencies, unless it pulls one.
LEMMA JobDeps ==
    ASSUME Values, JobAction
    PROVE  DepSame \/ DepFetched \/ Dropped
<1>0. job.task.new \in App /\ job.of \in App
  BY JobTyped
<1>1. layers' = layers => DepSame
  BY DEF DepSame
<1>2. CASE \/ ListFails \/ InstalledNothing \/ InstalledFirst \/ (\E a \in App : OldIdle(a))
           \/ OldUnknown \/ PostInstall \/ Restored \/ DepPresent \/ DepMissing
  BY <1>1, <1>2 DEF ListFails, InstalledNothing, InstalledFirst, OldIdle, OldUnknown, PostInstall,
     Restored, DepPresent, DepMissing
<1>3. CASE DepFetched \/ DepListFails \/ DepFetchFails \/ DepFetchedTooLate
  BY <1>3, DropFacts
<1>4. CASE DepsTooLate \/ FetchFails
  <2>1. layers' = layers \/ layers' = RolledBack(layers)
    BY <1>4 DEF DepsTooLate, FetchFails, AfterFailure
  <2> QED
    BY <1>1, <2>1, RolledBackDep DEF DepSame
<1>5. CASE FetchedTooLate
  <2>1. PICK m : layers' = RolledBack(With({<<job.task.new, m>>}, "live"))
    BY <1>5 DEF FetchedTooLate
  <2>2. \A d \in Dep : Binary(d) # <<job.task.new, m>> /\ Binary(d) \in Layer
    BY <1>0, ManagerAssumption, LayerFacts DEF Binary
  <2>3. \A d \in Dep : With({<<job.task.new, m>>}, "live")[Binary(d)] = layers[Binary(d)]
    BY <2>2 DEF With
  <2> QED
    BY <2>1, <2>3, RolledBackDep DEF DepSame
<1>6. CASE Fetched \/ Restore
  <2>1. layers' = layers \/ \E r \in App : \E m : layers' = With({<<r, m>>}, "live")
    BY <1>0, <1>6 DEF Fetched, Restore
  <2>2. \A d \in Dep, r \in App : \A m : Binary(d) # <<r, m>> /\ Binary(d) \in Layer
    BY ManagerAssumption, LayerFacts DEF Binary
  <2> QED
    BY <1>1, <2>1, <2>2 DEF DepSame, With
<1>7. CASE ListAnswers
  <2>1. \E ms : layers' = With({job.task.new} \X ms, "live")
    BY <1>7, Zenon DEF ListAnswers
  <2> QED
    BY <1>0, <2>1, WithApp
<1>8. CASE UninstallRef
  <2>1. \E ms : layers' = With({job.task.new} \X ms, "none")
    BY <1>8, Zenon DEF UninstallRef
  <2> QED
    BY <1>0, <2>1, WithApp
<1>9. ASSUME NEW a \in App, OldBusy(a) \/ Replace(a) PROVE DepSame
  <2>1. \E ms, mark : layers' = With({a} \X ms, mark)
    BY <1>9, Zenon DEF OldBusy, Replace
  <2> QED
    BY <2>1, WithApp
<1> QED
  BY <1>2, <1>3, <1>4, <1>5, <1>6, <1>7, <1>8, <1>9 DEF JobAction

\* What any step does to dependencies.
LEMMA DepLayers ==
    ASSUME Values, Shape, Next
    PROVE  DepSame \/ Prune \/ DepFetched \/ Dropped
<1>1. CASE JobAction
  BY <1>1, JobDeps
<1>2. CASE DeferredUninstall
  BY <1>2, DeferredFacts DEF SDeferred, DepSame
<1>3. CASE \/ \E a \in App : Install(a) \/ Run(a) \/ Exit(a)
           \/ \E a \in App, m \in Module : InstallModule(a, m) \/ Uninstall(a, m)
           \/ \E a, b \in App : Update(a, b)
           \/ Begin \/ Return
  <2>1. layers' = layers
    BY <1>3, Zenon DEF Install, Run, Exit, InstallModule, Uninstall, Update, Begin, Return, Add
  <2> QED
    BY <2>1 DEF DepSame
<1> QED
  BY <1>1, <1>2, <1>3 DEF Next, Step, JobAction

\* An application that is there, in use, or being pulled back.
Uses(a) == \/ layers[<<a, "binary">>] # "none"
           \/ a \in running
           \/ job.at = "restore" /\ job.of = a /\ "binary" \in job.lost

\* Applications come into use with their dependencies.
LEMMA UsesStep ==
    ASSUME Values, Shape, SAny, Values', ~DepAction, ~Prune
    PROVE  /\ lame \subseteq lame'
           /\ \A a \in App : a \notin lame' /\ Uses(a)' => Uses(a)
<1> DEFINE Good == /\ lame \subseteq lame'
                   /\ \A a \in App : a \notin lame' /\ Uses(a)' => Uses(a)
<1>0. "binary" \in Module /\ job.task.new \in App /\ job \in Job /\ job.oldMods \subseteq Module
      /\ job.task.mods \subseteq Module
  BY JobTyped, ManagerAssumption
<1> USE DEF Uses
<1>1. ASSUME NEW t \in Task, SAdd(t) PROVE Good
  BY <1>1 DEF SAdd
<1>2. ASSUME NEW t \in Task, SBegin(t) PROVE Good
  BY <1>2 DEF SBegin
<1>3. CASE SRun
  BY <1>3 DEF SRun, Binary
<1>4. CASE SDeferred
  BY <1>0, <1>4 DEF SDeferred
<1>5. CASE SReturn
  BY <1>5 DEF SReturn
<1>6. CASE SMove
  <2>1. Moved /\ job'.at # "restore"
    BY <1>0, <1>6 DEF SMove, SListFails, SNothing, SFirst, SIdle, SUnknown, SPost, SRestored, Job,
       LoggedOrUndone
  <2> QED
    BY <2>1 DEF Moved, Rest
<1>7. CASE SLists
  <2> DEFINE mods == job.task.mods \cap Offers[job.task.new]
             back == {m \in mods : layers[<<job.task.new, m>>] = "deleted"}
  <2>1. Marks(job.task.new, back, "live") /\ Still /\ lame' = lame
    BY <1>7, Zenon DEF SLists
  <2>2. job'.at # "restore"
    BY <1>7 DEF SLists
  <2>3. \A a \in App : layers'[<<a, "binary">>] # "none" => layers[<<a, "binary">>] # "none"
    BY <1>0, <2>1 DEF Marks
  <2> QED
    BY <2>1, <2>2, <2>3 DEF Still
<1>8. CASE SGiveUp
  <2>1. job'.at # "restore" /\ Rest /\ lame' = lame
    BY <1>8 DEF SGiveUp, GaveUp
  <2>2. \A a \in App : layers'[<<a, "binary">>] # "none" => layers[<<a, "binary">>] # "none"
    BY <1>0, <1>8 DEF SGiveUp, AppSame, Rolls
  <2> QED
    BY <2>1, <2>2 DEF Rest
<1>9. CASE SUndo
  <2> DEFINE mods == IF Whole(job.task) THEN Modules(job.task.new) ELSE job.task.mods
             gone == {m \in mods : layers[<<job.task.new, m>>] = "none"}
  <2>1. lame' = lame /\ Still
    BY <1>9 DEF SUndo, Rest, PulledBack, Still
  <2>2. CASE gone = {}
    <3>1. job'.at # "restore" /\ Marks(job.task.new, mods, "none")
      BY <1>9, <2>2 DEF SUndo
    <3> QED
      BY <1>0, <2>1, <3>1 DEF Marks, Still
  <2>3. CASE gone # {}
    <3>1. PICK some \in SUBSET Module :
                         /\ Some(some, mods, gone) /\ Marks(job.task.new, some, "none")
                         /\ PulledBack(job.task.new, some, TRUE, "done")
      BY <1>9, <2>3 DEF SUndo
    <3>2. "binary" \in some => layers[<<job.task.new, "binary">>] # "none"
      BY <3>1 DEF Some
    <3>3. job'.of = job.task.new /\ job'.lost = some
      BY <3>1 DEF PulledBack
    <3>4. \A a \in App : layers'[<<a, "binary">>] # "none" => layers[<<a, "binary">>] # "none"
      BY <1>0, <3>1 DEF Marks
    <3> QED
      BY <2>1, <3>2, <3>3, <3>4 DEF Still
  <2> QED
    BY <2>2, <2>3
<1>10. ASSUME NEW m \in Module, SFetched(m) PROVE Good
  <2>1. job'.at # "restore" /\ Still /\ Marks(job.task.new, {m}, "live")
        /\ lame' = (IF m = "binary" THEN lame \cup {job.task.new} ELSE lame)
    BY <1>10 DEF SFetched
  <2> QED
    BY <1>0, <2>1 DEF Marks, Still
<1>11. ASSUME NEW m \in Module, STooLate(m) PROVE Good
  <2>1. job'.at # "restore" /\ Rest
        /\ lame' = (IF m = "binary" THEN lame \cup {job.task.new} ELSE lame)
    BY <1>11 DEF STooLate, GaveUp
  <2>2. \A a \in App : layers'[<<a, "binary">>] # "none" =>
             layers[<<a, "binary">>] # "none" \/ (a = job.task.new /\ m = "binary")
    BY <1>0, <1>11 DEF STooLate
  <2> QED
    BY <2>1, <2>2 DEF Rest
<1>12. ASSUME NEW m \in Module, SRestore(m) PROVE Good
  BY <1>0, <1>12 DEF SRestore, Marks, AppSame, Still
<1>13. ASSUME NEW o \in App, SBusy(o) PROVE Good
  <2>1. job'.at # "restore" /\ Rest /\ lame' = lame
    BY <1>13 DEF SBusy, LoggedOrUndone
  <2>2. \E some, mark : /\ \A m \in some : m \in job.oldMods /\ m \notin Missing(o)
                        /\ Marks(o, some, mark)
    BY <1>13 DEF SBusy, Some
  <2>3. \A a \in App : layers'[<<a, "binary">>] # "none" => layers[<<a, "binary">>] # "none"
    BY <1>0, <2>2 DEF Marks, Missing
  <2> QED
    BY <2>1, <2>3 DEF Rest
<1>14. ASSUME NEW o \in App, SReplace(o) PROVE Good
  <2>1. lame' = lame /\ Still
    BY <1>14 DEF SReplace, Rest, PulledBack, Still
  <2>2. \E some : Marks(o, some, "none")
    BY <1>14 DEF SReplace
  <2>3. \A a \in App : layers'[<<a, "binary">>] # "none" => layers[<<a, "binary">>] # "none"
    BY <1>0, <2>2 DEF Marks
  <2>4. job'.at = "restore" => job'.of = o /\ job'.lost \subseteq job.oldMods \ Missing(o)
    BY <1>14 DEF SReplace, PulledBack, Some
  <2>5. job'.at = "restore" /\ "binary" \in job'.lost => layers[<<o, "binary">>] # "none"
    BY <2>4 DEF Missing
  <2> QED
    BY <2>1, <2>3, <2>4, <2>5 DEF Still
<1>15. ~SDeps /\ ~SPrune
  BY DEF SDeps, SPrune
<1> QED
  BY <1>1, <1>2, <1>3, <1>4, <1>5, <1>6, <1>7, <1>8, <1>9, <1>10, <1>11, <1>12, <1>13, <1>14,
     <1>15 DEF SAny, SJob

\* The steps at which dependencies are pulled.
DepStates == {"deplist", "depfetch"}

\* The dependencies of the new version that were looked at are there.
Along(k) == /\ Len(job.deps) + k = Len(Needs[job.task.new])
            /\ \A i \in 1..Len(job.deps) : job.deps[i] = Needs[job.task.new][k + i]
            /\ \A h \in 1..k : layers[Binary(Needs[job.task.new][h])] = "live"

\* Applications that are not lame have their dependencies, and a rollback of
\* pullDependency() takes back only what none of them uses.
DepsInv ==
    /\ \A d \in Dep : layers[Binary(d)] # "deleted"
    /\ \A a \in App : a \notin lame /\ Uses(a) =>
          \A d \in ToSet(Needs[a]) : layers[Binary(d)] = "live"
    /\ job.at = "fetch" /\ "binary" \in job.todo => job.got = {}
    /\ job.at \in DepStates =>
          /\ job.task.new \in lame
          /\ \A a \in App : a \notin lame /\ Uses(a) =>
                \A d \in ToSet(Needs[a]) : d \notin job.got
          /\ \E k \in Nat : Along(k)
    /\ job.at = "depfetch" => layers[Binary(Head(job.deps))] = "none"

\* DepsInv holds at the start.
LEMMA InitDeps == Init => DepsInv
<1> SUFFICES ASSUME Init PROVE DepsInv
  OBVIOUS
<1>1. \A a \in App : ~Uses(a)
  BY LayerFacts DEF Init, Uses, NoJob, Binary
<1>2. \A d \in Dep : layers[Binary(d)] = "none"
  BY LayerFacts DEF Init
<1> QED
  BY <1>1, <1>2 DEF Init, DepsInv, NoJob, DepStates

\* The dependencies of an application are dependencies.
LEMMA NeedsTyped ==
    ASSUME NEW a \in App
    PROVE  /\ Needs[a] \in Seq(Dep) /\ \A d \in ToSet(Needs[a]) : d \in Dep
           /\ \A i \in 1..Len(Needs[a]) : Needs[a][i] \in ToSet(Needs[a])
           /\ \A d \in ToSet(Needs[a]) : \E i \in 1..Len(Needs[a]) : d = Needs[a][i]
<1>1. Needs[a] \in Seq(Dep)
  BY ManagerAssumption
<1> QED
  BY <1>1 DEF ToSet

\* A sequence that has elements and not two has one.
LEMMA NoMore == ASSUME NEW s \in Seq(Dep), s # <<>>, ~ (Len(s) > 1) PROVE Len(s) = 1
<1>1. Len(s) \in Nat /\ Len(s) >= 1
  OBVIOUS
<1>2. \A n \in Nat : n >= 1 /\ ~ (n > 1) => n = 1
  OBVIOUS
<1> QED
  BY <1>1, <1>2

\* The next dependency is there, or has been pulled.
LEMMA DepMoves ==
    ASSUME Values, DepPresent \/ DepFetched, job.deps # <<>>
    PROVE  /\ job'.deps = Tail(job.deps) /\ job'.at \in {"deplist", "installed", "fetch"}
           /\ job'.at = "deplist" => Len(job.deps) > 1
           /\ job'.at # "deplist" => Len(job.deps) = 1
           /\ lame' = IF Len(job.deps) = 1 THEN lame \ {job.task.new} ELSE lame
           /\ \/ /\ layers' = layers /\ layers[Binary(Head(job.deps))] # "none"
                 /\ job'.got = job.got
              \/ /\ layers' = With({Binary(Head(job.deps))}, "live") /\ job.at = "depfetch"
                 /\ job'.got = job.got \cup {Head(job.deps)}
<1>0. job \in Job /\ Head(job.deps) \in Dep /\ (~ (Len(job.deps) > 1) => Len(job.deps) = 1)
  BY NoMore DEF Values, Job
<1>1. CASE DepPresent
  <2>1. /\ job' = AfterDep(job) /\ layers' = layers /\ layers[Binary(Head(job.deps))] # "none"
        /\ Supplied
    BY <1>1 DEF DepPresent, Become, IsInstalled, Binary
  <2> QED
    BY <1>0, <2>1, AfterDepFacts DEF Supplied
<1>2. CASE DepFetched
  <2> DEFINE j == [job EXCEPT !.got = @ \cup {Head(job.deps)}]
  <2>1. /\ job' = AfterDep(j) /\ layers' = With({Binary(Head(job.deps))}, "live")
        /\ Supplied /\ job.at = "depfetch"
    BY <1>2 DEF DepFetched, Become, At
  <2>2. j \in Job /\ j.deps = job.deps /\ j.got = job.got \cup {Head(job.deps)}
    BY <1>0 DEF Job
  <2> HIDE DEF j
  <2> QED
    BY <1>0, <2>1, <2>2, AfterDepFacts DEF Supplied
<1> QED
  BY <1>1, <1>2

\* Which steps come to the dependencies.
LEMMA PullingSteps ==
    ASSUME Values, Shape, SAny, Values', ~DepAction, ~Prune, job'.at \in Pulling
    PROVE  \/ job' = job /\ DepSame
           \/ SLists
           \/ \E m \in Module : SFetched(m)
<1>1. CASE SJob
  BY <1>1 DEF SJob, SMove, SListFails, SNothing, SFirst, SIdle, SUnknown, SPost, SRestored,
       LoggedOrUndone, SGiveUp, GaveUp, SUndo, STooLate, SRestore, SBusy,
       SReplace, PulledBack, Values, Job, Pulling, SDeps
<1>2. CASE ~SJob
  BY <1>2 DEF SAny, SAdd, SBegin, SRun, SDeferred, SPrune, SReturn, Pulling, DepSame
<1> QED
  BY <1>1, <1>2

\* DepsInv is preserved while pullDependency() goes on.
LEMMA DepActionStep ==
    ASSUME Values, Shape, DepsInv, DepAction, SDeps, Shape', Values'
    PROVE  DepsInv'
<1>0. /\ job \in Job /\ job.task.new \in App /\ job.deps # <<>> /\ job.at \in DepStates
      /\ "binary" \in job.pulled /\ job.todo \cap (job.pulled \cup job.revived) = {}
      /\ job.deps \in Seq(Dep) /\ Head(job.deps) \in Dep /\ "binary" \in Module
  BY JobTyped, ManagerAssumption DEF Shape, JobShape, SDeps, DepStates, Pulling, Job
<1>1. Kept /\ Still /\ AppSame /\ job'.at # "restore" /\ job.at # "restore"
  BY <1>0 DEF SDeps, DepStates
<1>2. \A a \in App : Uses(a)' <=> Uses(a)
  BY <1>0, <1>1 DEF Uses, AppSame, Still
<1>3. job'.task = job.task /\ job'.todo = job.todo /\ "binary" \notin job'.todo
  BY <1>0, <1>1 DEF Kept
<1>4. CASE DepMissing
  <2>1. /\ layers' = layers /\ lame' = lame /\ Goto("depfetch")
        /\ layers[Binary(Head(job.deps))] = "none"
    BY <1>4 DEF DepMissing, IsInstalled, Binary
  <2>2. job'.at = "depfetch" /\ job'.deps = job.deps /\ job'.got = job.got
    BY <2>1, Goes DEF Rest, Steps
  <2>3. \A k \in Nat : Along(k) => Along(k)'
    BY <1>3, <2>1, <2>2 DEF Along
  <2> QED
    BY <1>0, <1>2, <1>3, <2>1, <2>2, <2>3 DEF DepsInv, DepStates
<1>5. CASE DepPresent \/ DepFetched
  <2> DEFINE hd == Head(job.deps)
             new == job.task.new
  <2>1. /\ job'.deps = Tail(job.deps) /\ job'.at \in {"deplist", "installed", "fetch"}
        /\ job'.at = "deplist" => Len(job.deps) > 1
        /\ lame' = (IF Len(job.deps) = 1 THEN lame \ {new} ELSE lame)
        /\ \/ layers' = layers /\ layers[Binary(hd)] # "none" /\ job'.got = job.got
           \/ /\ layers' = With({Binary(hd)}, "live") /\ job.at = "depfetch"
              /\ job'.got = job.got \cup {hd}
    BY <1>0, <1>5, DepMoves
  <2>2. layers[Binary(hd)] \in Mark /\ layers[Binary(hd)] # "deleted"
    BY <1>0, LayerFacts DEF Values, DepsInv
  <2>3. /\ layers'[Binary(hd)] = "live"
        /\ \A d \in Dep : layers[Binary(d)] = "live" => layers'[Binary(d)] = "live"
        /\ \A d \in Dep : layers'[Binary(d)] # "deleted"
    <3>1. CASE layers' = layers /\ layers[Binary(hd)] # "none"
      BY <2>2, <3>1 DEF Mark, DepsInv
    <3>2. CASE layers' = With({Binary(hd)}, "live")
      BY <1>0, <3>2, LayerFacts DEF With, DepsInv
    <3> QED
      BY <2>1, <3>1, <3>2
  <2>4. PICK k \in Nat : Along(k)
    BY <1>0 DEF DepsInv
  <2>5. Len(job.deps) \in Nat /\ Len(job.deps) >= 1 /\ hd = job.deps[1]
    BY <1>0
  <2>6. \A h \in 1..(k + 1) : layers'[Binary(Needs[new][h])] = "live"
    <3> TAKE h \in 1..(k + 1)
    <3>1. CASE h \in 1..k
      <4>1. h \in 1..Len(Needs[new])
        BY <2>4, <2>5, <3>1 DEF Along
      <4>2. Needs[new][h] \in Dep
        BY <1>0, <4>1, NeedsTyped
      <4> QED
        BY <2>3, <2>4, <3>1, <4>2 DEF Along
    <3>2. CASE h = k + 1
      <4>1. job.deps[1] = Needs[new][k + 1]
        BY <2>4, <2>5 DEF Along
      <4> QED
        BY <2>3, <2>5, <3>2, <4>1
    <3> QED
      BY <2>4, <3>1, <3>2
  <2>7. Len(job.deps) = 1 => \A d \in ToSet(Needs[new]) : layers'[Binary(d)] = "live"
    <3> SUFFICES ASSUME Len(job.deps) = 1, NEW d \in ToSet(Needs[new])
                 PROVE  layers'[Binary(d)] = "live"
      OBVIOUS
    <3>1. Len(Needs[new]) = k + 1
      BY <2>4 DEF Along
    <3>2. PICK i \in 1..Len(Needs[new]) : d = Needs[new][i]
      BY <1>0, NeedsTyped
    <3>3. i \in 1..(k + 1)
      BY <3>1
    <3> QED
      BY <2>6, <3>2, <3>3
  <2>8. \A a \in App : a \notin lame' /\ Uses(a)' =>
          \A d \in ToSet(Needs[a]) : layers'[Binary(d)] = "live"
    <3> SUFFICES ASSUME NEW a \in App, a \notin lame', Uses(a)', NEW d \in ToSet(Needs[a])
                 PROVE  layers'[Binary(d)] = "live"
      OBVIOUS
    <3>1. CASE a \notin lame
      <4>1. layers[Binary(d)] = "live" /\ d \in Dep
        BY <1>2, <3>1, NeedsTyped DEF DepsInv
      <4> QED
        BY <2>3, <4>1
    <3>2. CASE a \in lame
      <4>1. Len(job.deps) = 1 /\ a = new
        BY <2>1, <3>2
      <4> QED
        BY <2>7, <4>1
    <3> QED
      BY <3>1, <3>2
  <2>9. ASSUME job'.at \in DepStates
        PROVE  /\ new \in lame'
               /\ \A a \in App : a \notin lame' /\ Uses(a)' =>
                     \A d \in ToSet(Needs[a]) : d \notin job'.got
               /\ Along(k + 1)'
    <3>1. Len(job.deps) > 1 /\ lame' = lame
      <4>1. Len(job.deps) > 1
        BY <2>1, <2>9 DEF DepStates
      <4>2. Len(job.deps) # 1
        <5>1. \A p \in Nat : p > 1 => p # 1
          OBVIOUS
        <5> QED
          BY <2>5, <4>1, <5>1
      <4> QED
        BY <2>1, <4>1, <4>2
    <3>2. new \in lame'
      BY <1>0, <3>1 DEF DepsInv
    <3>3. ASSUME NEW a \in App, a \notin lame', Uses(a)', NEW d \in ToSet(Needs[a])
          PROVE  d \notin job'.got
      <4>1. a \notin lame /\ Uses(a)
        BY <1>2, <3>1, <3>3
      <4>2. d \notin job.got /\ layers[Binary(d)] = "live"
        BY <1>0, <3>3, <4>1 DEF DepsInv
      <4>3. job.at = "depfetch" => d # hd
        BY <4>2 DEF DepsInv
      <4> QED
        BY <2>1, <4>2, <4>3
    <3>4. Along(k + 1)'
      <4> DEFINE t == Tail(job.deps)
      <4>1. Len(t) = Len(job.deps) - 1 /\ \A i \in 1..Len(t) : t[i] = job.deps[i + 1] /\ i + 1 \in 1..Len(job.deps)
        BY <1>0
      <4>2. Len(Needs[new]) \in Nat /\ Len(job.deps) + k = Len(Needs[new])
        BY <1>0, <2>4, NeedsTyped DEF Along
      <4> HIDE DEF t
      <4>3. Len(t) + (k + 1) = Len(Needs[new])
        <5>1. \A p, q, r \in Nat : p >= 1 /\ p + k = r /\ q = p - 1 => q + (k + 1) = r
          OBVIOUS
        <5>2. Len(t) \in Nat
          BY <2>5, <4>1
        <5> QED
          BY <2>5, <4>1, <4>2, <5>1, <5>2
      <4>4. \A i \in 1..Len(t) : t[i] = Needs[new][(k + 1) + i]
        <5> TAKE i \in 1..Len(t)
        <5>1. t[i] = Needs[new][k + (i + 1)]
          BY <2>4, <4>1 DEF Along
        <5>2. k + (i + 1) = (k + 1) + i
          OBVIOUS
        <5> QED
          BY <5>1, <5>2
      <4> QED
        BY <1>3, <2>1, <2>6, <4>3, <4>4 DEF Along, t
    <3> QED
      BY <3>2, <3>3, <3>4
  <2>10. job'.at # "depfetch" /\ k + 1 \in Nat
    BY <2>1
  <2> QED
    BY <1>3, <2>3, <2>8, <2>9, <2>10 DEF DepsInv
<1> QED
  BY <1>4, <1>5 DEF DepAction

\* DepsInv is preserved by Prune(): it counts the dependencies of listed applications.
LEMMA PruneDeps ==
    ASSUME Values, Shape, LiveInv, DepsInv, Prune, SPrune, Values'
    PROVE  DepsInv'
<1> DEFINE listed == {a \in App : layers[Binary(a)] = "live"}
           unused == Dep \ UNION {Counted(a) : a \in listed}
<1>1. /\ layers' = With({Binary(d) : d \in unused}, "none") /\ UNCHANGED <<running, job>>
      /\ lame' = lame \cup {a \in App \ listed : ToSet(Needs[a]) \cap unused # {}}
  BY DEF Prune
<1>2. \A d \in Dep : layers'[Binary(d)] = IF d \in unused THEN "none" ELSE layers[Binary(d)]
  BY <1>1, LayerFacts DEF With, Binary
<1>3. \A a \in App : Uses(a)' <=> Uses(a)
  BY <1>1, ManagerAssumption DEF Uses, SPrune, AppSame
<1>4. ASSUME NEW a \in listed, NEW i \in 1..Len(Needs[a]),
             \A h \in 1..i : layers[Binary(Needs[a][h])] = "live"
      PROVE  layers'[Binary(Needs[a][i])] = "live"
  <2>1. Needs[a] \in Seq(Dep) /\ Needs[a][i] \in Dep /\ i \in DOMAIN Needs[a]
    BY NeedsTyped
  <2>2. Needs[a][i] \in Counted(a)
    BY <1>4, <2>1 DEF Counted
  <2>3. Needs[a][i] \notin unused
    BY <2>2
  <2>4. layers[Binary(Needs[a][i])] = "live"
    BY <1>4
  <2> QED
    BY <1>2, <2>1, <2>3, <2>4
<1>5. ASSUME NEW a \in App, a \notin lame', Uses(a)', NEW d \in ToSet(Needs[a])
      PROVE  layers'[Binary(d)] = "live"
  <2>1. a \notin lame /\ Uses(a) /\ d \in Dep
    BY <1>1, <1>3, <1>5, NeedsTyped
  <2>2. \A e \in ToSet(Needs[a]) : layers[Binary(e)] = "live"
    BY <2>1 DEF DepsInv
  <2>3. CASE a \in listed
    <3>1. PICK i \in 1..Len(Needs[a]) : d = Needs[a][i]
      BY <1>5, NeedsTyped
    <3>2. \A h \in 1..i : h \in 1..Len(Needs[a])
      BY NeedsTyped, <3>1
    <3>3. \A h \in 1..i : layers[Binary(Needs[a][h])] = "live"
      BY <2>2, <3>2, NeedsTyped
    <3> QED
      BY <1>4, <2>3, <3>1, <3>3
  <2>4. CASE a \notin listed
    <3>1. d \notin unused
      BY <1>1, <1>5, <2>4
    <3> QED
      BY <1>2, <2>1, <2>2, <3>1
  <2> QED
    BY <2>3, <2>4
<1>6. ASSUME job.at \in DepStates, NEW k \in Nat, Along(k) PROVE Along(k)'
  <2>1. job.task.new \in App /\ "binary" \in job.pulled /\ job.at \in Pulling /\ "binary" \in Module
    BY <1>6, JobTyped, ManagerAssumption DEF Shape, JobShape, DepStates, Pulling
  <2>2. job.task.new \in listed
    BY <2>1 DEF LiveInv, Binary
  <2>3. \A h \in 1..k : h \in 1..Len(Needs[job.task.new]) /\ \A g \in 1..h : g \in 1..k
    <3>1. Len(job.deps) \in Nat /\ Len(Needs[job.task.new]) \in Nat
          /\ Len(job.deps) + k = Len(Needs[job.task.new])
      BY <1>6, <2>1, JobTyped, NeedsTyped DEF Along, Job
    <3>2. \A p, q \in Nat : p + k = q => k <= q
      OBVIOUS
    <3>3. k <= Len(Needs[job.task.new])
      BY <3>1, <3>2
    <3> QED
      BY <3>1, <3>3
  <2>4. \A h \in 1..k : layers'[Binary(Needs[job.task.new][h])] = "live"
    BY <1>4, <1>6, <2>2, <2>3 DEF Along
  <2> QED
    BY <1>1, <1>6, <2>4 DEF Along
<1>7. ASSUME job.at = "depfetch" PROVE layers'[Binary(Head(job.deps))] = "none"
  <2>1. Head(job.deps) \in Dep
    BY <1>7, JobTyped DEF Shape, JobShape, Job
  <2> QED
    BY <1>2, <1>7, <2>1 DEF DepsInv
<1>8. \A d \in Dep : layers'[Binary(d)] # "deleted"
  BY <1>2 DEF DepsInv
<1>9. lame \subseteq lame'
  BY <1>1
<1> HIDE DEF listed, unused
<1> QED
  BY <1>1, <1>3, <1>5, <1>6, <1>7, <1>8, <1>9 DEF DepsInv

\* DepsInv is preserved.
LEMMA DepsStep ==
    ASSUME Values, Shape, LiveInv, DepsInv, SAny, Next, Values', Shape'
    PROVE  DepsInv'
<1>1. CASE DepAction
  <2>1. job.deps # <<>>
    BY <1>1 DEF DepAction, DepPresent, DepMissing, DepFetched, At, Shape, JobShape
  <2> QED
    BY <1>1, <2>1, DepsFacts, DepActionStep DEF DepAction
<1>2. CASE Prune
  BY <1>2, PruneFacts, PruneDeps
<1>3. CASE ~DepAction /\ ~Prune
  <2>1. /\ lame \subseteq lame'
        /\ \A a \in App : a \notin lame' /\ Uses(a)' => Uses(a)
    BY <1>3, UsesStep
  <2>2. DepSame \/ Dropped
    BY <1>3, DepLayers DEF DepAction
  <2>3. \A d \in Dep : layers'[Binary(d)] # "deleted"
    BY <2>2 DEF DepSame, Dropped, DepsInv
  <2>4. ASSUME NEW a \in App, a \notin lame', Uses(a)', NEW d \in ToSet(Needs[a])
        PROVE  layers'[Binary(d)] = "live"
    <3>1. a \notin lame /\ Uses(a) /\ d \in Dep
      BY <2>1, <2>4, NeedsTyped
    <3>2. layers[Binary(d)] = "live" /\ (job.at \in DepStates => d \notin job.got)
      BY <3>1 DEF DepsInv
    <3> QED
      BY <2>2, <3>1, <3>2 DEF DepSame, Dropped, DepStates
  <2>5. CASE job'.at \notin Pulling
    BY <2>3, <2>4, <2>5 DEF DepsInv, DepStates, Pulling
  <2>6. CASE job' = job /\ DepSame /\ job'.at \in Pulling
    <3>1. ASSUME NEW k \in Nat, Along(k), job.at \in DepStates PROVE Along(k)'
      <4>1. job.task.new \in App
        BY JobTyped
      <4>2. \A h \in 1..k : h \in 1..Len(Needs[job.task.new])
        <5>1. Len(job.deps) \in Nat /\ Len(Needs[job.task.new]) \in Nat
              /\ Len(job.deps) + k = Len(Needs[job.task.new])
          BY <3>1, <4>1, JobTyped, NeedsTyped DEF Along, Job
        <5>2. \A p, q \in Nat : p + k = q => k <= q
          OBVIOUS
        <5>3. k <= Len(Needs[job.task.new])
          BY <5>1, <5>2
        <5> QED
          BY <5>1, <5>3
      <4>3. \A h \in 1..k : Needs[job.task.new][h] \in Dep
        BY <4>1, <4>2, NeedsTyped
      <4>4. \A h \in 1..k : layers'[Binary(Needs[job.task.new][h])] = "live"
        BY <2>6, <3>1, <4>3 DEF Along, DepSame
      <4> QED
        BY <2>6, <3>1, <4>4 DEF Along
    <3>2. job.at = "depfetch" => layers'[Binary(Head(job.deps))] = "none"
      <4>1. job.at = "depfetch" => Head(job.deps) \in Dep
        BY JobTyped DEF Shape, JobShape, Job
      <4> QED
        BY <2>6, <4>1 DEF DepsInv, DepSame
    <3>3. job.at \in DepStates => \A a \in App : a \notin lame' /\ Uses(a)' =>
                \A d \in ToSet(Needs[a]) : d \notin job.got
      BY <2>1 DEF DepsInv
    <3>4. job.at \in DepStates => job.task.new \in lame' /\ \E k \in Nat : Along(k)
      BY <2>1 DEF DepsInv
    <3>5. job.at = "fetch" /\ "binary" \in job.todo => job.got = {}
      BY DEF DepsInv
    <3>6. job' = job
      BY <2>6
    <3>7. job.at \in DepStates => \E k \in Nat : Along(k)'
      BY <3>1, <3>4
    <3> QED
      BY <2>3, <2>4, <3>2, <3>3, <3>4, <3>5, <3>6, <3>7 DEF DepsInv
  <2>7. CASE SLists
    <3>1. job'.at \in {"installed", "fetch"} /\ job'.got = {}
      BY <2>7 DEF SLists, Shape, JobShape
    <3> QED
      BY <2>3, <2>4, <3>1 DEF DepsInv, DepStates
  <2>8. ASSUME NEW m \in Module, SFetched(m) PROVE DepsInv'
    <3>1. /\ job.at = "fetch" /\ m \in job.todo /\ ("binary" \in job.todo => m = "binary")
          /\ job'.todo = job.todo \ {m} /\ job'.task = job.task /\ job'.got = job.got
          /\ job'.at \in {"deplist", "installed", "fetch"}
      BY <2>8 DEF SFetched
    <3>2. "binary" \notin job'.todo
      BY <3>1
    <3>3. ASSUME job'.at \in DepStates
          PROVE  job'.task.new \in lame' /\ job'.got = {} /\ Along(0)'
      <4>1. m = "binary" /\ job'.deps = Needs[job.task.new] /\ lame' = lame \cup {job.task.new}
        BY <2>8, <3>3 DEF SFetched, DepStates
      <4>2. job.got = {}
        BY <3>1, <4>1 DEF DepsInv
      <4>3. Needs[job.task.new] \in Seq(Dep)
        BY JobTyped, NeedsTyped
      <4>4. Along(0)'
        BY <3>1, <4>1, <4>3 DEF Along
      <4> QED
        BY <3>1, <4>1, <4>2, <4>4
    <3> QED
      BY <2>3, <2>4, <3>1, <3>2, <3>3 DEF DepsInv
  <2> QED
    BY <1>3, <2>5, <2>6, <2>7, <2>8, PullingSteps
<1> QED
  BY <1>1, <1>2, <1>3

-----------------------------------------------------------------------------
(* No listed application lacks its dependencies.                           *)

\* Nothing went wrong.
Untroubled == met \cap {"net", "cancel", "hook"} = {}

\* The version whose dependencies are being pulled.
Pending(a) == a = job.task.new /\ job.at \in DepStates

\* What is lame is being supplied.
PrunedInv ==
    Untroubled /\ "prune" \notin met => \A a \in lame : Needs[a] = <<>> \/ Pending(a)

\* Without faults, pulling the dependencies goes on until all are there.
LEMMA DepsGoOn ==
    ASSUME Values, Shape, SAny, Values', met \subseteq met', Untroubled',
           job.at \in DepStates, ~DepAction, ~Prune
    PROVE  job' = job
<1>1. job.at \notin {"idle", "list", "fetch", "installed", "replace", "post", "undo", "restore", "done"}
  BY DEF DepStates
<1>2. ~SGiveUp
  <2> SUFFICES ASSUME SGiveUp PROVE FALSE
    OBVIOUS
  <2> QED
    BY <1>1 DEF SGiveUp, Untroubled
<1> QED
  BY <1>1, <1>2 DEF SAny, SJob, SMove, SListFails, SNothing, SFirst, SIdle, SUnknown, SPost,
     SRestored, SDeps, SLists, SUndo, SFetched, STooLate, SRestore, SBusy, SReplace, SAdd, SBegin,
     SRun, SDeferred, SPrune, SReturn

\* Only a job that has pulled the module binary makes an application lame.
LEMMA LameGrows ==
    ASSUME Values, Shape, SAny, Values', Untroubled', ~DepAction, ~Prune
    PROVE  \/ lame' = lame
           \/ SFetched("binary") /\ lame' = lame \cup {job.task.new}
<1>1. \A m \in Module : ~STooLate(m)
  BY DEF STooLate, Untroubled
<1>2. ASSUME NEW m \in Module, SFetched(m)
      PROVE  lame' = lame \/ (SFetched("binary") /\ lame' = lame \cup {job.task.new})
  <2>1. lame' = IF m = "binary" THEN lame \cup {job.task.new} ELSE lame
    BY <1>2 DEF SFetched
  <2> QED
    BY <1>2, <2>1
<1>3. \/ \E m \in Module : SFetched(m)
      \/ lame' = lame
  BY <1>1 DEF SAny, SJob, SMove, SListFails, SNothing, SFirst, SIdle, SUnknown, SPost,
     SRestored, Moved, SDeps, SLists, SUndo, SRestore, SBusy, SReplace, SAdd, SBegin,
     SRun, SDeferred, SPrune, SReturn, SGiveUp
<1> QED
  BY <1>2, <1>3

\* What becomes lame is being supplied, and what was supplied is not lame.
LEMMA LameStep ==
    ASSUME Values, Shape, SAny, Values', Shape', met \subseteq met', Untroubled', ~Prune
    PROVE  \A a \in lame' : Needs[a] = <<>> \/ Pending(a)' \/ (a \in lame /\ ~Pending(a))
<1> SUFFICES ASSUME NEW a \in lame', Needs[a] # <<>>, ~Pending(a)'
             PROVE  a \in lame /\ ~Pending(a)
  OBVIOUS
<1>1. CASE DepAction
  <2>1. job.deps # <<>> /\ job.at \in DepStates
    BY <1>1 DEF DepAction, DepPresent, DepMissing, DepFetched, At, Shape, JobShape, DepStates
  <2>2. SDeps
    BY <1>1, <2>1, DepsFacts DEF DepAction
  <2>3. job'.task.new = job.task.new
    BY <2>2 DEF SDeps, Kept
  <2>4. CASE DepMissing
    <3>1. lame' = lame /\ Goto("depfetch")
      BY <2>4 DEF DepMissing
    <3>2. job'.at = "depfetch"
      BY <3>1, Goes DEF Steps
    <3> QED
      BY <2>3, <3>1, <3>2 DEF Pending, DepStates
  <2>5. CASE DepPresent \/ DepFetched
    <3>1. /\ job'.at # "deplist" => Len(job.deps) = 1
          /\ lame' = IF Len(job.deps) = 1 THEN lame \ {job.task.new} ELSE lame
      BY <2>1, <2>5, DepMoves
    <3>2. CASE job'.at = "deplist"
      BY <2>3, <3>1, <3>2 DEF Pending, DepStates
    <3>3. CASE job'.at # "deplist"
      BY <3>1, <3>3 DEF Pending
    <3> QED
      BY <3>2, <3>3
  <2> QED
    BY <1>1, <2>4, <2>5 DEF DepAction
<1>2. CASE ~DepAction
  <2>1. CASE job.at \in DepStates
    <3>1. job' = job
      BY <1>2, <2>1, DepsGoOn
    <3>2. lame' = lame
      <4>1. ~SFetched("binary")
        BY <2>1 DEF SFetched, DepStates
      <4> QED
        BY <1>2, <4>1, LameGrows
    <3> QED
      BY <3>1, <3>2 DEF Pending
  <2>2. CASE job.at \notin DepStates
    <3>1. CASE lame' = lame
      BY <2>2, <3>1 DEF Pending
    <3>2. CASE SFetched("binary") /\ lame' = lame \cup {job.task.new}
      <4>1. job'.deps = Needs[job.task.new] /\ job'.task = job.task
            /\ (job'.deps # <<>> => job'.at = "deplist")
        BY <3>2 DEF SFetched
      <4> QED
        BY <2>2, <3>2, <4>1 DEF Pending, DepStates
    <3> QED
      BY <1>2, <3>1, <3>2, LameGrows
  <2> QED
    BY <2>1, <2>2
<1> QED
  BY <1>1, <1>2

\* PrunedInv holds at the start.
LEMMA InitPruned == Init => PrunedInv
  BY DEF Init, PrunedInv

\* PrunedInv is preserved.
LEMMA PrunedStep ==
    ASSUME Values, Shape, PrunedInv, SAny, Values', Shape', met \subseteq met'
    PROVE  PrunedInv'
<1> SUFFICES ASSUME Untroubled', "prune" \notin met' PROVE PrunedInv'
  BY DEF PrunedInv
<1>1. Untroubled /\ "prune" \notin met
  BY DEF Untroubled
<1>2. ~Prune
  BY DEF Prune
<1>3. \A a \in lame : Needs[a] = <<>> \/ Pending(a)
  BY <1>1 DEF PrunedInv
<1> QED
  BY <1>2, <1>3, LameStep DEF PrunedInv

\* Nothing goes wrong, and nobody asks for a lower version.
Plainly == met \cap {"net", "cancel", "hook", "twice", "uninstall", "downgrade"} = {}

\* A version in place of a hidden one that is above it.
Above(b, a) == Backs(b, a) /\ Version[b] > Version[a]

\* Versions only go up: what is hidden is below a listed version, is not installed again, and
\* cannot become listed without its dependencies.
OrderInv ==
    Plainly =>
        /\ ~ragged
        /\ \A a \in App : Hidden(a) => \E b \in App : Above(b, a)
        /\ \A i \in DOMAIN queue : Replacing(queue[i]) =>
              \A c \in App : Id[c] = Id[queue[i].new] /\ Listed(c) =>
                 Version[c] < Version[queue[i].new]
        /\ job.at \in Open /\ Replacing(job.task) =>
              /\ \A c \in App : Id[c] = Id[job.task.new] /\ Listed(c) /\ c # job.task.new =>
                    Version[c] < Version[job.task.new]
              /\ ~Hidden(job.task.new)
        /\ \A a \in lame : Live(a) => Needs[a] = <<>> \/ Pending(a)

\* OrderInv holds at the start.
LEMMA InitOrder == Init => OrderInv
<1> SUFFICES ASSUME Init PROVE OrderInv
  OBVIOUS
<1>1. \A a \in App, m \in Module : layers[<<a, m>>] = "none"
  BY LayerFacts DEF Init
<1>2. ~ragged
  BY Zenon DEF Init
<1>3. job.at = "idle" /\ DOMAIN queue = {} /\ lame = {}
  BY DEF Init, NoJob
<1>4. \A a \in App : ~Hidden(a)
  BY <1>1 DEF Hidden
<1>5. job.at \notin Open
  BY <1>3 DEF Pulling, Open
<1> QED
  BY <1>2, <1>3, <1>4, <1>5 DEF OrderInv

\* What a job does to the layers of applications when nothing goes wrong.
LEMMA PlainJob ==
    ASSUME Values, Shape, TwiceInv, LiveInv, RagInv, OldInv, BackInv, OrderInv, SJob,
           met \subseteq met', Values', Plainly'
    PROVE  /\ job.task.kind \in {"install", "update", "module"} /\ job.at # "restore"
           /\ \/ AppSame
              \/ /\ \E m \in Module : SFetched(m)
                 /\ ~Hidden(job.task.new)
              \/ SUndo
              \/ \E o \in App : /\ SBusy(o) \/ SReplace(o)
                                /\ o \in job.task.old /\ job.at \in BeforeEnd /\ job'.at = "post"
                                /\ \A m \in Module : layers[<<o, m>>] =
                                       IF m \in job.oldMods THEN "live" ELSE "none"
                                /\ \E mark \in {"none", "deleted"} : Marks(o, job.oldMods, mark)
<1>0. /\ Plainly /\ ~ragged /\ Smooth' /\ ~Mixed /\ "twice" \notin met /\ Apart /\ NotYet
      /\ met \cap {"hook", "uninstall", "twice"} = {}
  BY DEF Plainly, OrderInv, Smooth, RagInv, TwiceInv
<1>1. /\ job.task.new \in App /\ job \in Job /\ job.task.mods \subseteq Module
      /\ job.oldMods \subseteq Module
      /\ job.task.kind \in {"install", "update", "module", "uninstall"}
  BY JobTyped DEF Job, Task
<1>2. job.at # "idle" /\ job.task.kind # "uninstall"
  BY <1>0, OthersUntouched DEF BackInv
<1>3. /\ ~SGiveUp /\ (\A m \in Module : ~STooLate(m)) /\ job.at # "restore"
  BY <1>0, <1>2, NoRollback
<1>4. job.at \in {"list", "fetch"} => ~Hidden(job.task.new)
  <2>1. CASE Replacing(job.task)
    BY <1>0, <2>1 DEF OrderInv, Open, Pulling
  <2>2. CASE job.task.kind = "module"
    <3>1. job.at \in {"list", "fetch"} => \E m \in Module : layers[<<job.task.new, m>>] = "live"
      BY <1>0, <2>2 DEF BackInv, Open, Pulling
    <3> QED
      BY <1>0, <1>1, <3>1 DEF Mixed, Hidden
  <2> QED
    BY <1>1, <1>2, <2>1, <2>2 DEF Replacing
<1>5. CASE SMove
  <2>1. AppSame
    BY <1>5 DEF SMove, SListFails, SNothing, SFirst, SIdle, SUnknown, SPost,
       SRestored, Moved, AppSame
  <2> QED
    BY <1>1, <1>2, <1>3, <2>1
<1>6. CASE SDeps
  BY <1>1, <1>2, <1>3, <1>6 DEF SDeps
<1>7. CASE SLists
  <2> DEFINE mods == job.task.mods \cap Offers[job.task.new]
             back == {m \in mods : layers[<<job.task.new, m>>] = "deleted"}
  <2>1. Marks(job.task.new, back, "live") /\ job.at = "list"
    BY <1>7, Zenon DEF SLists
  <2>2. back = {}
    BY <1>1, <1>4, <2>1 DEF Hidden
  <2>3. AppSame
    BY <2>1, <2>2 DEF Marks, AppSame
  <2> QED
    BY <1>1, <1>2, <1>3, <2>3
<1>8. ASSUME NEW m \in Module, SFetched(m) PROVE job.at = "fetch"
  BY <1>8 DEF SFetched
<1>9. ASSUME NEW o \in App, SBusy(o) \/ SReplace(o)
      PROVE  /\ o \in job.task.old /\ job.at \in BeforeEnd /\ job'.at = "post"
             /\ \A m \in Module : layers[<<o, m>>] = IF m \in job.oldMods THEN "live" ELSE "none"
             /\ \E mark \in {"none", "deleted"} : Marks(o, job.oldMods, mark)
  <2>1. o \in job.task.old /\ job.at \in BeforeEnd
    BY <1>9 DEF SBusy, SReplace, BeforeEnd
  <2>2. \A m \in Module : layers[<<o, m>>] = IF m \in job.oldMods THEN "live" ELSE "none"
    BY <1>0, <2>1 DEF OldInv
  <2>3. Missing(o) = {}
    BY <1>1, <2>2 DEF Missing
  <2>4. job'.at = "post" /\ \E mark \in {"none", "deleted"} : Marks(o, job.oldMods, mark)
    BY <1>9, <2>3 DEF SBusy, SReplace
  <2> QED
    BY <2>1, <2>2, <2>4
<1>10. \A m \in Module : ~SRestore(m)
  BY <1>3 DEF SRestore
<1> QED
  BY <1>1, <1>2, <1>3, <1>4, <1>5, <1>6, <1>7, <1>8, <1>9, <1>10 DEF SJob

\* Then no version is hidden in part, and no hidden one comes back.
LEMMA PlainLayers ==
    ASSUME Values, Shape, TwiceInv, LiveInv, RagInv, OldInv, BackInv, OrderInv, SAny,
           met \subseteq met', Values', Plainly'
    PROVE  /\ ~Mixed'
           /\ \A a \in App : Live(a)' => Live(a) \/ (SFetched("binary") /\ a = job.task.new)
<1>0. Plainly /\ ~Mixed /\ "binary" \in Module /\ job.task.new \in App /\ job.oldMods \subseteq Module
  BY JobTyped, ManagerAssumption DEF Plainly, OrderInv, RagInv
<1> DEFINE NotMixed == \A a \in App, m, n \in Module :
                        ~ (layers'[<<a, m>>] = "live" /\ layers'[<<a, n>>] = "deleted")
           NoNew   == \A a \in App : layers'[<<a, "binary">>] = "live" =>
                        \/ layers[<<a, "binary">>] = "live"
                        \/ SFetched("binary") /\ a = job.task.new
<1> SUFFICES NotMixed /\ NoNew
  BY DEF Mixed, Live
<1>1. \A a \in App, m, n \in Module :
          ~ (layers[<<a, m>>] = "live" /\ layers[<<a, n>>] = "deleted")
  BY <1>0 DEF Mixed
<1>2. CASE AppSame
  BY <1>0, <1>1, <1>2 DEF AppSame
<1>3. CASE SDeferred
  BY <1>0, <1>1, <1>3 DEF SDeferred
<1>4. ASSUME NEW m \in Module, SFetched(m), ~Hidden(job.task.new) PROVE NotMixed /\ NoNew
  <2>1. Marks(job.task.new, {m}, "live")
    BY <1>4 DEF SFetched
  <2>2. \A n \in Module : layers[<<job.task.new, n>>] # "deleted"
    BY <1>4 DEF Hidden
  <2>3. NotMixed
    <3>1. \A n \in Module : layers'[<<job.task.new, n>>] # "deleted"
      BY <1>0, <2>1, <2>2 DEF Marks
    <3>2. \A a \in App, n \in Module : a # job.task.new => layers'[<<a, n>>] = layers[<<a, n>>]
      BY <2>1 DEF Marks
    <3>3. ASSUME NEW a \in App, NEW m1 \in Module, NEW n \in Module,
                 layers'[<<a, m1>>] = "live", layers'[<<a, n>>] = "deleted"
          PROVE  FALSE
      <4>1. a # job.task.new
        BY <3>1, <3>3
      <4> QED
        BY <1>1, <3>2, <3>3, <4>1
    <3> QED
      BY <3>3
  <2>4. NoNew
    BY <1>0, <1>4, <2>1 DEF Marks
  <2> QED
    BY <2>3, <2>4
<1>5. CASE SUndo
  <2>1. \E some : Marks(job.task.new, some, "none")
    BY <1>5 DEF SUndo
  <2>2. PICK some : Marks(job.task.new, some, "none")
    BY <2>1
  <2>3. \A a \in App, m \in Module : layers'[<<a, m>>] \in {"none", layers[<<a, m>>]}
    BY <2>2 DEF Marks
  <2> QED
    BY <1>0, <1>1, <2>3
<1>6. ASSUME NEW o \in App, NEW mark \in {"none", "deleted"}, Marks(o, job.oldMods, mark),
             \A m \in Module : layers[<<o, m>>] = IF m \in job.oldMods THEN "live" ELSE "none"
      PROVE  NotMixed /\ NoNew
  <2>1. \A m \in Module : layers'[<<o, m>>] \in {mark, "none"}
    BY <1>6 DEF Marks
  <2>2. \A a \in App, m \in Module : a # o => layers'[<<a, m>>] = layers[<<a, m>>]
    BY <1>6 DEF Marks
  <2>3. NotMixed
    BY ZenonT(60), <1>1, <2>1, <2>2
  <2>4. NoNew
    BY <1>0, <2>1, <2>2
  <2> QED
    BY <2>3, <2>4
<1>7. CASE SJob
  <2> HIDE DEF NotMixed, NoNew
  <2> QED
    BY <1>2, <1>4, <1>5, <1>6, <1>7, PlainJob
<1>8. CASE ~SJob
  <2>1. AppSame \/ SDeferred
    BY <1>8 DEF SAny, SAdd, SBegin, SRun, SPrune, SReturn, AppSame
  <2> QED
    BY <1>2, <1>3, <2>1
<1> QED
  BY <1>7, <1>8

\* What is lame and listed is being supplied.
LEMMA LameListed ==
    ASSUME Values, Shape, TwiceInv, LiveInv, RagInv, OldInv, BackInv, OrderInv, SAny,
           met \subseteq met', Values', Shape', Plainly'
    PROVE  \A a \in lame' : Live(a)' => Needs[a] = <<>> \/ Pending(a)'
<1> SUFFICES ASSUME NEW a \in lame', Live(a)', Needs[a] # <<>>
             PROVE  Pending(a)'
  OBVIOUS
<1>0. /\ Plainly /\ Untroubled' /\ a \in App
      /\ \A b \in lame : Live(b) => Needs[b] = <<>> \/ Pending(b)
  BY DEF Plainly, Untroubled, OrderInv, Values
<1>1. Live(a) \/ (SFetched("binary") /\ a = job.task.new)
  BY <1>0, PlainLayers
<1>2. CASE SFetched("binary") /\ a = job.task.new
  <2>1. job'.deps = Needs[job.task.new] /\ job'.task = job.task
        /\ (job'.deps # <<>> => job'.at = "deplist")
    BY <1>2 DEF SFetched
  <2> QED
    BY <1>2, <2>1 DEF Pending, DepStates
<1>3. CASE Live(a) /\ ~Prune
  <2>1. Pending(a)' \/ (a \in lame /\ ~Pending(a))
    BY <1>0, <1>3, LameStep
  <2> QED
    BY <1>0, <1>3, <2>1
<1>4. CASE Live(a) /\ Prune
  <2>1. a \in lame /\ job' = job
    BY <1>4 DEF Prune, Live, Binary
  <2> QED
    BY <1>0, <1>4, <2>1 DEF Pending
<1> QED
  BY <1>1, <1>2, <1>3, <1>4

\* A task that waits is for a version above the listed ones.
LEMMA OrderQueue ==
    ASSUME Values, Shape, TwiceInv, OrderInv, SAny, met \subseteq met', Values', Shape', Plainly'
    PROVE  \A i \in DOMAIN queue' : Replacing(queue'[i]) =>
              \A c \in App : Id[c] = Id[queue'[i].new] /\ Listed(c)' =>
                 Version[c] < Version[queue'[i].new]
<1>0. /\ Plainly /\ Apart /\ "downgrade" \notin met' /\ Version \in [App -> Nat]
      /\ \A i \in DOMAIN queue : Replacing(queue[i]) =>
            \A c \in App : Id[c] = Id[queue[i].new] /\ Listed(c) =>
               Version[c] < Version[queue[i].new]
  BY ManagerAssumption DEF Plainly, TwiceInv, OrderInv
<1>1. \A i \in DOMAIN queue, c \in App : Id[c] = Id[queue[i].new] /\ Listed(c)' => Listed(c)
  BY <1>0, QueuedUntouched DEF Listed
<1>2. CASE queue' = queue
  BY <1>0, <1>1, <1>2
<1>3. ASSUME NEW t \in Task, SBegin(t)
      PROVE  \A i \in DOMAIN queue' : i + 1 \in DOMAIN queue /\ queue'[i] = queue[i + 1]
  <2>1. queue' = Tail(queue) /\ queue \in Seq(Task) /\ queue # <<>>
    BY <1>3 DEF SBegin, Values
  <2> QED
    BY <2>1, TailFacts
<1>4. CASE \E t \in Task : SBegin(t)
  <2>1. \A i \in DOMAIN queue' : \E j \in DOMAIN queue : queue'[i] = queue[j]
    BY <1>3, <1>4
  <2> QED
    BY <1>0, <1>1, <2>1
<1>5. ASSUME NEW t \in Task, SAdd(t)
      PROVE  \A i \in DOMAIN queue' : Replacing(queue'[i]) =>
                \A c \in App : Id[c] = Id[queue'[i].new] /\ Listed(c)' =>
                   Version[c] < Version[queue'[i].new]
  <2>1. queue' = Append(queue, t) /\ queue \in Seq(Task) /\ layers' = layers /\ t.new \in App
    BY <1>5 DEF SAdd, Values, Task
  <2>2. \A i \in DOMAIN queue' : (i \in DOMAIN queue /\ queue'[i] = queue[i]) \/ queue'[i] = t
    BY <2>1, AppendFacts
  <2>3. ASSUME NEW c \in App, Id[c] = Id[t.new], Listed(c), Replacing(t)
        PROVE  Version[c] < Version[t.new]
    <3>1. \E b \in Latest(Id[t.new]) : Version[b] < Version[t.new]
      <4>1. CASE t.kind = "install"
        <5>1. t.old = Latest(Id[t.new]) /\ \A b \in t.old : Version[b] < Version[t.new]
          BY <1>0, <1>5, <4>1 DEF SAdd
        <5>2. Latest(Id[c]) # {}
          BY <2>3, LatestFacts
        <5> QED
          BY <2>3, <5>1, <5>2
      <4>2. CASE t.kind = "update"
        BY <1>5, <4>2 DEF SAdd
      <4> QED
        BY <2>3, <4>1, <4>2 DEF Replacing
    <3>2. PICK b \in Latest(Id[t.new]) : Version[b] < Version[t.new]
      BY <3>1
    <3>3. Version[c] <= Version[b] /\ b \in App
      BY <2>1, <2>3, LatestFacts
    <3> QED
      BY <1>0, <2>1, <3>2, <3>3
  <2>4. \A c \in App : Listed(c)' <=> Listed(c)
    BY <2>1 DEF Listed
  <2> QED
    BY <1>0, <2>2, <2>3, <2>4
<1>6. SRun \/ SDeferred \/ SPrune \/ SReturn \/ SJob => queue' = queue
  BY JobStill DEF SRun, SDeferred, SPrune, SReturn, Still
<1> QED
  BY <1>2, <1>4, <1>5, <1>6 DEF SAny

\* A job of an optional module replaces nothing, and its application stays listed.
LEMMA PlainModule ==
    ASSUME Values, Shape, TwiceInv, LiveInv, RagInv, OldInv, BackInv, OrderInv, SJob,
           met \subseteq met', Values', Plainly', ~SPost, job.task.kind = "module"
    PROVE  Listed(job.task.new)'
<1>1. met \cap {"hook", "uninstall", "twice"} = {} /\ ~ragged
  BY DEF Plainly, OrderInv
<1>2. job.at \in Open
  BY DEF SJob, SMove, SListFails, SNothing, SFirst, SIdle, SUnknown, SRestored,
     SDeps, SLists, SGiveUp, SUndo, SFetched, STooLate, SRestore, SBusy, SReplace, Open, Pulling
<1>3. PICK m \in Module : m \notin job.task.mods /\ layers[<<job.task.new, m>>] = "live"
  BY <1>1, <1>2 DEF BackInv
<1>4. layers'[<<job.task.new, m>>] = "live"
  BY <1>3, ModuleKeeps
<1>5. job'.task.new = job.task.new
  BY OthersUntouched
<1> QED
  BY <1>4, <1>5 DEF Listed

\* When one version replaces another it is above it.
LEMMA OrderReplaced ==
    ASSUME Values, Shape, TwiceInv, LiveInv, RagInv, OldInv, BackInv, OrderInv, SJob,
           met \subseteq met', Values', Plainly', NEW o \in App, SBusy(o) \/ SReplace(o)
    PROVE  \A a \in App : Hidden(a)' => \E b \in App : Above(b, a)'
<1>0. /\ Plainly /\ ~ragged /\ Version \in [App -> Nat] /\ "twice" \notin met
      /\ job.task.new \in App /\ job.oldMods \subseteq Module
      /\ job'.task.new = job.task.new /\ job.at # "idle"
      /\ \A c \in job.task.old : c # job.task.new /\ Id[c] = Id[job.task.new]
  BY JobTyped, OthersUntouched, ManagerAssumption DEF Plainly, OrderInv, Shape, JobShape, GoodTask
<1>1. /\ o \in job.task.old /\ job.at \in BeforeEnd /\ job.at \in {"installed", "replace"}
  BY DEF SBusy, SReplace, BeforeEnd
<1>2. \A m \in Module : layers[<<o, m>>] = IF m \in job.oldMods THEN "live" ELSE "none"
  BY <1>0, <1>1 DEF OldInv
<1>3. Missing(o) = {}
  BY <1>0, <1>2 DEF Missing
<1>4. job'.at = "post" /\ \E mark \in {"none", "deleted"} : Marks(o, job.oldMods, mark)
  BY <1>3 DEF SBusy, SReplace
<1>5. PICK mark \in {"none", "deleted"} : Marks(o, job.oldMods, mark)
  BY <1>4
<1>6. \A c \in App, m \in Module : c # o => layers'[<<c, m>>] = layers[<<c, m>>]
  BY <1>5 DEF Marks
<1>7. PICK m \in Module : layers[<<job.task.new, m>>] = "live"
  BY <1>0, <1>1, JobTyped DEF LiveInv, InPlace
<1>8. Listed(job.task.new)'
  <2>1. layers'[<<job.task.new, m>>] = "live"
    BY <1>0, <1>1, <1>6, <1>7
  <2> QED
    BY <1>0, <2>1 DEF Listed
<1>9. Replacing(job.task) /\ job.at \in Open
  <2>1. job.task.kind # "module" /\ job.task.kind # "uninstall"
    BY <1>0, <1>1 DEF Shape, JobShape, GoodTask
  <2>2. job.task.kind \in {"install", "update", "module", "uninstall"}
    BY JobTyped DEF Job, Task
  <2> QED
    BY <1>1, <2>1, <2>2 DEF Replacing, Open
<1>10. Listed(o) => Version[o] < Version[job.task.new]
  BY <1>0, <1>1, <1>9 DEF OrderInv
<1>11. ASSUME NEW a \in App, Id[a] = Id[job.task.new], Version[job.task.new] > Version[a]
       PROVE  Above(job.task.new, a)'
  BY <1>0, <1>4, <1>8, <1>11 DEF Above, Backs, Open, Pulling
<1>12. ASSUME Hidden(o)' PROVE Listed(o)
  <2>1. PICK n \in Module : layers'[<<o, n>>] = "deleted"
    BY <1>12 DEF Hidden
  <2>2. n \in job.oldMods
    BY <1>2, <1>5, <2>1 DEF Marks
  <2> QED
    BY <1>2, <2>1, <2>2 DEF Listed
<1>13. ASSUME NEW a \in App, Hidden(a)', a # o PROVE \E b \in App : Above(b, a)'
  <2>1. Hidden(a)
    BY <1>6, <1>13 DEF Hidden
  <2>2. PICK b \in App : Above(b, a)
    BY <1>0, <2>1 DEF OrderInv
  <2>3. CASE b = o
    <3>1. Listed(o) /\ Id[a] = Id[job.task.new] /\ Version[o] > Version[a]
      BY <1>0, <1>1, <2>2, <2>3 DEF Above, Backs
    <3>2. Version[job.task.new] > Version[a]
      BY <1>0, <1>10, <3>1
    <3> QED
      BY <1>0, <1>11, <3>1, <3>2
  <2>4. CASE b # o
    <3>1. Id[b] = Id[a] /\ Version[b] > Version[a] /\ Listed(b)
      BY <2>2 DEF Above, Backs
    <3>2. Listed(b)'
      BY <1>6, <2>4, <3>1 DEF Listed
    <3> QED
      BY <1>4, <3>1, <3>2 DEF Above, Backs, Open, Pulling
  <2> QED
    BY <2>3, <2>4
<1>14. ASSUME Hidden(o)' PROVE \E b \in App : Above(b, o)'
  <2>1. Version[job.task.new] > Version[o] /\ Id[o] = Id[job.task.new]
    BY <1>0, <1>1, <1>10, <1>12, <1>14
  <2> QED
    BY <1>0, <1>11, <2>1
<1> QED
  BY <1>13, <1>14

\* Every other step of a job only hides what was hidden, and only lists what is new.
LEMMA PlainOther ==
    ASSUME Values, Shape, TwiceInv, LiveInv, RagInv, OldInv, BackInv, OrderInv, SJob,
           met \subseteq met', Values', Plainly', ~ \E o \in App : SBusy(o) \/ SReplace(o)
    PROVE  /\ \A a \in App : Hidden(a)' => Hidden(a)
           /\ \A b \in App : b # job.task.new => (Listed(b)' <=> Listed(b))
<1>0. job.task.new \in App /\ ~ragged /\ "twice" \notin met
  BY JobTyped DEF Plainly, OrderInv
<1>1. \A b \in App, m \in Module : b # job.task.new => layers'[<<b, m>>] = layers[<<b, m>>]
  BY <1>0, OnlyNew
<1>2. \A m \in Module : layers'[<<job.task.new, m>>] = "deleted" =>
                        layers[<<job.task.new, m>>] = "deleted"
  <2>1. \/ AppSame \/ (\E m \in Module : SFetched(m)) \/ SUndo
    BY PlainJob
  <2>2. CASE AppSame
    BY <1>0, <2>2 DEF AppSame
  <2>3. ASSUME NEW m \in Module, SFetched(m)
        PROVE  \A n \in Module : layers'[<<job.task.new, n>>] = "deleted" =>
                                 layers[<<job.task.new, n>>] = "deleted"
    BY <1>0, <2>3 DEF SFetched, Marks
  <2>4. CASE SUndo
    <3>1. \E some : Marks(job.task.new, some, "none")
      BY <2>4 DEF SUndo
    <3> QED
      BY <1>0, <3>1 DEF Marks
  <2> QED
    BY <2>1, <2>2, <2>3, <2>4
<1>3. \A a \in App : Hidden(a)' => Hidden(a)
  BY <1>1, <1>2 DEF Hidden
<1>4. \A b \in App : b # job.task.new => (Listed(b)' <=> Listed(b))
  BY <1>1 DEF Listed
<1> QED
  BY <1>3, <1>4

\* A hidden version has a listed one above it.
LEMMA OrderHidden ==
    ASSUME Values, Shape, TwiceInv, LiveInv, RagInv, OldInv, BackInv, OrderInv, SAny,
           met \subseteq met', Values', Shape', TwiceInv', Plainly'
    PROVE  \A a \in App : Hidden(a)' => \E b \in App : Above(b, a)'
<1>0. /\ Plainly /\ ~ragged /\ NotYet' /\ job.task.new \in App
      /\ \A a \in App : Hidden(a) => \E b \in App : Above(b, a)
  BY JobTyped DEF Plainly, OrderInv, TwiceInv
<1>1. CASE job' = job /\ layers' = layers
  <2>1. \A a \in App : Hidden(a)' => Hidden(a)
    BY <1>1 DEF Hidden
  <2>2. \A a, b \in App : Above(b, a) => Above(b, a)'
    BY <1>1 DEF Above, Backs, Listed
  <2> QED
    BY <1>0, <2>1, <2>2
<1>2. CASE SPrune
  <2>1. \A a \in App : Hidden(a)' => Hidden(a)
    BY <1>2 DEF SPrune, AppSame, Hidden
  <2>2. \A a \in App : Listed(a) => Listed(a)'
    BY <1>2 DEF SPrune, AppSame, Listed
  <2>3. \A a, b \in App : Above(b, a) => Above(b, a)'
    BY <1>2, <2>2 DEF SPrune, Above, Backs
  <2> QED
    BY <1>0, <2>1, <2>3
<1>3. CASE SDeferred
  <2>1. \A a \in App : Hidden(a)' => Hidden(a)
    BY <1>3 DEF SDeferred, Hidden
  <2>2. \A a \in App : Listed(a) => Listed(a)'
    BY <1>3 DEF SDeferred, Listed
  <2>3. \A a, b \in App : Above(b, a) => Above(b, a)'
    BY <1>3, <2>2 DEF SDeferred, Above, Backs
  <2> QED
    BY <1>0, <2>1, <2>3
<1>4. CASE SReturn
  <2>1. job'.at = "idle" /\ layers' = layers
    BY <1>4 DEF SReturn
  <2>2. \A a \in App : Hidden(a)' => Hidden(a)
    BY <2>1 DEF Hidden
  <2>3. \A a, b \in App : Above(b, a) => Above(b, a)'
    BY <2>1 DEF Above, Backs, Listed, Open, Pulling
  <2> QED
    BY <1>0, <2>2, <2>3
<1>5. ASSUME NEW t \in Task, SBegin(t)
      PROVE  \A a \in App : Hidden(a)' => \E b \in App : Above(b, a)'
  <2>1. layers' = layers
    BY <1>5 DEF SBegin
  <2>2. \A a \in App : Hidden(a)' => Hidden(a)
    BY <2>1 DEF Hidden
  <2>3. Replacing(job'.task) /\ job'.at \in Open =>
           \A m \in Module : layers'[<<job'.task.new, m>>] # "live"
    <3>1. Replacing(job'.task) /\ job'.at \in Open => job'.at = "list"
      BY <1>5 DEF SBegin, Open, Pulling, Replacing
    <3> QED
      BY <1>0, <3>1 DEF NotYet
  <2>4. ASSUME NEW a \in App, NEW b \in App, Above(b, a) PROVE Above(b, a)'
    <3>1. Id[b] = Id[a] /\ Version[b] > Version[a] /\ \E m \in Module : layers'[<<b, m>>] = "live"
      BY <2>1, <2>4 DEF Above, Backs, Listed
    <3>2. Replacing(job'.task) /\ job'.at \in Open => b # job'.task.new
      BY <2>3, <3>1
    <3> QED
      BY <3>1, <3>2 DEF Above, Backs, Listed
  <2> QED
    BY <1>0, <2>2, <2>4
<1>6. CASE SJob /\ \E o \in App : SBusy(o) \/ SReplace(o)
  BY <1>6, OrderReplaced
<1>7. CASE SJob /\ ~ \E o \in App : SBusy(o) \/ SReplace(o)
  <2>1. /\ \A a \in App : Hidden(a)' => Hidden(a)
        /\ \A b \in App : b # job.task.new => (Listed(b)' <=> Listed(b))
    BY <1>7, PlainOther
  <2>2. /\ job'.task.new = job.task.new /\ job'.task.kind = job.task.kind
        /\ job.task.kind \in {"install", "update", "module"}
    BY <1>7, OthersUntouched, PlainJob
  <2>3. ASSUME NEW a \in App, NEW b \in App, Above(b, a) PROVE Above(b, a)'
    <3>1. Id[b] = Id[a] /\ Version[b] > Version[a] /\ Listed(b)
      BY <2>3 DEF Above, Backs
    <3>2. CASE b # job.task.new
      BY <2>1, <2>2, <3>1, <3>2 DEF Above, Backs
    <3>3. CASE SPost
      <4>1. job'.at = "done" /\ layers' = layers
        BY <3>3 DEF SPost, Moved, Plainly
      <4> QED
        BY <3>1, <4>1 DEF Above, Backs, Listed, Open, Pulling
    <3>4. CASE b = job.task.new /\ ~SPost
      <4>1. job.at \in Open
        BY <1>7, <3>4 DEF SJob, SMove, SListFails, SNothing, SFirst, SIdle, SUnknown, SRestored,
           SDeps, SLists, SGiveUp, SUndo, SFetched, STooLate, SRestore, SBusy, SReplace, Open,
           Pulling
      <4>2. job.task.kind = "module"
        BY <2>2, <2>3, <3>4, <4>1 DEF Above, Backs, Replacing
      <4>3. Listed(job.task.new)'
        BY <1>7, <3>4, <4>2, PlainModule
      <4>4. Listed(b)'
        BY <2>2, <3>4, <4>3
      <4> QED
        BY <2>2, <3>1, <4>2, <4>4 DEF Above, Backs, Replacing
    <3> QED
      BY <3>2, <3>3, <3>4
  <2> QED
    BY <1>0, <2>1, <2>3
<1>8. (\E t \in Task : SAdd(t)) \/ SRun => job' = job /\ layers' = layers
  BY DEF SAdd, SRun
<1> QED
  BY <1>1, <1>2, <1>3, <1>4, <1>5, <1>6, <1>7, <1>8 DEF SAny

\* The job's version is above the listed ones, and not itself hidden.
LEMMA OrderJob ==
    ASSUME Values, Shape, TwiceInv, LiveInv, RagInv, OldInv, BackInv, OrderInv, SAny,
           met \subseteq met', Values', Shape', TwiceInv', Plainly',
           job'.at \in Open, Replacing(job'.task)
    PROVE  /\ \A c \in App : Id[c] = Id[job'.task.new] /\ Listed(c)' /\ c # job'.task.new =>
                 Version[c] < Version[job'.task.new]
           /\ \A m \in Module : layers'[<<job'.task.new, m>>] # "deleted"
<1>0. /\ Plainly /\ job.task.new \in App /\ Version \in [App -> Nat] /\ queue \in Seq(Task)
      /\ job.at \in Open /\ Replacing(job.task) =>
            /\ \A c \in App : Id[c] = Id[job.task.new] /\ Listed(c) /\ c # job.task.new =>
                  Version[c] < Version[job.task.new]
            /\ ~Hidden(job.task.new)
  BY JobTyped, ManagerAssumption DEF Plainly, OrderInv, Values
<1>1. ASSUME job'.task.new = job.task.new, job.at \in Open, Replacing(job.task),
             \A c \in App : c # job.task.new => (Listed(c)' => Listed(c)),
             \A a \in App : Hidden(a)' => Hidden(a)
      PROVE  /\ \A c \in App : Id[c] = Id[job'.task.new] /\ Listed(c)' /\ c # job'.task.new =>
                   Version[c] < Version[job'.task.new]
             /\ \A m \in Module : layers'[<<job'.task.new, m>>] # "deleted"
  <2>1. \A c \in App : Id[c] = Id[job'.task.new] /\ Listed(c)' /\ c # job'.task.new =>
                   Version[c] < Version[job'.task.new]
    BY <1>0, <1>1
  <2>2. \A m \in Module : layers'[<<job.task.new, m>>] # "deleted"
    BY <1>0, <1>1 DEF Hidden
  <2> QED
    BY <1>1, <2>1, <2>2
<1>2. CASE (\E t \in Task : SAdd(t)) \/ SRun \/ SPrune \/ SDeferred
  <2>1. job' = job
    BY <1>2 DEF SAdd, SRun, SPrune, SDeferred
  <2>2. \A a \in App, m \in Module : \/ layers'[<<a, m>>] = layers[<<a, m>>]
                                     \/ layers'[<<a, m>>] = "none"
    BY <1>2 DEF SAdd, SRun, SPrune, SDeferred, AppSame
  <2>3. \A c \in App : Listed(c)' => Listed(c)
    BY <2>2 DEF Listed
  <2>4. \A a \in App : Hidden(a)' => Hidden(a)
    BY <2>2 DEF Hidden
  <2> QED
    BY <1>1, <2>1, <2>3, <2>4
<1>3. CASE SJob
  <2>1. ~ \E o \in App : SBusy(o) \/ SReplace(o)
    <3> SUFFICES ASSUME NEW o \in App, SBusy(o) \/ SReplace(o) PROVE FALSE
      OBVIOUS
    <3>1. o \in job.task.old /\ job.at \in BeforeEnd
      BY DEF SBusy, SReplace, BeforeEnd
    <3>2. Missing(o) = {}
      BY <1>0, <3>1, JobTyped DEF OldInv, Missing, OrderInv, Plainly
    <3>3. job'.at = "post"
      BY <3>2 DEF SBusy, SReplace
    <3> QED
      BY <3>3 DEF Open, Pulling
  <2>2. /\ \A a \in App : Hidden(a)' => Hidden(a)
        /\ \A b \in App : b # job.task.new => (Listed(b)' => Listed(b))
    BY <1>3, <2>1, PlainOther
  <2>3. /\ job'.task.new = job.task.new /\ job'.task.kind = job.task.kind
    BY <1>3, OthersUntouched
  <2>4. ~SPost
    <3> SUFFICES ASSUME SPost PROVE FALSE
      OBVIOUS
    <3>1. job'.at = "done"
      BY DEF SPost, Plainly
    <3> QED
      BY <3>1 DEF Open, Pulling
  <2>5. job.at \in Open
    BY <1>3, <2>4 DEF SJob, SMove, SListFails, SNothing, SFirst, SIdle, SUnknown, SRestored,
       SDeps, SLists, SGiveUp, SUndo, SFetched, STooLate, SRestore, SBusy, SReplace, Open,
       Pulling
  <2>6. Replacing(job.task)
    BY <2>3 DEF Replacing
  <2> QED
    BY <1>1, <2>2, <2>3, <2>5, <2>6
<1>4. ASSUME NEW t \in Task, SBegin(t)
      PROVE  /\ \A c \in App : Id[c] = Id[job'.task.new] /\ Listed(c)' /\ c # job'.task.new =>
                   Version[c] < Version[job'.task.new]
             /\ \A m \in Module : layers'[<<job'.task.new, m>>] # "deleted"
  <2>1. /\ layers' = layers /\ job'.task.new = t.new /\ job'.task.kind = t.kind /\ t.new \in App
        /\ queue # <<>> /\ t = Head(queue)
    BY <1>4 DEF SBegin, Task
  <2>2. t = queue[1] /\ 1 \in DOMAIN queue /\ Replacing(t)
    BY <1>0, <2>1, TailFacts DEF Replacing
  <2>3. \A c \in App : Id[c] = Id[t.new] /\ Listed(c) => Version[c] < Version[t.new]
    BY <1>0, <2>2 DEF OrderInv
  <2>4. ~Hidden(t.new)
    <3> SUFFICES ASSUME Hidden(t.new) PROVE FALSE
      OBVIOUS
    <3>1. PICK b \in App : Above(b, t.new)
      BY <1>0, <2>1 DEF OrderInv
    <3>2. Id[b] = Id[t.new] /\ Listed(b) /\ Version[b] > Version[t.new]
      BY <3>1 DEF Above, Backs
    <3> QED
      BY <1>0, <2>1, <2>3, <3>2
  <2>5. \A c \in App : Listed(c)' => Listed(c)
    BY <2>1 DEF Listed
  <2> QED
    BY <2>1, <2>3, <2>4, <2>5 DEF Hidden
<1>5. CASE SReturn
  BY <1>5 DEF SReturn, Open, Pulling
<1> QED
  BY <1>2, <1>3, <1>4, <1>5 DEF SAny

\* OrderInv is preserved.
LEMMA OrderStep ==
    ASSUME Values, Shape, TwiceInv, LiveInv, RagInv, OldInv, BackInv, OrderInv, SAny, Next,
           met \subseteq met', Values', Shape', TwiceInv'
    PROVE  OrderInv'
<1> SUFFICES ASSUME Plainly' PROVE OrderInv'
  BY DEF OrderInv
<1>1. ~ragged
  BY DEF OrderInv, Plainly
<1>2. ~Mixed'
  BY PlainLayers
<1>3. ~ragged'
  BY <1>1, <1>2, Zenon DEF Next
<1>4. \A a \in App : Hidden(a)' => \E b \in App : Above(b, a)'
  BY OrderHidden
<1>5. \A i \in DOMAIN queue' : Replacing(queue'[i]) =>
              \A c \in App : Id[c] = Id[queue'[i].new] /\ Listed(c)' =>
                 Version[c] < Version[queue'[i].new]
  BY OrderQueue
<1>6. job'.at \in Open /\ Replacing(job'.task) =>
              /\ \A c \in App : Id[c] = Id[job'.task.new] /\ Listed(c)' /\ c # job'.task.new =>
                    Version[c] < Version[job'.task.new]
              /\ \A m \in Module : layers'[<<job'.task.new, m>>] # "deleted"
  BY OrderJob
<1>7. \A a \in lame' : Live(a)' => Needs[a] = <<>> \/ Pending(a)'
  BY LameListed
<1>8. job'.at \in Open /\ Replacing(job'.task) => ~Hidden(job.task.new)'
  BY <1>6 DEF Hidden
<1> QED
  BY <1>3, <1>4, <1>5, <1>6, <1>7, <1>8 DEF OrderInv

-----------------------------------------------------------------------------
(* Desktop entries.                                                        *)

\* There is an entry for an application.
HasEntry(id) == \E a \in exported : Id[a] = id

\* exportReference() only adds what has a directory, ...
LEMMA ExportAdds ==
    ASSUME NEW links, NEW l, NEW refs, NEW a \in Export(links, l, refs)
    PROVE  a \in links \/ (a \in refs /\ l[<<a, "binary">>] # "none")
  BY DEF Export, ExportEntries, Binary

\* ... and leaves an entry for every application that had one ...
LEMMA ExportKeeps ==
    ASSUME NEW links, NEW l, NEW refs, NEW a \in links
    PROVE  \E b \in Export(links, l, refs) : Id[b] = Id[a]
<1> DEFINE done == {r \in refs : ExportEntries(links, l, r)}
<1>1. Export(links, l, refs) = {c \in links : \A r \in done : Id[c] # Id[r]} \cup done
  BY DEF Export
<1> HIDE DEF done
<1>2. CASE \E r \in done : Id[a] = Id[r]
  BY <1>1, <1>2
<1>3. CASE \A r \in done : Id[a] # Id[r]
  BY <1>1, <1>3
<1> QED
  BY <1>2, <1>3

\* ... or has a directory: what is in the way of an entry is one.
LEMMA ExportGives ==
    ASSUME NEW links, NEW l, NEW refs, NEW r \in refs, l[<<r, "binary">>] # "none"
    PROVE  \E b \in Export(links, l, refs) : Id[b] = Id[r]
<1>1. CASE Linkable(links, l, r)
  <2>1. r \in Export(links, l, refs)
    BY <1>1 DEF Export, ExportEntries, Binary
  <2> QED
    BY <2>1
<1>2. CASE ~Linkable(links, l, r)
  <2>1. PICK a \in links : Id[a] = Id[r]
    BY <1>2 DEF Linkable
  <2> QED
    BY <2>1, ExportKeeps
<1> QED
  BY <1>1, <1>2

\* What deferredUninstall() does to the entries: none of those it leaves has lost its directory,
\* and an application that had one keeps one unless the version left is bare.
LEMMA DeferredEntries ==
    ASSUME Values, DeferredUninstall
    PROVE  /\ \A a \in exported' : \/ layers'[<<a, "binary">>] # "none"
                                   \/ a \in exported /\ layers[<<a, "binary">>] = "none"
           /\ job.at \in Pulling /\ job.task.new \in exported' => "early" \in met'
           /\ "bare" \notin met' /\ ~broken' /\ ~Mixed =>
                 \A id : HasEntry(id) => HasEntry(id)'
<1> DEFINE hidden == {a \in App \ running : \E m \in Module : layers[<<a, m>>] = "deleted"}
           left == UNION {Latest(Id[a]) : a \in hidden}
           U == Unexport(exported, layers, hidden)
<1>1. /\ exported' = Export(U, layers', left)
      /\ broken' = (\E a \in hidden : Latest(Id[a]) = {})
      /\ met' = met \cup (IF job.at \in Pulling /\ job.task.new \in exported'
                           THEN {"early"} ELSE {})
                    \cup (IF \E a \in hidden : \E b \in Latest(Id[a]) : ~ IsInstalled(b, "binary")
                           THEN {"bare"} ELSE {})
  BY DEF DeferredUninstall
<1>2. \A a \in App, m \in Module :
         layers'[<<a, m>>] = IF a \notin running /\ layers[<<a, m>>] = "deleted"
                             THEN "none" ELSE layers[<<a, m>>]
  BY DeferredFacts DEF SDeferred
<1>3. exported \subseteq App /\ "binary" \in Module
  BY ManagerAssumption DEF Values
<1>4. \A a : a \in U <=> a \in exported /\ (a \notin hidden \/ layers[<<a, "binary">>] = "none")
  BY DEF Unexport, Binary
<1>5. \A a \in App : a \in hidden <=> a \notin running /\ \E m \in Module : layers[<<a, m>>] = "deleted"
  OBVIOUS
<1>6. \A a \in hidden : a \in App
  OBVIOUS
<1> HIDE DEF U, hidden
<1>7. ASSUME NEW a \in exported'
      PROVE  \/ layers'[<<a, "binary">>] # "none"
             \/ a \in exported /\ layers[<<a, "binary">>] = "none"
  <2>1. a \in U \/ layers'[<<a, "binary">>] # "none"
    BY <1>1, <1>7, ExportAdds
  <2>2. CASE a \in U
    <3>1. a \in App /\ a \in exported /\ (a \notin hidden \/ layers[<<a, "binary">>] = "none")
      BY <1>3, <1>4, <2>2
    <3>2. CASE a \notin hidden
      BY <1>2, <1>3, <1>5, <3>1, <3>2
    <3> QED
      BY <3>1, <3>2
  <2> QED
    BY <2>1, <2>2
<1>8. job.at \in Pulling /\ job.task.new \in exported' => "early" \in met'
  BY <1>1
<1>9. ASSUME "bare" \notin met', ~broken', ~Mixed, NEW id, HasEntry(id) PROVE HasEntry(id)'
  <2>1. PICK a \in exported : Id[a] = id
    BY <1>9 DEF HasEntry
  <2>2. CASE a \in U
    <3> HIDE DEF left
    <3>1. \E b \in Export(U, layers', left) : Id[b] = Id[a]
      BY <2>2, ExportKeeps
    <3> QED
      BY <1>1, <2>1, <3>1 DEF HasEntry
  <2>3. CASE a \notin U
    <3>1. a \in hidden /\ a \in App
      BY <1>3, <1>4, <2>3
    <3>2. PICK b \in Latest(Id[a]) : TRUE
      BY <1>1, <1>9, <3>1
    <3>3. b \in App /\ Id[b] = Id[a] /\ Listed(b) /\ layers[<<b, "binary">>] # "none"
      BY <1>1, <1>9, <3>1, <3>2, LatestFacts DEF IsInstalled
    <3>4. layers[<<b, "binary">>] # "deleted"
      BY <1>3, <1>9, <3>3 DEF Listed, Mixed
    <3>5. layers'[<<b, "binary">>] # "none"
      BY <1>2, <1>3, <3>3, <3>4
    <3>6. b \in left
      BY <3>1, <3>2
    <3> HIDE DEF left
    <3> QED
      BY <1>1, <2>1, <3>3, <3>5, <3>6, ExportGives DEF HasEntry
  <2> QED
    BY <2>2, <2>3
<1> QED
  BY <1>7, <1>8, <1>9

\* The actions of a job, by what they do to the entries.
Others == \/ SListFails \/ SNothing \/ SIdle \/ SUnknown \/ SPost \/ SDeps \/ SLists \/ SGiveUp
          \/ \E m \in Module : SFetched(m) \/ STooLate(m) \/ SRestore(m)
          \/ \E a \in App : SBusy(a)
Undoes == /\ SUndo
          /\ exported' = IF Whole(job.task) THEN Unexport(exported, layers, {job.task.new}) ELSE exported
Replaces(a) == /\ SReplace(a)
               /\ exported' = Unexport(Export(exported, layers, {job.task.new}), layers, {a})
EndsRestored == /\ SRestored
                /\ job.of \notin job.task.old => exported' \in {exported, Export(exported, layers, {job.of})}

\* Only four steps of a job change the entries.
LEMMA JobEntries ==
    ASSUME Values, Shape, JobAction
    PROVE  \/ Others /\ exported' = exported
           \/ SFirst /\ exported' = Export(exported, layers, {job.task.new})
           \/ Undoes
           \/ \E a \in App : Replaces(a)
           \/ EndsRestored
<1> USE DEF At
<1>1. CASE InstalledFirst
  BY <1>1, Goes DEF InstalledFirst, SFirst, Moved, IsInstalled, Binary, Steps
<1>2. CASE UninstallRef
  BY <1>2, UndoFacts DEF UninstallRef, Undoes
<1>3. ASSUME NEW a \in App, Replace(a) PROVE Replaces(a)
  BY <1>3, ReplaceFacts DEF Replace, Replaces
<1>4. CASE Restored
  <2>1. job.then \in Steps
    BY DEF Values, Job, Steps
  <2>2. SRestored
    BY <1>4, <2>1, Goes DEF Restored, SRestored, Moved
  <2> QED
    BY <1>4, <2>2 DEF Restored, EndsRestored
<1>5. CASE \/ ListFails \/ InstalledNothing \/ (\E a \in App : OldIdle(a)) \/ OldUnknown \/ PostInstall
  <2>1. exported' = exported
    BY <1>5, Zenon DEF ListFails, InstalledNothing, OldIdle, OldUnknown, PostInstall
  <2>2. job.at # "restore"
    BY <1>5 DEF ListFails, InstalledNothing, OldIdle, OldUnknown, PostInstall
  <2>3. CASE InstalledNothing
    BY <2>1, <2>3, Logs DEF InstalledNothing, SNothing, Moved, IsInstalled, Binary, Others
  <2>4. ASSUME NEW a \in App, OldIdle(a) PROVE SIdle
    BY <2>4, Goes DEF OldIdle, SIdle, Moved, IsInstalled, Binary, Steps
  <2>5. CASE OldUnknown
    BY <2>1, <2>5, Logs DEF OldUnknown, SUnknown, Moved, IsInstalled, Binary, Meet, Others
  <2>6. CASE ListFails
    BY <2>1, <2>6, Fails DEF ListFails, SListFails, Moved, Steps, Others
  <2>7. CASE PostInstall
    BY <2>1, <2>7, Logs, Goes DEF PostInstall, SPost, Moved, Meet, Steps, Others
  <2> QED
    BY <1>5, <2>1, <2>3, <2>4, <2>5, <2>6, <2>7 DEF Others
<1>6. CASE \/ \E a \in App : OldBusy(a)
           \/ ListAnswers \/ FetchFails \/ Fetched \/ FetchedTooLate
           \/ DepPresent \/ DepMissing \/ DepListFails \/ DepsTooLate
           \/ DepFetchFails \/ DepFetchedTooLate \/ DepFetched \/ Restore
  <2>1. exported' = exported
    BY <1>6, Zenon DEF OldBusy, ListAnswers, FetchFails, Fetched, FetchedTooLate, DepPresent,
       DepMissing, DepListFails, DepsTooLate, DepFetchFails, DepFetchedTooLate, DepFetched,
       Restore, AfterFailure
  <2>2. CASE DepPresent \/ DepMissing \/ DepFetched
    <3>1. job.deps # <<>>
      BY <2>2 DEF Shape, JobShape, DepPresent, DepMissing, DepFetched
    <3> QED
      BY <2>1, <2>2, <3>1, DepsFacts DEF Others
  <2>3. CASE DepListFails \/ DepsTooLate \/ DepFetchFails \/ DepFetchedTooLate
    <3>1. job.deps # <<>>
      BY <2>3 DEF Shape, JobShape, DepListFails, DepsTooLate, DepFetchFails, DepFetchedTooLate
    <3> QED
      BY <2>1, <2>3, <3>1, GivesUpFacts DEF Others
  <2>4. CASE ListAnswers \/ FetchFails \/ Fetched \/ FetchedTooLate \/ Restore \/ \E a \in App : OldBusy(a)
    BY <2>1, <2>4, BusyFacts, ListFacts, FetchFailsFacts, FetchedFacts, TooLateFacts, RestoreFacts
       DEF Others
  <2> QED
    BY <1>6, <2>2, <2>3, <2>4
<1> QED
  BY <1>1, <1>2, <1>3, <1>4, <1>5, <1>6 DEF JobAction

\* Entries lead to layers: also while a job is at work, but for a version whose module binary a
\* rollback is about to pull back.  An entry for the version a job brings is made early or not
\* before it is in; and a job that is undone while there is one will not remove it for good,
\* because another of its modules is missing.
LeadInv ==
    EntriesSpared =>
        /\ \A a \in exported : \/ layers[<<a, "binary">>] # "none"
                               \/ job.at = "restore" /\ a = job.of /\ "binary" \in job.lost
        /\ job.at \in Pulling /\ "binary" \in job.pulled /\ job.task.new \in exported =>
              "early" \in met
        /\ /\ job.at = "undo" /\ job.task.kind # "uninstall"
           /\ "binary" \in job.task.mods /\ job.task.new \in exported
           => \E m \in job.task.mods : layers[<<job.task.new, m>>] = "none"

\* LeadInv holds at the start.
LEMMA InitLead == Init => LeadInv
  BY DEF Init, LeadInv, NoJob, Pulling

\* What is spared was spared before.
LEMMA SparedBefore ==
    ASSUME met \subseteq met', ~ragged' => ~ragged, EntriesSpared'
    PROVE  /\ EntriesSpared /\ ~ragged /\ ~ragged'
           /\ {"hook", "busy", "twice", "unrestored"} \cap met' = {}
           /\ "early" \in met' => {"net", "cancel"} \cap met' = {}
  BY DEF EntriesSpared, Spared

\* No step but those of a job and deferredUninstall() changes the entries.
LEMMA EntriesSame ==
    ASSUME Next, ~JobAction, ~DeferredUninstall
    PROVE  exported' = exported
  BY Zenon DEF Next, Step, JobAction, Install, InstallModule, Update, Uninstall, Add, Run, Exit, Prune,
     Begin, Return

\* The job of the front task begins.
LEMMA BeginStep == ASSUME Values, Shape, Begin PROVE \E t \in Task : SBegin(t)
<1>1. queue # <<>> /\ Head(queue) = queue[1] /\ 1 \in DOMAIN queue
  BY DEF Begin, Values
<1>2. /\ Head(queue).kind = "module" => \E m \in Module : Head(queue).mods = {m}
      /\ Head(queue).kind \in {"module", "uninstall"} => Head(queue).old = {}
  BY <1>1 DEF Shape, QueueShape, GoodTask
<1> QED
  BY <1>2, BeginFacts

\* LeadInv is preserved by what is not a step of a job, ...
LEMMA LeadOther ==
    ASSUME Values, Shape, LeadInv, SAny, Next, ~JobAction, met \subseteq met',
           ~ragged' => ~ragged /\ ~Mixed'
    PROVE  LeadInv'
<1> SUFFICES ASSUME EntriesSpared' PROVE LeadInv'
  BY DEF LeadInv
<1>0. EntriesSpared
  BY SparedBefore
<1>1. CASE DeferredUninstall
  <2>1. job' = job /\ job.at \in Waiting
    BY <1>1 DEF DeferredUninstall, Dispatching
  <2>2. job.at # "undo"
    BY <2>1 DEF Waiting, Pulling
  <2> QED
    BY <1>0, <1>1, <2>1, <2>2, DeferredEntries DEF LeadInv
<1>2. CASE ~DeferredUninstall
  <2>1. exported' = exported
    BY <1>2, EntriesSame
  <2>2. exported \subseteq App /\ "binary" \in Module /\ job.task.new \in App /\ job.task.mods \subseteq Module
    BY ManagerAssumption DEF Values, Job, Task
  <2>3. CASE Begin
    <3>1. PICK t \in Task : SBegin(t)
      BY <2>3, BeginStep
    <3>2. /\ layers' = layers /\ job.at = "idle"
          /\ job'.at \in {"undo", "list", "done"} /\ (job'.at = "undo" => job'.task.kind = "uninstall")
      BY <3>1 DEF SBegin
    <3> QED
      BY <1>0, <2>1, <3>2 DEF LeadInv, Pulling
  <2>4. CASE Return
    <3>1. layers' = layers /\ job.at = "done" /\ job'.at = "idle"
      BY <2>4, ReturnFacts DEF SReturn
    <3> QED
      BY <1>0, <2>1, <3>1 DEF LeadInv, Pulling
  <2>5. CASE ~Begin /\ ~Return
    <3>1. job' = job
      BY <1>2, <2>5, Zenon DEF Next, Step, JobAction, Install, InstallModule, Update, Uninstall, Add,
         Run, Exit, Prune
    <3>2. CASE Prune
      <4>1. AppSame
        BY <3>2, PruneFacts DEF SPrune
      <4> QED
        BY <1>0, <2>1, <2>2, <3>1, <4>1 DEF LeadInv, AppSame
    <3>3. CASE ~Prune
      <4>1. layers' = layers
        BY <1>2, <2>5, <3>3, Zenon DEF Next, Step, JobAction, Install, InstallModule, Update, Uninstall,
           Add, Run, Exit
      <4> QED
        BY <1>0, <2>1, <3>1, <4>1 DEF LeadInv
    <3> QED
      BY <3>2, <3>3
  <2> QED
    BY <2>3, <2>4, <2>5
<1> QED
  BY <1>1, <1>2

\* ... by the steps of a job that leave the entries alone, ...
LEMMA LeadJob ==
    ASSUME Values, Shape, TwiceInv, LiveInv, OldInv, LeadInv, Others, exported' = exported,
           met \subseteq met', ~ragged' => ~ragged /\ ~Mixed', Values'
    PROVE  LeadInv'
<1> SUFFICES ASSUME EntriesSpared' PROVE LeadInv'
  BY DEF LeadInv
<1> DEFINE new == job.task.new
<1>0. /\ EntriesSpared /\ ~ragged /\ ~Mixed' /\ "twice" \notin met
      /\ {"hook", "busy", "twice", "unrestored"} \cap met' = {}
      /\ "early" \in met' => {"net", "cancel"} \cap met' = {}
  BY SparedBefore
<1>1. /\ exported \subseteq App /\ "binary" \in Module /\ new \in App /\ job.task.mods \subseteq Module
      /\ job.todo \subseteq Module
  BY ManagerAssumption DEF Values, Job, Task
<1>2. \A a \in exported : layers[<<a, "binary">>] # "none" \/ job.at = "restore"
  BY <1>0 DEF LeadInv
<1>3. /\ job.at \in Pulling => \A m \in job.todo : layers[<<new, m>>] = "none"
      /\ job.at = "list" \/ job.at \in Pulling => job.task.kind # "uninstall"
  BY <1>0 DEF TwiceInv, NotYet, Shape, JobShape, Ahead
<1>4. job.at = "installed" => \A a \in job.task.old : Missing(a) = {}
  BY <1>0, JobTyped DEF OldInv, BeforeEnd, Missing
<1>5. CASE SListFails \/ SPost
  <2>1. /\ layers' = layers /\ job.at \in {"list", "post"} /\ job'.at = "done"
    BY <1>0, <1>5 DEF SListFails, SPost, Moved
  <2> QED
    BY <1>2, <2>1 DEF LeadInv, Pulling
<1>6. CASE SNothing \/ SIdle \/ SUnknown
  <2>1. /\ layers' = layers /\ job.at = "installed" /\ job'.at \in {"replace", "done", "undo"}
        /\ job'.task = job.task /\ (job'.at = "undo" => layers[<<new, "binary">>] = "none")
    BY <1>0, <1>6 DEF SNothing, SIdle, SUnknown, Moved, LoggedOrUndone, Kept, Binary
  <2> QED
    BY <1>2, <2>1 DEF LeadInv, Pulling
<1>7. CASE SDeps
  BY <1>0, <1>1, <1>7 DEF SDeps, LeadInv, AppSame, Kept, Pulling
<1>8. CASE SLists
  <2>1. /\ job.at = "list" /\ job'.at \in {"installed", "fetch"} /\ job'.pulled = job.pulled
        /\ \E back : Marks(new, back, "live")
    BY <1>8, Zenon DEF SLists
  <2>2. job.pulled = {}
    BY <2>1 DEF Shape, JobShape
  <2> QED
    BY <1>1, <1>2, <2>1, <2>2 DEF LeadInv, Marks, Pulling
<1>9. CASE SGiveUp
  <2>1. job.at \in Pulling /\ job'.at \in {"undo", "done"} /\ job'.task = job.task
    BY <1>9 DEF SGiveUp, GaveUp, Kept
  <2>2. met' \cap {"net", "cancel"} # {}
    BY <1>0, <1>3, <1>9 DEF SGiveUp
  <2>3. "binary" \in job.pulled => new \notin exported
    BY <1>0, <2>1, <2>2 DEF LeadInv
  <2>4. AppSame \/ Rolls
    BY <1>9 DEF SGiveUp
  <2>5. \A a \in exported : layers'[<<a, "binary">>] # "none"
    BY <1>1, <1>2, <2>1, <2>3, <2>4 DEF AppSame, Rolls, Pulling
  <2>6. ASSUME job'.at = "undo", new \in exported
        PROVE  \E m \in job.task.mods : layers'[<<new, m>>] = "none"
    <3>1. job.at = "fetch"
      BY <2>1, <2>3, <2>6 DEF Shape, JobShape, Pulling
    <3>2. PICK m \in job.todo : TRUE
      BY <3>1 DEF Shape, JobShape
    <3>3. m \in job.task.mods /\ m \notin job.pulled /\ m \notin job.revived /\ m \in Module
      BY <1>1, <2>1, <3>2 DEF Shape, JobShape
    <3>4. layers'[<<new, m>>] = "none"
      BY <1>1, <1>3, <2>1, <2>4, <3>2, <3>3 DEF AppSame, Rolls
    <3> QED
      BY <3>3, <3>4
  <2> QED
    BY <2>1, <2>5, <2>6 DEF LeadInv, Pulling
<1>10. ASSUME NEW m \in Module, SFetched(m) PROVE LeadInv'
  <2>1. /\ job.at = "fetch" /\ m \in job.todo /\ layers[<<new, m>>] = "none"
        /\ Marks(new, {m}, "live") /\ job'.pulled = job.pulled \cup {m} /\ job'.task = job.task
        /\ job'.at \in {"deplist", "installed", "fetch"}
    BY <1>10 DEF SFetched
  <2>2. m = "binary" => new \notin exported
    BY <1>2, <2>1
  <2>3. \A a \in exported : layers'[<<a, "binary">>] # "none"
    <3>1. \A a \in App : layers'[<<a, "binary">>] \in {"live", layers[<<a, "binary">>]}
      BY <1>1, <2>1 DEF Marks
    <3> QED
      BY <1>1, <1>2, <2>1, <3>1
  <2> QED
    BY <1>0, <2>1, <2>2, <2>3 DEF LeadInv, Pulling
<1>11. ASSUME NEW m \in Module, STooLate(m) PROVE LeadInv'
  <2>1. /\ job.at = "fetch" /\ m \in job.todo /\ layers[<<new, m>>] = "none" /\ "cancel" \in met'
        /\ job'.at \in {"undo", "done"} /\ job'.task = job.task
    BY <1>11 DEF STooLate, GaveUp, Kept
  <2>2. m \notin job.pulled /\ m \notin job.revived /\ job.task.mods = job.todo \cup job.pulled \cup job.revived
    BY <2>1 DEF Shape, JobShape, Pulling
  <2>3. \A a \in App, n \in Module :
          layers'[<<a, n>>] =
              IF a = new /\ n \in job.pulled THEN "none"
              ELSE IF a = new /\ n \in job.revived /\ (n = m \/ layers[<<a, n>>] # "none")
              THEN "deleted"
              ELSE IF a = new /\ n = m THEN "live" ELSE layers[<<a, n>>]
    BY <1>11 DEF STooLate
  <2>4. "binary" \in job.pulled => new \notin exported
    BY <1>0, <2>1 DEF LeadInv, Pulling
  <2>5. m = "binary" => new \notin exported
    BY <1>2, <2>1
  <2>6. \A a \in exported : layers'[<<a, "binary">>] # "none"
    BY <1>1, <1>2, <2>1, <2>3, <2>4
  <2>7. ASSUME "binary" \in job.task.mods, new \in exported PROVE FALSE
    <3>1. "binary" \in job.revived
      <4>1. "binary" \in job.todo => m = "binary"
        BY <1>2, <1>3, <2>1, <2>7 DEF Pulling
      <4> QED
        BY <2>2, <2>4, <2>5, <2>7, <4>1
    <3>2. layers'[<<new, "binary">>] = "deleted" /\ layers'[<<new, m>>] = "live"
      BY <1>1, <1>2, <2>1, <2>2, <2>3, <2>4, <2>7, <3>1
    <3> QED
      BY <1>0, <1>1, <3>2 DEF Mixed
  <2> QED
    BY <2>1, <2>6, <2>7 DEF LeadInv, Pulling
<1>12. ASSUME NEW m \in Module, SRestore(m) PROVE LeadInv'
  <2>1. /\ job.at = "restore" /\ job'.at = "restore" /\ job'.of = job.of /\ job'.lost = job.lost \ {m}
        /\ Marks(job.of, {m}, "live")
    BY <1>0, <1>12 DEF SRestore
  <2>2. \A a \in exported : \/ layers[<<a, "binary">>] # "none"
                            \/ a = job.of /\ "binary" \in job.lost
    BY <1>0 DEF LeadInv
  <2> QED
    BY <1>1, <2>1, <2>2 DEF LeadInv, Marks, Pulling
<1>13. ASSUME NEW a \in App, SBusy(a) PROVE LeadInv'
  <2>1. /\ job.at = "installed" /\ job'.at = "post" /\ Marks(a, job.oldMods, "deleted")
    BY <1>4, <1>13 DEF SBusy
  <2> QED
    BY <1>1, <1>2, <2>1 DEF LeadInv, Marks, Pulling
<1> QED
  BY <1>5, <1>6, <1>7, <1>8, <1>9, <1>10, <1>11, <1>12, <1>13 DEF Others


\* ... when the new version is exported, ...
LEMMA LeadFirst ==
    ASSUME Values, LeadInv, SFirst, exported' = Export(exported, layers, {job.task.new}),
           met \subseteq met', ~ragged' => ~ragged
    PROVE  LeadInv'
<1> SUFFICES ASSUME EntriesSpared' PROVE LeadInv'
  BY DEF LeadInv
<1>1. job.at = "installed" /\ job'.at = "post" /\ layers' = layers
  BY DEF SFirst, Moved
<1>2. \A a \in exported : layers[<<a, "binary">>] # "none"
  BY <1>1, SparedBefore DEF LeadInv
<1>3. ASSUME NEW a \in exported' PROVE layers'[<<a, "binary">>] # "none"
  BY <1>1, <1>2, <1>3, ExportAdds
<1> QED
  BY <1>1, <1>3 DEF LeadInv, Pulling

\* ... when an application is uninstalled or an installation undone, ...
LEMMA LeadUndo ==
    ASSUME Values, UninstallInv, LeadInv, Undoes, met \subseteq met', ~ragged' => ~ragged
    PROVE  LeadInv'
<1> SUFFICES ASSUME EntriesSpared' PROVE LeadInv'
  BY DEF LeadInv
<1> DEFINE new == job.task.new
           mods == IF Whole(job.task) THEN Modules(new) ELSE job.task.mods
           gone == {m \in mods : layers[<<new, m>>] = "none"}
<1>1. /\ exported \subseteq App /\ "binary" \in Module /\ new \in App /\ job.task.mods \subseteq Module
  BY ManagerAssumption, JobTyped DEF Values
<1>2. /\ job.at = "undo"
      /\ \/ /\ gone = {} /\ Marks(new, mods, "none") /\ job'.at = "done"
         \/ /\ gone # {}
            /\ \E some \in SUBSET Module :
                  /\ Some(some, mods, gone) /\ Marks(new, some, "none")
                  /\ PulledBack(new, some, TRUE, "done")
  BY DEF Undoes, SUndo
<1>3. /\ \A a \in exported : layers[<<a, "binary">>] # "none"
      /\ job.task.kind # "uninstall" /\ "binary" \in job.task.mods /\ new \in exported
         => \E m \in job.task.mods : layers[<<new, m>>] = "none"
  BY <1>2, SparedBefore DEF LeadInv
<1>4. CASE Whole(job.task)
  <2>1. mods = Modules(new) /\ gone = {}
    BY <1>4 DEF Modules, IsInstalled
  <2>2. Marks(new, mods, "none") /\ job'.at = "done"
    BY <1>2, <2>1
  <2>3. \A a \in exported' : a \in exported /\ a # new
    BY <1>3, <1>4 DEF Undoes, Unexport, Binary
  <2>4. \A a \in exported' : layers'[<<a, "binary">>] # "none"
    BY <1>1, <1>3, <2>2, <2>3 DEF Marks
  <2> QED
    BY <2>2, <2>4 DEF LeadInv, Pulling
<1>5. CASE ~Whole(job.task)
  <2>1. mods = job.task.mods /\ exported' = exported
    BY <1>5 DEF Undoes
  <2>2. CASE gone = {}
    <3>1. Marks(new, mods, "none") /\ job'.at = "done"
      BY <1>2, <2>2
    <3>2. new \in exported => "binary" \notin mods
      <4>1. CASE job.task.kind = "uninstall"
        <5>1. PICK m \in Module : job.task.mods = {m}
          BY <1>2, <4>1 DEF UninstallInv
        <5> QED
          BY <1>5, <2>1, <4>1, <5>1 DEF Whole
      <4>2. CASE job.task.kind # "uninstall"
        BY <1>3, <2>1, <2>2, <4>2
      <4> QED
        BY <4>1, <4>2
    <3> HIDE DEF mods
    <3>3. \A a \in exported : layers'[<<a, "binary">>] # "none"
      BY <1>1, <1>3, <3>1, <3>2 DEF Marks
    <3> QED
      BY <2>1, <3>1, <3>3 DEF LeadInv, Pulling
  <2>3. CASE gone # {}
    <3>1. PICK some \in SUBSET Module : Marks(new, some, "none") /\ PulledBack(new, some, TRUE, "done")
      BY <1>2, <2>3
    <3>2. job'.at = "restore" /\ job'.of = new /\ job'.lost = some
      BY <3>1 DEF PulledBack
    <3>3. \A a \in exported : layers'[<<a, "binary">>] # "none" \/ (a = new /\ "binary" \in some)
      BY <1>1, <1>3, <3>1 DEF Marks
    <3> QED
      BY <2>1, <3>2, <3>3 DEF LeadInv, Pulling
  <2> QED
    BY <2>2, <2>3
<1> QED
  BY <1>4, <1>5

\* ... when the new version replaces the old one, ...
LEMMA LeadReplace ==
    ASSUME Values, OldInv, LeadInv, NEW a \in App, Replaces(a),
           met \subseteq met', ~ragged' => ~ragged
    PROVE  LeadInv'
<1> SUFFICES ASSUME EntriesSpared' PROVE LeadInv'
  BY DEF LeadInv
<1> DEFINE new == job.task.new
<1>1. exported \subseteq App /\ "binary" \in Module /\ new \in App
  BY ManagerAssumption, JobTyped DEF Values
<1>2. job.at = "replace" /\ a \in job.task.old
  BY DEF Replaces, SReplace
<1>3. /\ EntriesSpared /\ "twice" \notin met /\ ~ragged
  BY SparedBefore
<1>4. Missing(a) = {}
  BY <1>2, <1>3, JobTyped DEF OldInv, BeforeEnd, Missing
<1>5. Marks(a, job.oldMods, "none") /\ job'.at = "post"
  BY <1>4 DEF Replaces, SReplace
<1>6. \A b \in exported : layers[<<b, "binary">>] # "none"
  BY <1>2, <1>3 DEF LeadInv
<1>7. ASSUME NEW b \in exported' PROVE layers'[<<b, "binary">>] # "none"
  <2>1. /\ b \in Export(exported, layers, {new})
        /\ b # a \/ layers[<<a, "binary">>] = "none"
    BY <1>7 DEF Replaces, Unexport, Binary
  <2>2. b \in App /\ layers[<<b, "binary">>] # "none"
    BY <1>1, <1>6, <2>1, ExportAdds
  <2> QED
    BY <1>1, <1>5, <2>1, <2>2 DEF Marks
<1> QED
  BY <1>5, <1>7 DEF LeadInv, Pulling

\* ... and when a rollback has pulled back what it had removed.
LEMMA LeadRestored ==
    ASSUME Values, Shape, OldInv, LeadInv, EndsRestored, met \subseteq met', ~ragged' => ~ragged
    PROVE  LeadInv'
<1> SUFFICES ASSUME EntriesSpared' PROVE LeadInv'
  BY DEF LeadInv
<1>1. job.at = "restore" /\ job.lost = {} /\ layers' = layers /\ job'.at = job.then
  BY DEF EndsRestored, SRestored, Moved
<1>2. EntriesSpared /\ "twice" \notin met /\ ~ragged
  BY SparedBefore
<1>3. job.of = job.task.new /\ job.of \notin job.task.old /\ job.then = "done"
  BY <1>1, <1>2 DEF OldInv, Shape, JobShape, GoodTask
<1>4. \A b \in exported : layers[<<b, "binary">>] # "none"
  BY <1>1, <1>2 DEF LeadInv
<1>5. ASSUME NEW b \in exported' PROVE layers'[<<b, "binary">>] # "none"
  <2>1. b \in exported \/ b \in Export(exported, layers, {job.of})
    BY <1>3, <1>5 DEF EndsRestored
  <2> QED
    BY <1>1, <1>4, <2>1, ExportAdds
<1> QED
  BY <1>1, <1>3, <1>5 DEF LeadInv, Pulling

\* LeadInv is preserved.
LEMMA LeadStep ==
    ASSUME Values, Shape, TwiceInv, LiveInv, OldInv, UninstallInv, LeadInv, SAny, Next,
           met \subseteq met', ~ragged' => ~ragged /\ ~Mixed', Values'
    PROVE  LeadInv'
<1>1. CASE ~JobAction
  BY <1>1, LeadOther
<1>2. CASE JobAction
  BY <1>2, JobEntries, LeadJob, LeadFirst, LeadUndo, LeadReplace, LeadRestored
<1> QED
  BY <1>1, <1>2

\* What the icons depend on.
IconsSpared == EntriesSpared /\ Spared({"uninstall", "bare"})

\* The version that is installed first has no entry before it is in.
FirstOf(a) == /\ a = job.task.new /\ job.task.kind = "install" /\ job.task.old = {}
              /\ job.at \in Pulling \cup {"installed", "undo"}

\* Icons: every application that has a directory has an entry, also while a job is at work
\* and whatever becomes of it, but for one that is being installed for the first time.
\* What is updated has one, so has a version that a rollback is about to pull back, and what
\* a job has brought has one when it ends without a failure.
IconInv ==
    /\ job.at = "replace" => layers[<<job.task.new, "binary">>] # "none"
    /\ IconsSpared =>
        /\ \A id \in owned : HasEntry(id)
        /\ \A a \in App : layers[<<a, "binary">>] # "none" => HasEntry(Id[a]) \/ FirstOf(a)
        /\ \A i \in DOMAIN queue : queue[i].kind = "update" => HasEntry(Id[queue[i].new])
        /\ job.at # "idle" /\ job.task.kind = "update" => HasEntry(Id[job.task.new])
        /\ /\ job.at # "idle" /\ job.task.kind = "install" /\ job.task.old # {}
           /\ "binary" \in job.task.mods
           => HasEntry(Id[job.task.new])
        /\ job.at # "idle" /\ job.task.kind = "install" /\ job.task.old = {} =>
              job.task.mods = {"binary"}
        /\ job.at = "restore" /\ "binary" \in job.lost => HasEntry(Id[job.of])
        /\ job.at \in {"post", "done"} /\ job.failed = FALSE => HasEntry(Id[job.task.new])

\* IconInv holds at the start.
LEMMA InitIcon == Init => IconInv
<1> SUFFICES ASSUME Init PROVE IconInv
  OBVIOUS
<1>1. job.at = "idle" /\ owned = {} /\ queue = <<>>
  BY DEF Init, NoJob
<1>2. \A a \in App : layers[<<a, "binary">>] = "none"
  BY LayerFacts DEF Init, Binary
<1> QED
  BY <1>1, <1>2 DEF IconInv

\* What is spared was spared before, and nobody uninstalls.
LEMMA IconsBefore ==
    ASSUME BackInv, RagInv, met \subseteq met', ~ragged' => ~ragged, IconsSpared'
    PROVE  /\ IconsSpared /\ EntriesSpared /\ ~ragged /\ ~Mixed
           /\ {"hook", "busy", "twice", "unrestored", "uninstall", "bare"} \cap met' = {}
           /\ {"hook", "twice", "uninstall"} \cap met = {}
           /\ \A i \in DOMAIN queue : queue[i].kind # "uninstall"
           /\ job.at # "idle" => job.task.kind # "uninstall"
<1>1. /\ IconsSpared /\ EntriesSpared /\ ~ragged
      /\ {"hook", "busy", "twice", "unrestored", "uninstall", "bare"} \cap met' = {}
  BY DEF IconsSpared, EntriesSpared, Spared
<1>2. met \cap {"hook", "uninstall", "twice"} = {}
  BY <1>1
<1> QED
  BY <1>1, <1>2 DEF BackInv, RagInv

\* The new version is exported before the old one is removed.
LEMMA ReplaceGives ==
    ASSUME Values, Shape, LeadInv, IconInv, EntriesSpared, NEW a \in App, Replaces(a)
    PROVE  job.task.new \in exported' /\ \A id : HasEntry(id) => HasEntry(id)'
<1> DEFINE new == job.task.new
           E == Export(exported, layers, {new})
<1>1. job.at = "replace" /\ a \in job.task.old /\ exported' = Unexport(E, layers, {a})
  BY DEF Replaces, SReplace
<1>2. a # new /\ Id[a] = Id[new]
  BY <1>1 DEF Shape, JobShape, GoodTask
<1>3. \A b \in exported : layers[<<b, "binary">>] # "none"
  BY <1>1 DEF LeadInv
<1>4. layers[<<new, "binary">>] # "none"
  BY <1>1 DEF IconInv
<1>5. new \in E
  BY <1>3, <1>4 DEF Export, ExportEntries, Linkable, Binary
<1> HIDE DEF E
<1>6. \A b : b \in exported' <=> b \in E /\ (b # a \/ layers[<<a, "binary">>] = "none")
  BY <1>1 DEF Unexport, Binary
<1>7. ASSUME NEW id, HasEntry(id) PROVE HasEntry(id)'
  <2>1. PICK b \in exported : Id[b] = id
    BY <1>7 DEF HasEntry
  <2>2. PICK c \in E : Id[c] = id
    BY <2>1, ExportKeeps DEF E
  <2>3. CASE c = a
    BY <1>2, <1>5, <1>6, <2>2, <2>3 DEF HasEntry
  <2>4. CASE c # a
    BY <1>6, <2>2, <2>4 DEF HasEntry
  <2> QED
    BY <2>3, <2>4
<1> QED
  BY <1>2, <1>5, <1>6, <1>7

\* An application keeps its entry.
LEMMA EntriesLast ==
    ASSUME Values, Shape, RagInv, OldInv, BackInv, LeadInv, IconInv, Next,
           met \subseteq met', ~ragged' => ~ragged, BackInv', IconsSpared', NEW c \in exported
    PROVE  \E b \in exported' : Id[b] = Id[c]
<1>0. /\ IconsSpared /\ EntriesSpared /\ ~ragged /\ ~Mixed
      /\ {"hook", "busy", "twice", "unrestored", "uninstall", "bare"} \cap met' = {}
      /\ job.at # "idle" => job.task.kind # "uninstall"
      /\ "twice" \notin met
  BY IconsBefore
<1>1. exported' = exported => \E b \in exported' : Id[b] = Id[c]
  OBVIOUS
<1>2. ASSUME NEW r, exported' = Export(exported, layers, {r})
      PROVE  \E b \in exported' : Id[b] = Id[c]
  BY <1>2, ExportKeeps
<1>3. CASE DeferredUninstall
  <2>1. ~broken'
    <3>1. ~ragged'
      BY DEF IconsSpared, EntriesSpared
    <3> QED
      BY <1>0, <3>1 DEF BackInv
  <2> QED
    BY <1>0, <1>3, <2>1, DeferredEntries DEF HasEntry
<1>4. CASE JobAction
  <2>1. CASE Undoes
    <3>1. job.at = "undo"
      BY <2>1 DEF Undoes, SUndo
    <3>2. ~Whole(job.task)
      BY <1>0, <3>1 DEF Whole
    <3> QED
      BY <1>1, <2>1, <3>2 DEF Undoes
  <2>2. CASE EndsRestored
    <3>1. job.of = job.task.new /\ job.at = "restore"
      BY <1>0, <2>2 DEF EndsRestored, SRestored, OldInv
    <3>2. job.of \notin job.task.old
      BY <3>1 DEF Shape, JobShape, GoodTask
    <3> QED
      BY <1>1, <1>2, <2>2, <3>2 DEF EndsRestored
  <2> QED
    BY <1>0, <1>1, <1>2, <1>4, <2>1, <2>2, JobEntries, ReplaceGives DEF HasEntry
<1> QED
  BY <1>1, <1>3, <1>4, EntriesSame

\* A job that has come to its end without a failure has left an entry.
LEMMA EntryGiven ==
    ASSUME Values, Shape, LeadInv, IconInv, IconsSpared, JobAction,
           "busy" \notin met', job.at # "post", job'.at = "post"
    PROVE  \E b \in exported' : Id[b] = Id[job.task.new]
<1>0. job.task.new \in App /\ EntriesSpared
  BY JobTyped DEF IconsSpared
<1>1. CASE SFirst /\ exported' = Export(exported, layers, {job.task.new})
  BY <1>1, ExportGives DEF SFirst, Binary
<1>2. ASSUME NEW a \in App, Replaces(a) PROVE \E b \in exported' : Id[b] = Id[job.task.new]
  BY <1>0, <1>2, ReplaceGives
<1>3. CASE Undoes
  BY <1>3 DEF Undoes, SUndo, PulledBack
<1>4. CASE EndsRestored
  <2>1. job.then # "post"
    BY DEF Values, Job
  <2> QED
    BY <1>4, <2>1 DEF EndsRestored, SRestored
<1>5. CASE Others /\ exported' = exported
  <2>1. PICK a \in App : SBusy(a)
    BY <1>5 DEF Others, SListFails, SNothing, SIdle, SUnknown, SPost, SDeps, SLists, SGiveUp,
       SFetched, STooLate, SRestore, LoggedOrUndone, GaveUp, Job, Values
  <2>2. a \in job.task.old /\ layers[<<job.task.new, "binary">>] # "none"
    BY <2>1 DEF SBusy, Binary
  <2>3. HasEntry(Id[job.task.new])
    BY <1>0, <2>2 DEF IconInv, FirstOf
  <2> QED
    BY <1>5, <2>3 DEF HasEntry
<1> QED
  BY <1>1, <1>2, <1>3, <1>4, <1>5, JobEntries

\* What is not a step of a job.
LEMMA OtherFacts ==
    ASSUME Values, Shape, Next, ~JobAction
    PROVE  (\E t \in Task : SAdd(t) \/ SBegin(t)) \/ SRun \/ SDeferred \/ SPrune \/ SReturn
<1>1. CASE \/ \E a \in App : Install(a)
           \/ \E a \in App, m \in Module : InstallModule(a, m) \/ Uninstall(a, m)
           \/ \E a, b \in App : Update(a, b)
  BY <1>1, RequestFacts
<1>2. CASE \E a \in App : Run(a) \/ Exit(a)
  BY <1>2, RunFacts
<1>3. CASE DeferredUninstall \/ Prune \/ Return \/ Begin
  BY <1>3, DeferredFacts, PruneFacts, ReturnFacts, BeginStep
<1> QED
  BY <1>1, <1>2, <1>3 DEF Next, Step, JobAction

\* IconInv is preserved by what is not a step of a job, ...
LEMMA IconOther ==
    ASSUME Values, Shape, RagInv, OldInv, BackInv, LeadInv, IconInv, Next, ~JobAction,
           met \subseteq met', ~ragged' => ~ragged, BackInv', Values'
    PROVE  IconInv'
<1> DEFINE Had(id) == \E b \in exported : Id[b] = id
           Has(id) == \E b \in exported' : Id[b] = id
           new == job.task.new
<1>1. (\E t \in Task : SAdd(t) \/ SBegin(t)) \/ SRun \/ SDeferred \/ SPrune \/ SReturn
  BY OtherFacts
<1>2. \A a \in App : layers'[<<a, "binary">>] # "none" => layers[<<a, "binary">>] # "none"
  BY <1>1, ManagerAssumption DEF SAdd, SBegin, SRun, SDeferred, SPrune, SReturn, AppSame
<1>3. job'.at = "replace" => layers'[<<job'.task.new, "binary">>] # "none"
  <2>1. job'.at = "replace" => job' = job /\ (layers' = layers \/ AppSame)
    BY <1>1 DEF SAdd, SBegin, SRun, SDeferred, SPrune, SReturn, Waiting, Pulling
  <2>2. "binary" \in Module /\ new \in App
    BY JobTyped, ManagerAssumption
  <2> QED
    BY <2>1, <2>2 DEF IconInv, AppSame
<1> SUFFICES ASSUME IconsSpared' PROVE IconInv'
  BY <1>3 DEF IconInv
<1>4. /\ IconsSpared /\ "twice" \notin met' /\ queue \in Seq(Task)
      /\ \A i \in DOMAIN queue : queue[i].kind # "uninstall"
      /\ job.at # "idle" => job.task.kind # "uninstall"
  BY IconsBefore DEF Values
<1>5. \A id : Had(id) => Has(id)
  BY EntriesLast
<1>6. /\ \A id \in owned : Had(id)
      /\ \A a \in App : layers[<<a, "binary">>] # "none" => Had(Id[a]) \/ FirstOf(a)
      /\ \A i \in DOMAIN queue : queue[i].kind = "update" => Had(Id[queue[i].new])
      /\ job.at # "idle" /\ job.task.kind = "update" => Had(Id[new])
      /\ /\ job.at # "idle" /\ job.task.kind = "install" /\ job.task.old # {}
         /\ "binary" \in job.task.mods
         => Had(Id[new])
      /\ job.at # "idle" /\ job.task.kind = "install" /\ job.task.old = {} =>
            job.task.mods = {"binary"}
      /\ job.at = "restore" /\ "binary" \in job.lost => Had(Id[job.of])
      /\ job.at \in {"post", "done"} /\ job.failed = FALSE => Had(Id[new])
  BY <1>4, Zenon DEF IconInv, HasEntry
<1> HIDE DEF Had, Has
<1> DEFINE Icons ==
           /\ \A id \in owned' : Has(id)
           /\ \A a \in App : layers'[<<a, "binary">>] # "none" => Has(Id[a]) \/ FirstOf(a)'
           /\ \A i \in DOMAIN queue' : queue'[i].kind = "update" => Has(Id[queue'[i].new])
           /\ job'.at # "idle" /\ job'.task.kind = "update" => Has(Id[job'.task.new])
           /\ /\ job'.at # "idle" /\ job'.task.kind = "install" /\ job'.task.old # {}
              /\ "binary" \in job'.task.mods
              => Has(Id[job'.task.new])
           /\ job'.at # "idle" /\ job'.task.kind = "install" /\ job'.task.old = {} =>
                 job'.task.mods = {"binary"}
           /\ job'.at = "restore" /\ "binary" \in job'.lost => Has(Id[job'.of])
           /\ job'.at \in {"post", "done"} /\ job'.failed = FALSE => Has(Id[job'.task.new])
<1>7. SUFFICES Icons
  BY <1>3, <1>7, Zenon DEF IconInv, HasEntry, Has
<1>8. CASE SRun \/ SDeferred \/ SPrune
  <2>1. job' = job /\ queue' = queue /\ owned' = owned
    BY <1>8 DEF SRun, SDeferred, SPrune
  <2>2. \A a : FirstOf(a)' <=> FirstOf(a)
    BY <2>1 DEF FirstOf
  <2> QED
    BY <1>2, <1>5, <1>6, <2>1, <2>2
<1>9. ASSUME NEW t \in Task, SAdd(t) PROVE Icons
  <2>1. /\ job' = job /\ owned' = owned /\ layers' = layers /\ queue' = Append(queue, t)
        /\ Patient(Id[t.new])
        /\ t.kind = "update" => \E a \in App : /\ t.old = {a} /\ Id[a] = Id[t.new]
                                               /\ layers[Binary(a)] # "none"
    BY <1>4, <1>9 DEF SAdd
  <2>2. \A a : FirstOf(a)' <=> FirstOf(a)
    BY <2>1 DEF FirstOf
  <2>3. t.kind = "update" => Had(Id[t.new])
    <3> SUFFICES ASSUME t.kind = "update" PROVE Had(Id[t.new])
      OBVIOUS
    <3>1. PICK a \in App : Id[a] = Id[t.new] /\ layers[<<a, "binary">>] # "none"
      BY <2>1 DEF Binary
    <3>2. ~FirstOf(a)
      BY <2>1, <3>1 DEF FirstOf, Patient, Pulling
    <3> QED
      BY <1>6, <3>1, <3>2
  <2>4. \A i \in DOMAIN queue' : queue'[i].kind = "update" => Has(Id[queue'[i].new])
    <3>1. \A i \in DOMAIN queue' : (i \in DOMAIN queue /\ queue'[i] = queue[i]) \/ queue'[i] = t
      BY <1>4, <2>1, AppendFacts
    <3> QED
      BY <1>5, <1>6, <2>3, <3>1
  <2> QED
    BY <1>2, <1>5, <1>6, <2>1, <2>2, <2>4
<1>10. CASE SReturn
  <2>1. /\ job.at = "done" /\ job'.at = "idle" /\ queue' = queue /\ job.failed \in BOOLEAN
        /\ owned' = IF job.failed THEN owned ELSE owned \cup {Id[new]}
    BY <1>4, <1>10 DEF SReturn, Values, Job
  <2>2. \A a : ~FirstOf(a)
    BY <2>1 DEF FirstOf, Pulling
  <2>3. \A id \in owned' : Has(id)
    BY <1>5, <1>6, <2>1
  <2> QED
    BY <1>2, <1>5, <1>6, <2>1, <2>2, <2>3
<1>11. ASSUME NEW t \in Task, SBegin(t) PROVE Icons
  <2>1. /\ job.at = "idle" /\ owned' = owned /\ queue # <<>> /\ t = Head(queue) /\ queue' = Tail(queue)
        /\ layers' = layers
        /\ job'.task.kind = t.kind /\ job'.task.new = t.new /\ job'.task.old = t.old
        /\ job'.lost = {}
    BY <1>11 DEF SBegin
  <2>2. t = queue[1] /\ 1 \in DOMAIN queue
        /\ \A i \in DOMAIN Tail(queue) : i + 1 \in DOMAIN queue /\ Tail(queue)[i] = queue[i + 1]
    BY <1>4, <2>1, TailFacts
  <2>3. GoodTask(t) /\ (t.kind = "install" => t.mods = {"binary"}) /\ t.kind # "uninstall"
    BY <1>4, <2>2 DEF Shape, QueueShape
  <2>4. \A a \in App : layers[<<a, "binary">>] # "none" => Had(Id[a])
    BY <1>6, <2>1 DEF FirstOf, Pulling
  <2>5. ASSUME t.kind = "install", t.old # {}, "binary" \in job'.task.mods PROVE Had(Id[t.new])
    <3>1. job'.task.mods = UNION {Modules(a) : a \in t.old}
      BY <1>11, <2>5 DEF SBegin
    <3>2. PICK a \in t.old : "binary" \in Modules(a)
      BY <2>5, <3>1
    <3>3. a \in App /\ layers[<<a, "binary">>] # "none" /\ Id[a] = Id[t.new]
      BY <2>3, <3>2 DEF Task, Modules, IsInstalled, GoodTask
    <3> QED
      BY <2>4, <3>3
  <2>6. t.kind = "install" /\ t.old = {} => job'.task.mods = {"binary"}
    BY <1>11, <2>3 DEF SBegin
  <2>7. job'.at \in {"list", "done"} /\ (job'.at = "done" => job'.failed = TRUE)
    BY <1>11, <2>3 DEF SBegin
  <2>8. t.kind = "update" => Had(Id[t.new])
    BY <1>6, <2>2
  <2>9. \A i \in DOMAIN queue' : queue'[i].kind = "update" => Has(Id[queue'[i].new])
    BY <1>5, <1>6, <2>1, <2>2
  <2>10. \A a \in App : layers'[<<a, "binary">>] # "none" => Has(Id[a])
    BY <1>5, <2>1, <2>4
  <2> QED
    BY <1>5, <1>6, <2>1, <2>5, <2>6, <2>7, <2>8, <2>9, <2>10
<1> HIDE DEF Icons
<1> QED
  BY <1>1, <1>8, <1>9, <1>10, <1>11

\* What a step of a job does to the module binary: it comes with a task that brings it, ...
LEMMA BinaryComes ==
    ASSUME Values, Shape, OldInv, SJob, "twice" \notin met, ~ragged,
           NEW a \in App, layers'[<<a, "binary">>] # "none", layers[<<a, "binary">>] = "none"
    PROVE  \/ /\ a = job.task.new /\ "binary" \in job.task.mods /\ job.at = "fetch"
              /\ job.task.kind # "module"
              /\ job.task.kind = "install" => job'.at \in Pulling \cup {"installed", "undo"}
           \/ a = job.of /\ job.at = "restore" /\ "binary" \in job.lost
<1>0. "binary" \in Module /\ job.task.new \in App
  BY JobTyped, ManagerAssumption
<1>1. CASE SMove
  BY <1>1 DEF SMove, SListFails, SNothing, SFirst, SIdle, SUnknown, SPost, SRestored, Moved
<1>2. CASE SDeps
  BY <1>0, <1>2 DEF SDeps, AppSame
<1>3. CASE SLists
  BY ZenonT(60), <1>0, <1>3 DEF SLists, Marks
<1>4. CASE SGiveUp
  BY <1>0, <1>4 DEF SGiveUp, AppSame, Rolls
<1>5. CASE SUndo
  BY <1>0, <1>5 DEF SUndo, Marks
<1>6. ASSUME NEW m \in Module, SFetched(m) \/ STooLate(m)
      PROVE  /\ a = job.task.new /\ "binary" \in job.task.mods /\ job.at = "fetch"
             /\ job.task.kind # "module"
             /\ job.task.kind = "install" => job'.at \in Pulling \cup {"installed", "undo"}
  <2>1. job.at = "fetch" /\ m \in job.todo
    BY <1>6 DEF SFetched, STooLate
  <2>2. a = job.task.new /\ m = "binary"
    BY <1>0, <1>6 DEF SFetched, STooLate, Marks
  <2>3. "binary" \in job.task.mods /\ job.task.kind # "module"
    BY <2>1, <2>2 DEF Shape, JobShape, GoodTask, Pulling
  <2>4. job.task.kind = "install" => job'.at \in Pulling \cup {"installed", "undo"}
    BY <1>6 DEF SFetched, STooLate, GaveUp, Pulling
  <2> QED
    BY <2>1, <2>2, <2>3, <2>4
<1>7. ASSUME NEW m \in Module, SRestore(m)
      PROVE  a = job.of /\ job.at = "restore" /\ "binary" \in job.lost
  BY <1>0, <1>7 DEF SRestore, AppSame, Marks
<1>8. ASSUME NEW c \in App, SBusy(c) \/ SReplace(c) PROVE FALSE
  <2>1. Missing(c) = {}
    BY <1>8, JobTyped DEF SBusy, SReplace, OldInv, BeforeEnd, Missing
  <2> QED
    BY <1>0, <1>8, <2>1 DEF SBusy, SReplace, Marks, Missing
<1> QED
  BY <1>1, <1>2, <1>3, <1>4, <1>5, <1>6, <1>7, <1>8 DEF SJob

\* ... and a first installation that does not get to its end is undone.
LEMMA FirstGoesOn ==
    ASSUME Values, Shape, SJob, {"hook", "busy"} \cap met' = {},
           FirstOf(job.task.new), job.task.mods = {"binary"},
           layers'[<<job.task.new, "binary">>] # "none"
    PROVE  job'.at \in Pulling \cup {"installed", "undo", "post"}
<1>0. "binary" \in Module /\ job.task.new \in App
  BY JobTyped, ManagerAssumption
<1>1. job.task.kind = "install" /\ job.task.old = {} /\ job.at \in Pulling \cup {"installed", "undo"}
  BY DEF FirstOf
<1>2. ~SUndo
  <2> SUFFICES ASSUME SUndo PROVE FALSE
    OBVIOUS
  <2>1. ~Whole(job.task)
    BY <1>1 DEF Whole
  <2> DEFINE gone == {m \in job.task.mods : layers[<<job.task.new, m>>] = "none"}
  <2>2. \/ Marks(job.task.new, job.task.mods, "none")
        \/ gone # {} /\ \E some \in SUBSET Module : Marks(job.task.new, some, "none")
    BY <2>1 DEF SUndo
  <2> QED
    BY <1>0, <2>2 DEF Marks
<1> QED
  BY <1>1, <1>2 DEF SJob, SMove, SListFails, SNothing, SFirst, SIdle, SUnknown, SPost, SRestored,
     SDeps, SLists, SGiveUp, SFetched, STooLate, SRestore, SBusy, SReplace, LoggedOrUndone, GaveUp,
     Pulling

\* ... and by the steps of a job.
LEMMA IconJob ==
    ASSUME Values, Shape, RagInv, OldInv, BackInv, LeadInv, IconInv, Next, JobAction,
           met \subseteq met', ~ragged' => ~ragged, BackInv', Values', Shape'
    PROVE  IconInv'
<1> DEFINE Had(id) == \E b \in exported : Id[b] = id
           Has(id) == \E b \in exported' : Id[b] = id
           new == job.task.new
<1>1. SJob /\ Still
  BY JobFacts, JobStill DEF Shape
<1>2. /\ job'.task.new = new /\ job'.task.old = job.task.old /\ job'.task.kind = job.task.kind
      /\ job.at # "idle" /\ job'.at # "idle" /\ queue' = queue /\ owned' = owned
  BY <1>1, OthersUntouched DEF Still
<1>3. job'.at = "replace" => layers'[<<job'.task.new, "binary">>] # "none"
  BY <1>1, <1>2 DEF SJob, SMove, SListFails, SNothing, SFirst, SIdle, SUnknown, SPost, SRestored, Moved,
     LoggedOrUndone, SDeps, SLists, SGiveUp, GaveUp, SUndo, SFetched, STooLate, SRestore, SBusy,
     SReplace, PulledBack, Binary, Values, Job
<1> SUFFICES ASSUME IconsSpared' PROVE IconInv'
  BY <1>3 DEF IconInv
<1>4. /\ IconsSpared /\ EntriesSpared /\ "twice" \notin met /\ ~ragged
      /\ {"hook", "busy"} \cap met' = {}
      /\ job.task.kind # "uninstall"
  BY <1>2, IconsBefore
<1>5. \A id : Had(id) => Has(id)
  BY EntriesLast
<1>6. /\ \A id \in owned : Had(id)
      /\ \A a \in App : layers[<<a, "binary">>] # "none" => Had(Id[a]) \/ FirstOf(a)
      /\ \A i \in DOMAIN queue : queue[i].kind = "update" => Had(Id[queue[i].new])
      /\ job.task.kind = "update" => Had(Id[new])
      /\ job.task.kind = "install" /\ job.task.old # {} /\ "binary" \in job.task.mods
         => Had(Id[new])
      /\ job.task.kind = "install" /\ job.task.old = {} => job.task.mods = {"binary"}
      /\ job.at = "restore" /\ "binary" \in job.lost => Had(Id[job.of])
      /\ job.at \in {"post", "done"} /\ job.failed = FALSE => Had(Id[new])
  BY <1>2, <1>4, Zenon DEF IconInv, HasEntry
<1>7. job.at # "post" /\ job'.at = "post" => Has(Id[new])
  BY <1>4, EntryGiven
<1> HIDE DEF Had, Has
<1>8. /\ job'.task.mods \subseteq job.task.mods
      /\ job.task.mods = {"binary"} => job'.task.mods = {"binary"}
  <2>1. CASE SLists
    <3>1. job'.task.mods = job.task.mods \cap Offers[new] /\ job'.task.mods # {}
      BY <2>1 DEF SLists
    <3> QED
      BY <3>1
  <2>2. CASE ~SLists
    <3>1. job'.task = job.task
      BY <1>1, <2>2 DEF SJob, SMove, SListFails, SNothing, SFirst, SIdle, SUnknown, SPost, SRestored,
         Moved, SDeps, SGiveUp, SUndo, SFetched, STooLate, SRestore, SBusy, SReplace, PulledBack, Kept
    <3> QED
      BY <3>1
  <2> QED
    BY <2>1, <2>2
<1>9. ASSUME NEW a \in App, layers'[<<a, "binary">>] # "none" PROVE Has(Id[a]) \/ FirstOf(a)'
  <2>1. CASE layers[<<a, "binary">>] = "none"
    <3>1. CASE a = job.of /\ job.at = "restore" /\ "binary" \in job.lost
      BY <1>5, <1>6, <3>1
    <3>2. CASE /\ a = new /\ "binary" \in job.task.mods /\ job.at = "fetch"
               /\ job.task.kind # "module"
               /\ job.task.kind = "install" => job'.at \in Pulling \cup {"installed", "undo"}
      <4>1. job.task.kind \in {"install", "update"}
        BY <1>4, <3>2 DEF Values, Job, Task
      <4> QED
        BY <1>2, <1>5, <1>6, <3>2, <4>1 DEF FirstOf
    <3> QED
      BY <1>1, <1>4, <1>9, <2>1, <3>1, <3>2, BinaryComes
  <2>2. CASE layers[<<a, "binary">>] # "none" /\ FirstOf(a)
    <3>1. a = new /\ job.task.kind = "install" /\ job.task.old = {} /\ job.at # "post"
      BY <2>2 DEF FirstOf, Pulling
    <3>2. job.task.mods = {"binary"}
      BY <1>6, <3>1
    <3>3. job'.at \in Pulling \cup {"installed", "undo", "post"}
      BY <1>1, <1>4, <1>9, <2>2, <3>1, <3>2, FirstGoesOn
    <3> QED
      BY <1>2, <1>7, <3>1, <3>3 DEF FirstOf
  <2> QED
    BY <1>5, <1>6, <2>1, <2>2
<1>10. job'.at = "restore" /\ "binary" \in job'.lost => Has(Id[job'.of])
  <2> SUFFICES ASSUME job'.at = "restore", "binary" \in job'.lost PROVE Has(Id[job'.of])
    OBVIOUS
  <2>1. CASE \E m \in Module : SRestore(m)
    BY <1>5, <1>6, <2>1 DEF SRestore
  <2>2. CASE SUndo
    <3>1. ~Whole(job.task) /\ job.at = "undo"
      BY <1>4, <2>2 DEF Whole, SUndo
    <3> DEFINE gone == {m \in job.task.mods : layers[<<new, m>>] = "none"}
    <3>2. PICK some \in SUBSET Module :
             gone # {} /\ Some(some, job.task.mods, gone) /\ PulledBack(new, some, TRUE, "done")
      BY <2>2, <3>1 DEF SUndo
    <3>3. job'.of = new /\ job'.lost = some /\ "binary" \in job.task.mods /\ "binary" \notin gone
      BY <3>2 DEF PulledBack, Some
    <3>4. job.task.mods # {"binary"}
      BY <3>2, <3>3
    <3>5. job.task.kind = "install"
      BY <1>4, <3>1, <3>3 DEF Shape, JobShape, GoodTask, Values, Job, Task
    <3> QED
      BY <1>5, <1>6, <3>3, <3>4, <3>5
  <2>3. ASSUME NEW a \in App, SReplace(a) PROVE FALSE
    <3>1. Missing(a) = {}
      BY <1>4, <2>3, JobTyped DEF SReplace, OldInv, BeforeEnd, Missing
    <3> QED
      BY <2>3, <3>1 DEF SReplace
  <2> QED
    BY <1>1, <2>1, <2>2, <2>3 DEF SJob, SMove, SListFails, SNothing, SFirst, SIdle, SUnknown, SPost,
       SRestored, LoggedOrUndone, SDeps, SLists, SGiveUp, GaveUp, SFetched, STooLate, SBusy,
       Values, Job
<1>11. job'.at \in {"post", "done"} /\ job'.failed = FALSE => Has(Id[new])
  <2> SUFFICES ASSUME job'.at = "done", job'.failed = FALSE PROVE Has(Id[new])
    <3>1. CASE job.at # "post"
      BY <1>7, <3>1
    <3>2. CASE job.at = "post" /\ job'.at = "post"
      BY <1>1, <3>2 DEF SJob, SMove, SListFails, SNothing, SFirst, SIdle, SUnknown, SPost,
       SRestored, LoggedOrUndone, SDeps, SLists, SGiveUp, GaveUp, SUndo, SFetched, STooLate,
       SRestore, SBusy, SReplace, Pulling
    <3> QED
      BY <3>1, <3>2
  <2>1. CASE SNothing \/ SUnknown
    BY <1>5, <1>6, <2>1 DEF SNothing, SUnknown, LoggedOrUndone
  <2>2. CASE SPost
    BY <1>4, <1>5, <1>6, <2>2 DEF SPost
  <2>3. ~SUndo
    BY <1>4 DEF SUndo, Shape, JobShape, PulledBack
  <2>4. ~SRestored
    <3> SUFFICES ASSUME SRestored PROVE FALSE
      OBVIOUS
    <3>1. job.at = "restore" /\ job.of = new /\ job.failed = FALSE
      BY <1>4 DEF SRestored, OldInv
    <3> QED
      BY <3>1 DEF Shape, JobShape, GoodTask
  <2>5. ~ \E a \in App : SBusy(a) \/ SReplace(a)
    <3> SUFFICES ASSUME NEW a \in App, SBusy(a) \/ SReplace(a) PROVE FALSE
      OBVIOUS
    <3>1. Missing(a) = {}
      BY <1>4, JobTyped DEF SBusy, SReplace, OldInv, BeforeEnd, Missing
    <3> QED
      BY <3>1 DEF SBusy, SReplace
  <2> QED
    BY <1>1, <2>1, <2>2, <2>3, <2>4, <2>5 DEF SJob, SMove, SListFails, SFirst, SIdle, SDeps, SLists,
       SGiveUp, GaveUp, SFetched, STooLate, SRestore
<1> QED
  <2>1. \A id \in owned' : Has(id)
    BY <1>2, <1>5, <1>6
  <2>2. \A i \in DOMAIN queue' : queue'[i].kind = "update" => Has(Id[queue'[i].new])
    BY <1>2, <1>5, <1>6
  <2>3. /\ job'.task.kind = "update" => Has(Id[job'.task.new])
        /\ job'.task.kind = "install" /\ job'.task.old # {} /\ "binary" \in job'.task.mods
           => Has(Id[job'.task.new])
        /\ job'.task.kind = "install" /\ job'.task.old = {} => job'.task.mods = {"binary"}
    BY <1>2, <1>5, <1>6, <1>8
  <2>4. job'.at \in {"post", "done"} /\ job'.failed = FALSE => Has(Id[job'.task.new])
    BY <1>2, <1>11
  <2> QED
    BY <1>3, <1>9, <1>10, <2>1, <2>2, <2>3, <2>4, Zenon DEF IconInv, HasEntry, Has

\* IconInv is preserved.
LEMMA IconStep ==
    ASSUME Values, Shape, RagInv, OldInv, BackInv, LeadInv, IconInv, Next,
           met \subseteq met', ~ragged' => ~ragged, BackInv', Values', Shape'
    PROVE  IconInv'
  BY IconOther, IconJob

-----------------------------------------------------------------------------
(* The theorems.                                                           *)

\* The parts of the inductive invariant.
Safe == /\ Values /\ Shape /\ FailInv /\ TwiceInv /\ LiveInv /\ RagInv /\ OldInv /\ BackInv
        /\ UninstallInv /\ OwnInv /\ SingleInv /\ RunInv /\ DepsInv /\ PrunedInv /\ OrderInv
        /\ LeadInv /\ IconInv

\* The inductive invariant.
Inv == Flags /\ NeverAddedTwice /\ Safe

\* The invariant holds at the start, ...
LEMMA InitInv == Init => Inv
<1>1. Init => NeverAddedTwice
  BY Zenon DEF Init, NeverAddedTwice
<1> QED
  BY <1>1, InitType, InitShape, InitFail, InitTwice, InitLive, InitOld, InitBack, InitUninstall,
     InitOwn, InitSingle, InitRun, InitDeps, InitPruned, InitOrder, InitLead, InitIcon, Zenon
     DEF Inv, Safe

\* ... is preserved by every step, ...
LEMMA StepSafe == ASSUME Safe, Next PROVE Safe' /\ met \subseteq met'
<1> USE DEF Safe
<1>1. SAny /\ Values' /\ met \subseteq met' /\ Shape' /\ (~ragged' => ~ragged /\ ~Mixed')
  BY StepFacts, ShapeStep
<1>2. TwiceInv'
  BY <1>1, TwiceStep
<1>3. FailInv' /\ LiveInv' /\ UninstallInv' /\ PrunedInv'
  BY <1>1, FailStep, LiveStep, UninstallStep, PrunedStep
<1>4. RagInv'
  BY <1>1 DEF RagInv
<1>5. OldInv'
  BY <1>1, OldStep
<1>6. BackInv'
  BY <1>1, <1>2, BackStep
<1>7. OwnInv'
  BY <1>1, <1>2, OwnStep
<1>8. SingleInv'
  BY <1>1, <1>2, <1>5, SingleStep
<1>9. RunInv'
  BY <1>1, RunStep
<1>10. DepsInv'
  BY <1>1, DepsStep
<1>11. OrderInv'
  BY <1>1, <1>2, OrderStep
<1>12. LeadInv'
  BY <1>1, LeadStep
<1>13. IconInv'
  BY <1>1, <1>6, IconStep
<1> QED
  BY <1>1, <1>2, <1>3, <1>4, <1>5, <1>6, <1>7, <1>8, <1>9, <1>10, <1>11, <1>12, <1>13

\* ... and by stuttering.
LEMMA StutterInv == ASSUME Inv, UNCHANGED vars PROVE Inv'
<1> USE DEF vars
<1>1. Flags' /\ NeverAddedTwice'
  BY Zenon DEF Inv, Flags, NeverAddedTwice, Spared
<1>2. Values' /\ Shape'
  BY DEF Inv, Safe, Values, Shape, QueueShape, JobShape
<1>3. FailInv'
  BY DEF Inv, Safe, FailInv, Clean, Within, InPlace
<1>4. TwiceInv'
  BY DEF Inv, Safe, TwiceInv, Apart, NotYet
<1>5. LiveInv' /\ UninstallInv'
  BY DEF Inv, Safe, LiveInv, InPlace, Smooth, UninstallInv
<1>6. RagInv' /\ OldInv'
  BY ZenonT(60) DEF Inv, Safe, RagInv, Mixed, OldInv
<1>7. BackInv'
  <2>1. broken' = broken /\ ragged' = ragged /\ met' = met /\ queue' = queue /\ job' = job
        /\ layers' = layers
    BY Zenon
  <2>2. \A a \in App : Hidden(a)' = Hidden(a)
    BY <2>1 DEF Hidden
  <2>3. \A a, b \in App : Backs(b, a)' = Backs(b, a)
    BY <2>1 DEF Backs, Listed
  <2>4. (\E b \in App : Backs(b, job.task.new)) => \E b \in App : Backs(b, job.task.new)'
    BY <2>1 DEF Backs, Listed
  <2> QED
    BY <2>1, <2>2, <2>3, <2>4 DEF Inv, Safe, BackInv
<1>8. OwnInv'
  BY DEF Inv, Safe, OwnInv, Keeps
<1>9. SingleInv'
  BY DEF Inv, Safe, SingleInv, Live, Unfinished
<1>10. RunInv' /\ DepsInv' /\ PrunedInv'
  BY DEF Inv, Safe, RunInv, DepsInv, Along, Uses, PrunedInv, Untroubled, Pending
<1>11. OrderInv'
  BY ZenonT(60) DEF Inv, Safe, OrderInv, Plainly, Above, Backs, Listed, Hidden, Live, Pending
<1>12. LeadInv'
  BY ZenonT(60) DEF Inv, Safe, LeadInv, EntriesSpared, Spared
<1>13. IconInv'
  BY ZenonT(60) DEF Inv, Safe, IconInv, IconsSpared, EntriesSpared, Spared, HasEntry, FirstOf
<1> QED
  BY <1>1, <1>2, <1>3, <1>4, <1>5, <1>6, <1>7, <1>8, <1>9, <1>10, <1>11, <1>12, <1>13 DEF Inv, Safe

\* The inductive invariant: what each of the properties below needs to hold from one step
\* of the package manager to the next.
THEOREM Invariance == Spec => []Inv
<1>1. Inv /\ [Next]_vars => Inv'
  <2> SUFFICES ASSUME Inv, [Next]_vars PROVE Inv'
    OBVIOUS
  <2>1. CASE Next
    <3>1. Safe' /\ met \subseteq met'
      BY <2>1, StepSafe DEF Inv
    <3>2. NeverAddedTwice'
      BY <2>1, <3>1, FlagStep DEF Inv, Safe
    <3>3. Flags'
      BY <2>1, FlagsStep DEF Inv
    <3> QED
      BY <3>1, <3>2, <3>3 DEF Inv
  <2>2. CASE UNCHANGED vars
    BY <2>2, StutterInv
  <2> QED
    BY <2>1, <2>2
<1> QED
  BY <1>1, InitInv, PTL DEF Spec

\* Every variable keeps its type, in the jobs and in whatever runs between their steps.
THEOREM TypeCorrect == Spec => []TypeOK
<1>1. Inv => TypeOK
  BY TypeParts DEF Inv, Safe
<1> QED
  BY <1>1, Invariance, PTL

\* An application that was installed and not uninstalled has a version to run, whatever
\* remotes, clients and containers do: Install() and Update() remove the old version only
\* when InstallRef() has brought the new one.
THEOREM InstalledStays == Spec => []NeverLost
<1>1. Inv => NeverLost
  <2> SUFFICES ASSUME Inv, Idle, Spared({"hook", "twice"}), ~ragged, NEW id \in owned
               PROVE  \E a \in App : Id[a] = id /\ IsLive(a)
    BY DEF NeverLost
  <2>1. job.at = "idle" /\ met \cap {"hook", "twice"} = {}
    BY DEF Idle, Spared
  <2>2. \E a \in App : Keeps(a, id)
    BY <2>1 DEF Inv, Safe, OwnInv
  <2> QED
    BY <2>2 DEF Keeps, IsLive, Binary
<1> QED
  BY <1>1, Invariance, PTL

\* Between tasks at most one version of an application is listed, because a job knows
\* every listed version of its application and removes or hides the one it replaces.
THEOREM OneVersionStays == Spec => []SingleVersion
<1>1. Inv => SingleVersion
  <2> SUFFICES ASSUME Inv, Idle, Spared({"net", "cancel", "hook", "busy", "twice"}), ~ragged,
                      NEW a \in App, NEW b \in App, Id[a] = Id[b], IsLive(a), IsLive(b)
               PROVE  a = b
    BY DEF SingleVersion
  <2>1. job.at = "idle" /\ Live(a) /\ Live(b)
        /\ met \cap {"net", "cancel", "hook", "busy", "twice"} = {}
    BY DEF Idle, Spared, IsLive, Live, Binary
  <2>2. ~Unfinished
    BY <2>1 DEF Unfinished, Pulling
  <2> QED
    BY <2>1, <2>2 DEF Inv, Safe, SingleInv
<1> QED
  BY <1>1, Invariance, PTL

\* An installation that fails leaves no module that was not there before, through the
\* nested transactions of Install(), InstallRef() and UninstallRef().
THEOREM FailuresAreUndone == Spec => []FailedInstallLeavesNothing
<1>1. Inv => FailedInstallLeavesNothing
  <2> SUFFICES ASSUME Inv, job.at = "done", job.failed, job.task.kind = "install",
                      Spared({"cancel"})
               PROVE  Modules(job.task.new) \subseteq job.before
    BY DEF FailedInstallLeavesNothing, At
  <2>1. job.failed = TRUE /\ "cancel" \notin met
    BY DEF Inv, Safe, Values, Job, Spared
  <2>2. Clean
    BY <2>1 DEF Inv, Safe, FailInv
  <2> QED
    BY <2>2 DEF Clean, Modules, IsInstalled
<1> QED
  BY <1>1, Invariance, PTL

\* Desktop entries lead to layers, and an application that is installed keeps one: the new
\* version is exported before the old one is removed, and neither a rollback nor
\* deferredUninstall() takes away the entry of a version that stays.
THEOREM EntriesStay == Spec => []EntriesKept
<1>1. Inv => EntriesLead
  <2> SUFFICES ASSUME Inv, Idle, EntriesSpared, NEW a \in exported PROVE IsInstalled(a, "binary")
    BY DEF EntriesLead
  <2> QED
    BY DEF Inv, Safe, LeadInv, Idle, IsInstalled
<1>2. Inv => IconsKept
  <2> SUFFICES ASSUME Inv, EntriesSpared, Spared({"uninstall", "bare"}), Idle, NEW id \in owned
               PROVE  \E a \in exported : Id[a] = id /\ IsInstalled(a, "binary")
    BY DEF IconsKept, IconsAlwaysKept
  <2>1. PICK a \in exported : Id[a] = id
    BY DEF Inv, Safe, IconInv, IconsSpared, HasEntry
  <2>2. IsInstalled(a, "binary")
    BY DEF Inv, Safe, LeadInv, Idle, IsInstalled
  <2> QED
    BY <2>1, <2>2
<1> QED
  BY <1>1, <1>2, Invariance, PTL DEF EntriesKept

\* What is in use is kept: pullDependency() and its rollback, Prune(), and the busy check
\* of removeAfterInstall() neither take the runtime and the base from an application that
\* is listed or running, nor the layer it runs from.
THEOREM UsedIsKept == Spec => []InUseKept
<1>1. Inv => DependenciesKept
  <2> SUFFICES ASSUME Inv, NEW a \in App \ lame, IsLive(a) \/ a \in running,
                      NEW d \in ToSet(Needs[a])
               PROVE  IsLive(d)
    BY DEF DependenciesKept
  <2>1. Uses(a)
    BY DEF Uses, IsLive, Binary
  <2> QED
    BY <2>1 DEF Inv, Safe, DepsInv, IsLive
<1>2. Inv => NoneLame
  <2> SUFFICES ASSUME Inv, Idle, Spared({"net", "cancel", "hook"}),
                      Spared({"prune"}) \/ Spared({"twice", "uninstall", "downgrade"}),
                      NEW a \in lame, IsLive(a)
               PROVE  Needs[a] = <<>>
    BY DEF NoneLame
  <2>1. ~Pending(a) /\ Live(a)
    BY DEF Idle, Pending, DepStates, Live, IsLive, Binary
  <2>2. CASE Spared({"prune"})
    BY <2>1, <2>2 DEF Spared, Untroubled, Inv, Safe, PrunedInv
  <2>3. CASE Spared({"twice", "uninstall", "downgrade"})
    <3>1. Plainly
      BY <2>3 DEF Spared, Plainly
    <3> QED
      BY <2>1, <3>1 DEF Inv, Safe, OrderInv
  <2> QED
    BY <2>2, <2>3
<1>3. Inv => RunningKept
  BY DEF Inv, Safe, RunInv, RunningKept, Spared, IsInstalled
<1> QED
  BY <1>1, <1>2, <1>3, Invariance, PTL DEF InUseKept

\* What the code takes for granted holds: no job adds a layer that is listed already, and
\* deferredUninstall() finds a version to export in place of each one it removes.
THEOREM NothingIsAssumed == Spec => []AssertionsHold
<1>1. Inv => AssertionsHold
  <2>1. Inv => NoUndefined
    BY DEF Inv, Safe, BackInv, NoUndefined, Spared
  <2>2. Inv => TypeOK
    BY TypeParts DEF Inv, Safe
  <2>3. Inv => NeverAddedTwice
    BY DEF Inv
  <2> QED
    BY <2>1, <2>2, <2>3 DEF AssertionsHold
<1> QED
  BY <1>1, Invariance, PTL

=============================================================================
