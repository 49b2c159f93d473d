---------------------------- MODULE PackageTask ----------------------------
(***************************************************************************)
(* class PackageTask: the state a client sees of one request to the        *)
(* package manager, and the calls that change it.  A task is a record of   *)
(*   state, sub   m_state and m_subState,                                  *)
(*   parts        m_taskParts, the parts completed so far,                 *)
(*   flag         the GCancellable, set once and never cleared.            *)
(* Percentages and messages only decorate these and are left out.          *)
(***************************************************************************)
EXTENDS Naturals

State == {"Queued", "Processing", "PartCompleted", "Succeed", "Failed", "Canceled"}

Terminal == {"Succeed", "Failed", "Canceled"}

SubState == {"Unknown", "PreAction", "InstallApplication", "InstallRuntime",
             "InstallBase", "Uninstall", "PostAction", "AllDone",
             "PackageManagerDone"}

TaskRecord == [state : State, sub : SubState, parts : Nat, flag : BOOLEAN]

\* A task just built by addNewTask().
FreshTask == [state |-> "Queued", sub |-> "Unknown", parts |-> 0, flag |-> FALSE]

\* isTaskDone() looks at the sub-state only.
IsTaskDone(k) == k.sub \in {"AllDone", "PackageManagerDone"}

UpdateSubState(k, sub) == [k EXCEPT !.sub = sub]

\* (mutant) a completed part is counted and never makes a success.
UpdateStateNeverSucceeds(k, refs, new) ==
    [k EXCEPT !.parts = IF new = "PartCompleted" THEN @ + 1 ELSE @,
              !.state = new,
              !.sub = IF new \in Terminal THEN "AllDone" ELSE @]

\* updateState() of a task with refs references: completing the last part, or
\* any call once all parts are completed, means success.
UpdateState(k, refs, new) ==
    LET parts == IF new = "PartCompleted" THEN k.parts + 1 ELSE k.parts
        state == IF parts = refs THEN "Succeed" ELSE new
    IN  [k EXCEPT !.parts = parts,
                  !.state = state,
                  !.sub = IF state \in Terminal THEN "AllDone" ELSE @]

ReportError(k) == [k EXCEPT !.state = "Failed", !.sub = "AllDone"]

Cancel(k, refs) == IF k.state = "Canceled" THEN k
                   ELSE [UpdateState(k, refs, "Canceled") EXCEPT !.flag = TRUE]
=============================================================================
