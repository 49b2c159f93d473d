----------------------------- MODULE MCRepoFiles -----------------------------
(* Two scenes, one of which a behaviour is about: a repository whose states.json cannot be
   written (OSTreeRepo), and the files ll-builder reads and writes around its repository when it
   starts (BuilderRepo).  They share no state. *)
EXTENDS MCOSTreeRepo, RepoFiles

CONSTANTS one, two
VARIABLE scene

Repo(u) == [url |-> u, mirror |-> FALSE]
SystemConfig == [default |-> one, repos |-> one :> Repo("u")]
CustomConfig == [default |-> two, repos |-> one :> Repo("u") @@ two :> Repo("v")]
TwoLayers == {[id |-> "app", module |-> m] : m \in {"binary", "runtime"}}
ThisVersion == <<1, 10, 0>>
\* Before and after the change of the layout, and one operator<() takes for older.
FiveVersions == {<<1, 5, 0>>, <<1, 6, 9>>, <<1, 7, 0>>, <<1, 9, 13>>, <<2, 0, 0>>}

ScenesInit ==
    /\ scene \in {"layers", "builder"}
    /\ Init /\ BuilderInit
    /\ scene # "builder" => ~opened
ScenesNext ==
    /\ UNCHANGED scene
    /\ \/ scene = "layers" /\ Next /\ UNCHANGED builderVars
       \/ scene = "builder" /\ BuilderNext /\ UNCHANGED vars
ScenesSpec == ScenesInit /\ [][ScenesNext]_<<scene, vars, builderVars>>
=============================================================================
