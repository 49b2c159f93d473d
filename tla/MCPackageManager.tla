-------------------------- MODULE MCPackageManager --------------------------
(***************************************************************************)
(* Instances of PackageManager for TLC: two versions of one application,   *)
(* which need different runtimes and the same base, and an application     *)
(* that shares the runtime of the first.                                   *)
(***************************************************************************)
EXTENDS PackageManager

CONSTANTS a1, a2, b1, r1, r2, s

TwoVersions == {a1, a2}
Neighbours == {a1, a2, b1}
SameId == a1 :> "a" @@ a2 :> "a"
OwnIds == SameId @@ b1 :> "b"
OneAndTwo == a1 :> 1 @@ a2 :> 2
AllVersions == OneAndTwo @@ b1 :> 1
Platform == {r1, r2, s}
OwnRuntime == a1 :> <<r1, s>> @@ a2 :> <<r2, s>>
SharedRuntime == OwnRuntime @@ b1 :> <<r1, s>>
TwoModules == {"binary", "develop"}
Everything == a1 :> TwoModules @@ a2 :> TwoModules
BinaryForOne == Everything @@ b1 :> {"binary"}

\* Bound: histories of more than three requests are followed only while they are about the
\* two versions and nothing worse than a failing remote or a cancellation has happened.
LongIfPlain ==
    asked > 3 => /\ met \subseteq {"net", "cancel", "downgrade", "uninstall", "early"}
                 /\ b1 \in App => \A m \in Module : layers[<<b1, m>>] = "none"
                 /\ \A i \in DOMAIN queue : queue[i].new # b1
=============================================================================
