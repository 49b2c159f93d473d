------------------------- MODULE MCPackageTaskQueue -------------------------
(***************************************************************************)
(* Instances of PackageTaskQueue: which kinds of tasks the clients ask for.*)
(***************************************************************************)
EXTENDS PackageTaskQueue, TLC

CONSTANTS t1, t2, t3

\* A remote installation, an update of two applications, an uninstallation.
KindsRemote == t1 :> "install" @@ t2 :> "update" @@ t3 :> "uninstall"
TwoForUpdate == t1 :> 1 @@ t2 :> 2 @@ t3 :> 1

\* A layer, a module and a bundle.
KindsFile == t1 :> "layer" @@ t2 :> "module" @@ t3 :> "uab"
OneEach == t1 :> 1 @@ t2 :> 1 @@ t3 :> 1
=============================================================================
