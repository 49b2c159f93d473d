---------------------------- MODULE MCOSTreeRepo ----------------------------
(***************************************************************************)
(* Instances of OSTreeRepo: one package with its modules binary (b) and    *)
(* develop (d) from a remote, and an imported layer (f).                   *)
(***************************************************************************)
EXTENDS OSTreeRepo, TLC

CONSTANTS b, d, f, app, other

TwoModules == b :> app @@ d :> app
ThreeLayers == b :> app @@ d :> app @@ f :> other
=============================================================================
