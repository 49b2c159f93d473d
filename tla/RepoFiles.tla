----------------------------- MODULE RepoFiles -----------------------------
(***************************************************************************)
(* The files of a repository side by side: those OSTreeRepo writes while   *)
(* layers come and go, and those a start of ll-builder reads and writes    *)
(* before (BuilderRepo).  The two share no state here.                     *)
(***************************************************************************)
EXTENDS OSTreeRepo, BuilderRepo

RepoFilesSpec == Spec /\ BuilderSpec
-----------------------------------------------------------------------------
\* What the files on disk say of one another is true however writing them fails: a listed
\* layer is checked out although states.json cannot be written; a migrated repository has
\* the directories of its layers; the remotes are those of config.yaml (see the modules for
\* what each spares).
FilesAgree == CheckedOut /\ MigratedWhole /\ RemotesConfigured
=============================================================================
