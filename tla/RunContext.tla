----------------------------- MODULE RunContext -----------------------------
(***************************************************************************)
(* RunContext and RuntimeLayer (runtime/run_context.cpp): which layers a   *)
(* container is made of.  `view' is the list of layers the calling process *)
(* has loaded, `dirs' the layer directories that exist on the disk: another *)
(* process may have removed a directory since the list was loaded.         *)
(*                                                                         *)
(* Info[ref] is the PackageInfoV2 of a layer: kind, id, ver, and the ids   *)
(* of its base, its runtime (or None) and its extensions.  Left out: the   *)
(* order of extensions and the environment they add, displays and device   *)
(* files, permissions.                                                     *)
(***************************************************************************)
EXTENDS Integers

CONSTANTS Refs, Info

None == "none"

\* References are not empty, and of any layers one is newest: there are finitely many.
ASSUME RefsAssumption ==
    /\ None \notin Refs
    /\ \A S \in SUBSET Refs \ {{}} : \E r \in S : \A s \in S : Info[s].ver <= Info[r].ver

Failed == [ok |-> FALSE]

\* clearReference() on local layers only: the newest layer in the list with this id.
ClearReference(view, id) ==
    LET found == {r \in view : Info[r].id = id}
    IN  IF found = {} THEN None
        ELSE CHOOSE r \in found : \A s \in found : Info[s].ver <= Info[r].ver

\* resolveExtension(): extensions that are not installed are ignored.
ResolveExtension(view, ref) ==
    {ClearReference(view, id) : id \in Info[ref].exts} \ {None}

\* RunContext::resolveLayer() and RuntimeLayer::resolveLayer(): the directory of each
\* layer.  A base, app or runtime without one is an error; an extension without one is
\* ignored and stays in the list.
ResolveLayer(dirs, ctx) ==
    LET needed == {ctx.base, ctx.app, ctx.runtime} \ {None}
    IN  IF needed \subseteq dirs
        THEN [ctx EXCEPT !.resolved = (needed \cup ctx.exts) \cap dirs]
        ELSE Failed

\* resolve() of something installed.  A base alone gets no layer directory.
Resolve(view, dirs, ref, opts) ==
    LET kind == Info[ref].kind
        runtimeId == IF opts.runtime # None THEN opts.runtime ELSE Info[ref].runtime
        runtime == IF kind = "runtime" THEN ref
                   ELSE IF runtimeId = None THEN None
                   ELSE ClearReference(view, runtimeId)
        base == ClearReference(view, IF opts.base # None THEN opts.base ELSE Info[ref].base)
        ctx == [ok |-> TRUE, app |-> IF kind = "app" THEN ref ELSE None, runtime |-> runtime,
                base |-> base, resolved |-> {}, output |-> None,
                exts |-> (IF runtime = None THEN {} ELSE ResolveExtension(view, runtime))
                           \cup (IF base = None THEN {} ELSE ResolveExtension(view, base))]
    IN  IF kind = "base"
        THEN [ok |-> TRUE, app |-> None, runtime |-> None, base |-> ref, resolved |-> {},
              output |-> None, exts |-> ResolveExtension(view, ref)]
        ELSE IF \/ kind \notin {"app", "runtime"}
                \/ kind = "app" /\ runtimeId # None /\ runtime = None
                \/ base = None
        THEN Failed
        ELSE ResolveLayer(dirs, ctx)

\* resolve() of a project that is being built; its runtime must be made for the same base.
ResolveProject(view, dirs, project) ==
    LET base == ClearReference(view, project.base)
        runtime == IF project.runtime = None THEN None ELSE ClearReference(view, project.runtime)
    IN  IF \/ project.kind \notin {"extension", "app", "runtime"}
           \/ base = None
           \/ project.runtime # None
                /\ \/ runtime = None
                   \/ ClearReference(view, Info[runtime].base) # base
        THEN Failed
        ELSE ResolveLayer(dirs, [ok |-> TRUE, app |-> None, runtime |-> runtime, base |-> base,
                                 resolved |-> {}, output |-> project.kind, exts |-> {}])

\* What fillContextCfg() mounts.  It takes the directory of the base and of each
\* extension without looking whether there is one.
Mounted(ctx) == ({ctx.base, ctx.app, ctx.runtime} \cup ctx.exts) \ {None}
FillUndefined(ctx) == ~ (({ctx.base} \cup ctx.exts) \subseteq ctx.resolved)

\* stateInfo(), the record in /run/linglong/<uid>/<pid>.
StateInfo(id, ctx) == [id |-> id, app |-> ctx.app, refs |-> Mounted(ctx)]
=============================================================================
