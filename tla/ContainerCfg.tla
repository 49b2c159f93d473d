----------------------------- MODULE ContainerCfg -----------------------------
(* ContainerCfgBuilder: the mounts a container asks for, in the order of mergeMount(), and
   the self adjusting of these mounts.  Layers are read-only, so that a mount whose
   destination a layer lacks needs a tmpfs in place of one of the layer's directories, with
   all other entries of that directory bound again.  A path is a sequence of names, a layer
   the set of its paths; links are leaves, so that no path leads through one.  Environment, capabilities, namespaces and id mappings are left out. *)
EXTENDS Naturals, Sequences, FiniteSets, SequencesExt, FiniteSetsExt

CONSTANTS
    Content,     \* layer -> its paths
    Symlinks,    \* layer -> the paths that are symbolic links
    Dangling,    \* layer -> the links that lead to nothing
    Host,        \* paths the host has, of those that are bound if they exist
    Features,    \* sets of what the builder was asked for
    Extras,      \* mounts of addExtraMount(), and of a patch
    BaseRo       \* the base is read-only

VARIABLES pc, features, patched, tree, todo, kept
vars == <<pc, features, patched, tree, todo, kept>>

LayerNames == DOMAIN Content
Mnt(dest, type, layer, path, ro, link) ==
    [dest |-> dest, type |-> type, layer |-> layer, path |-> path, ro |-> ro, link |-> link]
Tmpfs(dest) == Mnt(dest, "tmpfs", "none", <<>>, FALSE, FALSE)
HostBind(dest) == Mnt(dest, "bind", "host", dest, FALSE, FALSE)
LayerBind(dest, layer) == Mnt(dest, "bind", layer, <<>>, TRUE, FALSE)
BindIfExist(dest) == IF dest \in Host THEN <<[HostBind(dest) EXCEPT !.ro = TRUE]>> ELSE <<>>
If(f, mounts) == IF f \in features THEN mounts ELSE <<>>

Init == pc = "idle" /\ features = {} /\ patched = <<>> /\ tree = << >> /\ todo = {} /\ kept = {}

(* What build() refuses: a mount without the one it lies on. *)
Buildable(f) == /\ "xdg" \in f => "run" \in f
                /\ "ipc" \in f => "xdg" \in f
                /\ "private" \in f => "home" \in f
                /\ "ldcache" \in f => "cache" \in f
                /\ "display" \in f => "run" \in f

Home == <<"home", "u">>
BuildMountRuntime == If("runtime", <<LayerBind(<<"runtime">>, "runtime")>>)
BuildMountApp == If("app", <<Tmpfs(<<"opt">>), LayerBind(<<"opt", "apps", "id", "files">>, "app")>>)
ExtensionMounts == If("extension", <<[HostBind(<<"opt", "extensions", "e">>) EXCEPT !.ro = TRUE]>>)
BindDefault == <<HostBind(<<"sys">>), [Tmpfs(<<"proc">>) EXCEPT !.type = "proc"],
                 Tmpfs(<<"dev">>), Tmpfs(<<"dev", "shm">>)>>
BindDevNode == If("devnode", <<HostBind(<<"dev", "dri">>)>>)
BindCgroup == If("cgroup", <<[Tmpfs(<<"sys", "fs", "cgroup">>) EXCEPT !.type = "cgroup"]>>)
BuildXDGRuntime == If("run", <<Tmpfs(<<"run">>)>>) \o If("xdg", <<HostBind(<<"run", "user">>)>>)
BindTmp == <<HostBind(<<"tmp">>)>>
BindUserGroup == If("users", <<[HostBind(<<"etc", "passwd">>) EXCEPT !.ro = TRUE]>>)
BindRemovableStorageMounts == If("media", <<[HostBind(<<"media">>) EXCEPT !.ro = TRUE, !.link = TRUE]>>)
BindHostRoot == If("hostroot", <<Tmpfs(<<"run", "host">>), HostBind(<<"run", "host", "rootfs">>)>>)
BindHostStatics == If("statics", BindIfExist(<<"etc", "machine-id">>) \o BindIfExist(<<"usr", "share", "icons">>))
BuildMountHome == If("home", <<Tmpfs(<<"home">>), HostBind(Home)>>)
BuildDisplaySystem == If("display", <<Tmpfs(<<"tmp", "X11">>), HostBind(<<"tmp", "X11", "X0">>),
                                      HostBind(<<"run", "linglong", "Xauthority">>)>>)
BuildMountIPC == If("ipc", <<HostBind(<<"run", "dbus">>), HostBind(<<"run", "user", "bus">>)>>)
BuildMountCache == If("cache", <<HostBind(<<"run", "linglong", "cache">>)>>)
BuildLDCache == If("ldcache", <<[HostBind(<<"etc", "ld.so.cache">>) EXCEPT !.ro = TRUE]>>)
BuildMountLocalTime == <<[HostBind(<<"etc", "localtime">>) EXCEPT !.link = TRUE]>>
                       \o BindIfExist(<<"usr", "share", "zoneinfo">>)
BuildMountNetworkConf == <<IF "hostroot" \in features
                           THEN [HostBind(<<"etc", "resolv.conf">>) EXCEPT !.link = TRUE]
                           ELSE [HostBind(<<"etc", "resolv.conf">>) EXCEPT !.ro = TRUE]>>
                         \o BindIfExist(<<"etc", "hosts">>)
BuildPrivateMapped == If("private", <<HostBind(Home \o <<".private">>)>>)
BuildEnv == <<[HostBind(<<"etc", "profile.d", "00env.sh">>) EXCEPT !.ro = TRUE]>>

MergeMount ==
    BuildMountRuntime \o BuildMountApp \o ExtensionMounts \o BindDefault \o BindDevNode \o BindCgroup
    \o BuildXDGRuntime \o BindTmp \o BindUserGroup \o BindRemovableStorageMounts \o BindHostRoot
    \o BindHostStatics \o BuildMountHome \o BuildDisplaySystem \o BuildMountIPC \o BuildMountCache \o BuildLDCache
    \o BuildMountLocalTime \o BuildMountNetworkConf \o BuildPrivateMapped \o BuildEnv \o If("extra", Extras)

(* build() up to the patches. *)
Build(f) ==
    /\ pc = "idle" /\ features' = f
    /\ pc' = IF Buildable(f) THEN "patch" ELSE "error"
    /\ UNCHANGED <<patched, tree, todo, kept>>

(* applyPatch(): one that fails is skipped. *)
ApplyPatch ==
    /\ pc = "patch" /\ pc' = "adjust"
    /\ patched' \in {MergeMount} \cup {Append(MergeMount, m) : m \in ToSet(Extras)}
    /\ UNCHANGED <<features, tree, todo, kept>>

(* The tree of mount points: path -> node; the root is the path <<>>. *)
Node(mount, ro) == [mount |-> mount, ro |-> ro]
ProperPrefixes(p) == Prefixes(p) \ {p}

(* A mount whose destination is a node already is dropped. *)
InsertChildRecursively(t, m) ==
    IF m.dest \in DOMAIN t THEN t
    ELSE [p \in DOMAIN t \cup Prefixes(m.dest) |->
             IF p \in DOMAIN t THEN t[p] ELSE IF p = m.dest THEN Node({m}, m.ro) ELSE Node({}, TRUE)]

ConstructMountpointsTree(mounts) ==
    FoldLeft(InsertChildRecursively, [p \in {<<>>} |-> Node({}, BaseRo)], mounts)

AdjustNodeOnly(t, node, layer, path, fixPath) ==
    [p \in DOMAIN t |-> IF p = node /\ node # <<>> THEN Node({Tmpfs(node)}, t[node].ro) ELSE t[p]]

(* adjustNode(): the node becomes a tmpfs, every entry of the directory it showed is bound,
   but those something is mounted on and the one that is to be replaced. *)
AdjustNode(t, node, layer, path, fixPath) ==
    LET entries == {q \in Content[layer] : Len(q) = Len(path) + 1 /\ path \in Prefixes(q) /\ q # fixPath}
        child(q) == Append(node, Last(q))
        source(p) == Append(path, Last(p))
        bound == {child(q) : q \in entries}
        bind(p) == Mnt(p, "bind", layer, source(p), t[node].ro, source(p) \in Symlinks[layer])
    IN  [p \in DOMAIN t \cup bound |->
            CASE p = node /\ node # <<>> -> Node({Tmpfs(node)}, t[node].ro)
              [] p \in bound \ DOMAIN t -> Node({bind(p)}, FALSE)
              [] p \in bound \cap DOMAIN t /\ p # <<>> /\ t[p].mount = {} -> Node({bind(p)}, t[p].ro)
              [] OTHER -> t[p]]

MountAt(t, p) == CHOOSE m \in t[p].mount : TRUE
MountedAbove(t, p) == {q \in ProperPrefixes(p) : t[q].mount # {}}
NearestMountNode(t, p) == CHOOSE q \in MountedAbove(t, p) : \A r \in MountedAbove(t, p) : Len(r) <= Len(q)
SourceOf(t, mounted, p) == MountAt(t, mounted).path \o SubSeq(p, Len(mounted) + 1, Len(p))

(* exists() follows links. *)
Exists(layer) == Content[layer] \ Dangling[layer]

(* shouldFix(): below a layer, what the layer lacks, a link it has a file for, or localtime. *)
ShouldFix(t, p) ==
    /\ t[p].mount # {} /\ MountedAbove(t, p) # {}
    /\ LET mounted == NearestMountNode(t, p)  layer == MountAt(t, mounted).layer IN
         /\ MountAt(t, mounted).type = "bind" /\ layer \in LayerNames
         /\ \/ p = <<"etc", "localtime">>
            \/ SourceOf(t, mounted, p) \notin Exists(layer)
            \/ MountAt(t, p).link /\ SourceOf(t, mounted, p) \notin Symlinks[layer]

(* The nearest ancestor the layer has is adjusted. *)
Fixed(t, p) ==
    LET mounted == NearestMountNode(t, p)
        layer == MountAt(t, mounted).layer
        fixPath == SourceOf(t, mounted, p)
        there == Max({k \in 0 .. Len(fixPath) - 1 : SubSeq(fixPath, 1, k) \in Exists(layer)})
    IN  AdjustNode(t, SubSeq(p, 1, Len(p) - (Len(fixPath) - there)), layer, SubSeq(fixPath, 1, there), fixPath)

(* selfAdjustingMount(), first half: the entries of the base are bound to a writable root. *)
SelfAdjustingMount ==
    /\ pc = "adjust" /\ pc' = "fix"
    /\ LET t == ConstructMountpointsTree(patched) IN
         /\ tree' = AdjustNode(t, <<>>, "base", <<>>, <<"none">>)
         /\ kept' = UNION {t[p].mount : p \in DOMAIN t}
    /\ todo' = DOMAIN tree' \ {<<>>}
    /\ UNCHANGED <<features, patched>>

(* tryFixMountpointsTree(): children before their parents, level by level; a node that is
   fine leaves the tree as it is. *)
TryFixMountpointsTree ==
    /\ pc = "fix" /\ todo # {}
    /\ LET deepest == {p \in todo : \A q \in todo : Len(q) <= Len(p)}
           bad == {p \in deepest : ShouldFix(tree, p)}
       IN  \/ bad = {} /\ todo' = todo \ deepest /\ UNCHANGED tree
           \/ \E p \in bad : tree' = Fixed(tree, p) /\ todo' = todo \ {p}
    /\ UNCHANGED <<pc, features, patched, kept>>

(* generateMounts(): by depth, so that the tree is the result. *)
GenerateMounts == /\ pc = "fix" /\ todo = {} /\ pc' = "done"
                  /\ UNCHANGED <<features, patched, tree, todo, kept>>

Next == \/ \E f \in Features : Build(f)
        \/ ApplyPatch \/ SelfAdjustingMount \/ TryFixMountpointsTree \/ GenerateMounts

Spec == Init /\ [][Next]_vars

\* What a path of the container shows: the source of the nearest mount at or above it.
Shows(t, p) ==
    LET at == {q \in Prefixes(p) : q \in DOMAIN t /\ t[q].mount # {}}
        q == CHOOSE x \in at : \A y \in at : Len(y) <= Len(x)
    IN  IF at = {} THEN <<"root", p>> ELSE <<MountAt(t, q).layer, SourceOf(t, q, p)>>

\* The mounts of a finished configuration can be made, and hide nothing: a mount point below
\* a layer exists in that layer, and is a link there if it is to be made one (shouldFix(),
\* adjustNode(), however the nodes are ordered in tryFixMountpointsTree()); every mount asked
\* for and not dropped is there, with its own source unless it is a layer; and every file of
\* a layer that no such mount covers still shows this file.
MountsFit ==
    pc = "done" =>
      /\ \A p \in DOMAIN tree \ {<<>>} : ~ShouldFix(tree, p)
      /\ \A m \in kept : /\ tree[m.dest].mount # {}
                         /\ m.layer \notin LayerNames => tree[m.dest].mount = {m}
      /\ \A m \in kept \cup {Mnt(<<>>, "bind", "base", <<>>, BaseRo, FALSE)} : m.layer \in LayerNames =>
           \A q \in Content[m.layer] :
             LET p == m.dest \o q IN
               \/ \E k \in kept \ {m} : p \in Prefixes(k.dest) \/ (k.dest \in Prefixes(p) /\ m.dest \in Prefixes(k.dest))
               \/ q = <<>>
               \/ Shows(tree, p) = <<m.layer, q>>
==============================================================================
