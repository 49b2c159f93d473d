------------------------------- MODULE Bundle --------------------------------
(* `ll-builder export`: UABPackager collects layers below .uabBuild, packs them and puts the
   .uab in place.  A file of a layer is a record of its name, its layer and the revision of
   the layer it was taken from; a layer directory in .uabBuild holds such files and the
   components beside them (info.json, entries, ...).  An export may fail at every step, and
   then removes .uabBuild, or be killed, and then leaves it to the next one. *)
EXTENDS Naturals, FiniteSets, Sequences, SequencesExt, TLC

CONSTANTS
    Layers,      \* layer id -> [kind, files, links, outside], links: symbolic link -> its
                 \* target, outside: file outside lib/<triplet> -> the same name below that
    Exports,     \* what export is called for: [ref, runtime, exclude, include, black, needed,
                 \* loader, icon]; ref is NoRef for the project itself
    MaxExports, MaxRevision

Ids == DOMAIN Layers
NoRef == "none"
ASSUME BundleAssumption ==
    /\ {"base", "runtime", "app"} \subseteq Ids /\ NoRef \notin Ids /\ Exports # {}
    /\ \A k \in {"base", "runtime", "app"} : Layers[k].kind = k
    /\ \A id \in Ids : \A n \in DOMAIN Layers[id].outside :
          Layers[id].outside[n] \notin DOMAIN Layers[id].links
    /\ \A e \in Exports : e.ref \in Ids \cup {NoRef} /\ {e.runtime, e.loader} \subseteq BOOLEAN
File(n, id, r) == [name |-> n, layer |-> id, rev |-> r]
NamesOf(fs) == {f.name : f \in fs}

VARIABLES
    upc, export,
    utodo,       \* layers still to prepare
    urev,        \* revision of every layer in the repository
    dirs,        \* .uabBuild/bundle/layers: id -> [comp, files], comp 0 while missing
    tools,       \* .uabBuild/bundle: loader, extra files and ll-box
    icons,       \* members of .uabBuild/icon.a
    meta,        \* listed layers: set of [id, minified]
    uuid,        \* the application's info.json names the uuid of this bundle
    got,         \* .uabBuild: the uab-header, uab-loader and ll-box of the builder utils
    from,        \* those of them this export uses, the others are the system's
    uab,         \* the exported file, if there is one
    left,        \* layers the killed export before left with files but no components
    exports

bundleVars == <<upc, export, utodo, urev, dirs, tools, icons, meta, uuid, got, from, uab, left,
                exports>>

NoExport == CHOOSE e \in Exports : TRUE
NoDirs == [id \in Ids |-> [comp |-> 0, files |-> {}]]

BundleInit ==
    /\ upc = "idle" /\ export = NoExport /\ utodo = <<>> /\ urev = [id \in Ids |-> 1]
    /\ dirs = NoDirs /\ tools = {} /\ icons = 0 /\ meta = {} /\ uuid = FALSE
    /\ got = {} /\ from = {} /\ uab = {} /\ left = {} /\ exports = 0

(* The destructor: every return from the export goes through it. *)
CleanUp == dirs' = NoDirs /\ tools' = {} /\ icons' = 0 /\ got' = {}
\* The packager itself goes with the process.
ExportEnds ==
    /\ upc' = "idle" /\ export' = NoExport /\ utodo' = <<>> /\ meta' = {} /\ uuid' = FALSE
    /\ from' = {} /\ left' = {}
ExportFails ==
    /\ upc # "idle" /\ ExportEnds
    /\ CleanUp \/ UNCHANGED <<dirs, tools, icons, got>>
    /\ UNCHANGED <<urev, uab, exports>>
FailHere == ExportEnds /\ CleanUp

Distributed(e) == e.ref # NoRef

(* exportUAB(): the layers appended, in this order; the black list and the libraries that
   main-check.sh found are only loaded for a project with a runtime. *)
AppendLayers(e) ==
    IF Distributed(e) THEN <<e.ref>>
    ELSE IF e.runtime THEN <<"base", "runtime", "app">> ELSE <<"base", "app">>
LoadBlackList(e) == IF e.runtime THEN e.black ELSE {}
LoadNeededFiles(e) == IF e.runtime THEN e.needed ELSE {}
Wanted(e) == LoadNeededFiles(e) \ LoadBlackList(e)

(* exportUAB() up to pack(): nothing is cleared, the directory is only created. *)
StartExport(e) ==
    /\ upc = "idle" /\ exports < MaxExports
    /\ export' = e /\ utodo' = AppendLayers(e) /\ meta' = {} /\ uuid' = FALSE /\ upc' = "utils"
    /\ left' = {id \in Ids : dirs[id].comp = 0 /\ dirs[id].files # {}}
    /\ exports' = exports + 1 /\ from' = {}
    /\ UNCHANGED <<urev, dirs, tools, icons, got, uab>>

(* ensureUtils(): the builder utils, and the base and runtime they run on, are pulled if they
   are missing; any of it may fail. *)
EnsureUtils == BOOLEAN

(* runFromRepo() of ll-builder-export: it writes what it is asked for; a failing one, ldconfig
   before it included, writes nothing or a part. *)
Asked(e) == {"uab-header", "uab-loader"} \cup (IF Distributed(e) THEN {} ELSE {"ll-box"})
RunFromRepo(e) == {[ok |-> TRUE, files |-> Asked(e)], [ok |-> FALSE, files |-> {}],
                   [ok |-> FALSE, files |-> {"uab-header"}]}

(* Header and loader are only used together. *)
Usable(e, files) ==
    (IF {"uab-header", "uab-loader"} \subseteq files THEN {"uab-header", "uab-loader"} ELSE {})
    \cup (files \cap Asked(e) \cap {"ll-box"})

(* exportUAB() tries the builder utils; without them, or when running them fails, the header,
   loader and box are the system's, whatever files a failing run has left. *)
FetchUtils ==
    /\ upc = "utils" /\ upc' = "icon"
    /\ \E found \in EnsureUtils :
         IF found THEN \E run \in RunFromRepo(export) :
                         /\ got' = got \cup run.files
                         /\ from' = IF run.ok THEN Usable(export, got') ELSE {}
         ELSE UNCHANGED <<got, from>>
    /\ UNCHANGED <<export, utodo, urev, dirs, tools, icons, meta, uuid, uab, left, exports>>

(* prepareExecutableBundle(): the base is erased from the list, and the runtime if there is a
   loader of its own. *)
Erased(e) == IF Distributed(e) THEN <<e.ref>>
             ELSE IF e.runtime /\ ~e.loader THEN <<"runtime", "app">> ELSE <<"app">>

(* packIcon(): `ar q` appends to an archive that is there. *)
PackIcon ==
    /\ upc = "icon" /\ upc' = "layers"
    /\ icons' = IF export.icon THEN icons + 1 ELSE icons
    /\ utodo' = Erased(export)
    /\ UNCHANGED <<export, urev, dirs, tools, meta, uuid, got, from, uab, left, exports>>

(* expandPaths(): an entry a layer lacks is an error, one that is a link stands for nothing. *)
Expandable(l) == export.exclude \cup export.include \subseteq l.files
Expand(l, entries) == entries \ DOMAIN l.links

(* filteringFiles() *)
Excluded(l) == Expand(l, export.exclude) \ Expand(l, export.include)
Filtered(l) == (l.files \ (LoadBlackList(export) \cup Excluded(l))) \cup Expand(l, export.include)
Minified(l) == Excluded(l) \ LoadBlackList(export) # {}

(* prepareSymlink(): the links on the way and what they lead to, as far as the layer has it;
   a chain that is too deep is one way to fail. *)
Closed(l, names) == \A n \in names \cap DOMAIN l.links : l.links[n] \in l.files => l.links[n] \in names
Follow(l, names) ==
    {n \in l.files : \A some \in SUBSET l.files :
                       names \cap l.files \subseteq some /\ Closed(l, some) => n \in some}

(* Links replace what is there, a file that is there stays. *)
Linked(old, id, names) ==
    LET l == Layers[id]
        keep == {f \in old : f.name \notin names \cap DOMAIN l.links}
    IN  keep \cup {File(n, id, urev[id]) : n \in names \ NamesOf(keep)}

BaseId == CHOOSE id \in Ids : Layers[id].kind = "base"

(* What a library found by ldd-check stands for in the base, unless it is on the black list. *)
NeededFiles == Follow(Layers[BaseId], Wanted(export))

(* Where a library of the base goes: one from outside lib/<triplet> to that directory. *)
Place(l, n) == IF n \in DOMAIN l.outside \ DOMAIN l.links THEN l.outside[n] ELSE n

(* A runtime gets those too, unless it has a file of that name.  The links to them were made
   where they are in the base, before the place of the file is changed. *)
WithNeeded(files) ==
    LET l == Layers[BaseId]
        linked == Linked(files, BaseId, NeededFiles \cap DOMAIN l.links)
        copied == {n \in NeededFiles \ DOMAIN l.links : Place(l, n) \notin NamesOf(linked)}
    IN  linked \cup {File(Place(l, n), BaseId, urev[BaseId]) : n \in copied}

(* A library that is not there, or a link to one, is an error. *)
NeededThere ==
    LET l == Layers[BaseId] IN
      /\ Wanted(export) \subseteq l.files
      /\ \A n \in NeededFiles \cap DOMAIN l.links : l.links[n] \in l.files

CopyComponentsAgain(id) ==
    /\ upc = "layers" /\ utodo # <<>> /\ ~Distributed(export) /\ id = Head(utodo)
    /\ IF ~Expandable(Layers[id]) THEN FailHere
       ELSE /\ dirs' = [dirs EXCEPT ![id].comp = urev[id]] /\ upc' = "files"
            /\ UNCHANGED <<export, tools, icons, got, from, left, utodo, meta, uuid>>
    /\ UNCHANGED <<urev, uab, exports>>

(* prepareExecutableBundle(), first step for a layer: a component that is there is an error,
   the first of several, so an export killed among them is as good as one killed after. *)
CopyComponents(id) ==
    /\ upc = "layers" /\ utodo # <<>> /\ ~Distributed(export) /\ id = Head(utodo)
    /\ IF ~Expandable(Layers[id]) \/ dirs[id].comp # 0 THEN FailHere
       ELSE /\ dirs' = [dirs EXCEPT ![id].comp = urev[id]] /\ upc' = "files"
            /\ UNCHANGED <<export, tools, icons, got, from, left, utodo, meta, uuid>>
    /\ UNCHANGED <<urev, uab, exports>>

(* ... second and third step: the filtered files, then the layer is listed; a runtime gets
   the libraries of the base the application needs, the application the uuid if a layer
   listed so far, its own included, lacks files. *)
CopyFiles ==
    /\ upc = "files"
    /\ LET id == Head(utodo)  l == Layers[id]
           own == Linked(dirs[id].files, id, Follow(l, Filtered(l)))
           all == IF l.kind = "runtime" THEN WithNeeded(own) ELSE own
           minified == Minified(l) \/ \E m \in meta : m.minified
       IN  IF l.kind = "runtime" /\ ~NeededThere
           THEN FailHere
           ELSE /\ dirs' = [dirs EXCEPT ![id].files = all]
                /\ meta' = meta \cup {[id |-> id, minified |-> Minified(l)]}
                /\ uuid' = (uuid \/ (l.kind = "app" /\ minified))
                /\ utodo' = Tail(utodo) /\ upc' = "layers"
                /\ UNCHANGED <<export, tools, icons, got, from, left>>
    /\ UNCHANGED <<urev, uab, exports>>

(* prepareDistributedBundle(): a recursive copy, in the order of the directory; a file that
   is there is an error. *)
CopyLayer ==
    /\ upc = "layers" /\ utodo # <<>> /\ Distributed(export)
    /\ LET id == Head(utodo)  all == {File(n, id, urev[id]) : n \in Layers[id].files} IN
         IF dirs[id].comp # 0 \/ dirs[id].files # {} THEN FailHere
         ELSE /\ \/ dirs' = [dirs EXCEPT ![id].comp = urev[id]]
                 \/ \E f \in all : dirs' = [dirs EXCEPT ![id].files = {f}]
              /\ upc' = "copying"
              /\ UNCHANGED <<export, tools, icons, got, from, left, utodo, meta, uuid>>
    /\ UNCHANGED <<urev, uab, exports>>
LayerCopied ==
    /\ upc = "copying" /\ upc' = "layers" /\ utodo' = Tail(utodo)
    /\ LET id == Head(utodo) IN
         /\ dirs' = [dirs EXCEPT ![id] = [comp |-> urev[id],
                                          files |-> {File(n, id, urev[id]) : n \in Layers[id].files}]]
         /\ meta' = meta \cup {[id |-> id, minified |-> FALSE]}
    /\ UNCHANGED <<export, urev, tools, icons, uuid, got, from, uab, left, exports>>

(* The loader, the profile and the triplets of the base, and ll-box.  That they are there
   is an error, which does not happen: what left them has left components, too, at which
   CopyComponents stops. *)
Tools == CASE Distributed(export) -> {} [] export.loader -> {"loader", "extra"}
           [] OTHER -> {"loader", "extra", "box"}
CopyTools ==
    /\ upc = "layers" /\ utodo = <<>>
    /\ IF Tools \cap tools # {} THEN FailHere
       ELSE /\ tools' = tools \cup Tools /\ upc' = "bundle"
            /\ UNCHANGED <<export, dirs, icons, got, from, left, utodo, meta, uuid>>
    /\ UNCHANGED <<urev, uab, exports>>

(* packBundle() after the copies, packMetaInfo(), and the removal of the .uab there. *)
PackBundle ==
    /\ upc = "bundle" /\ upc' = "publish" /\ uab' = {}
    /\ UNCHANGED <<export, utodo, urev, dirs, tools, icons, meta, uuid, got, from, left, exports>>

Publish ==
    /\ upc = "publish" /\ ExportEnds /\ CleanUp
    /\ uab' = {[meta |-> meta, dirs |-> dirs, tools |-> tools, uuid |-> uuid, icons |-> icons,
                export |-> export, revs |-> urev, left |-> left, from |-> from]}
    /\ UNCHANGED <<urev, exports>>

(* A layer is built or pulled anew between two exports. *)
Rebuild(id) ==
    /\ upc = "idle" /\ urev[id] < MaxRevision /\ urev' = [urev EXCEPT ![id] = @ + 1]
    /\ UNCHANGED <<upc, export, utodo, dirs, tools, icons, meta, uuid, got, from, uab, left, exports>>

BundleNext ==
    \/ \E e \in Exports : StartExport(e)
    \/ FetchUtils \/ PackIcon \/ (\E id \in Ids : CopyComponents(id)) \/ CopyFiles
    \/ CopyLayer \/ LayerCopied
    \/ CopyTools \/ PackBundle \/ Publish \/ ExportFails \/ \E id \in Ids : Rebuild(id)

BundleSpec == BundleInit /\ [][BundleNext]_bundleVars

\* Whatever earlier exports were interrupted: an exported bundle lists the layers asked for,
\* each with its components and files of the revision in the repository, and no link is
\* packed without the file it leads to in its layer, or, for a link of the base that the
\* runtime got, with that file in lib/<triplet> (UABPackager::pack() does not clear .uabBuild
\* first; layers a killed distributed export left with files and without components
\* excepted); nothing but excluded and blacklisted files is missing, and if an excluded one
\* is, the application names this bundle's uuid (prepareExecutableBundle(), filteringFiles()).
ExportedIsOneBuild ==
    \A u \in uab :
      LET e == u.export
          asked == {id \in ToSet(AppendLayers(e)) :
                      \/ Distributed(e) \/ Layers[id].kind = "app"
                      \/ Layers[id].kind = "runtime" /\ ~e.loader}
      IN  /\ {m.id : m \in u.meta} = asked
          /\ ~Distributed(e) => "loader" \in u.tools
          /\ "uab-loader" \in u.from => "uab-header" \in u.from
          /\ \A m \in u.meta :
               LET l == Layers[m.id]  dir == u.dirs[m.id]  names == NamesOf(dir.files)
               IN  /\ dir.comp = u.revs[m.id]
                   /\ m.id \notin u.left =>
                        \A f \in dir.files :
                          LET links == Layers[f.layer].links IN
                            /\ f.rev = u.revs[f.layer]
                            /\ f.name \in DOMAIN links /\ links[f.name] \in Layers[f.layer].files =>
                                  \/ links[f.name] \in names
                                  \/ f.layer # m.id /\ Place(Layers[f.layer], links[f.name]) \in names
                   /\ Distributed(e) => names = l.files
                   /\ l.files \ (e.exclude \cup LoadBlackList(e)) \subseteq names
                   /\ (l.files \ LoadBlackList(e)) \subseteq names \/ u.uuid
                   /\ l.kind = "runtime" /\ ~Distributed(e) =>
                        \A n \in Wanted(e) : Place(Layers[BaseId], n) \in names
==============================================================================
