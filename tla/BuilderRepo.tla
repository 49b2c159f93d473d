---------------------------- MODULE BuilderRepo ----------------------------
(***************************************************************************)
(* What a start of ll-builder does to its repository before a command is   *)
(* served: it loads config.yaml, brings an old repository to the layout of *)
(* this version (tryMigrate(), which ll-package-manager calls as well),    *)
(* moves away one that cannot be brought there, opens or creates it; and   *)
(* `ll-builder repo', which edits the configuration.  The process may be   *)
(* killed between any two writes.  One process runs at a time.             *)
(***************************************************************************)
EXTENDS Integers, Sequences, FiniteSets

CONSTANTS
    BuilderLayers,  \* layers, [id, module]; one commit each
    Aliases,        \* names of repositories
    System,         \* the configuration of the system: [default, repos]
    Custom,         \* one a user may have written
    Versions,       \* what .version may hold at first, 1.5.0 standing for no file
    Current,        \* LINGLONG_VERSION
    MaxStarts

VARIABLES
    pc,
    starts,
    config,      \* config.yaml: {} when it is missing or empty, or {its content}
    remotes,     \* remotes of the ostree repository: alias -> [url, mirror]
    opened,      \* the ostree repository exists
    version,     \* .version, <<>> when it is empty
    brefs,       \* <<remote, layer>>, with no remote in an old repository
    old,         \* layers that have a directory of the old layout
    bdirs,       \* layers that have layers/<commit>, a directory or a link
    mine,        \* OSTreeRepo::cfg of the process
    next,        \* the configuration it is writing
    todo,        \* layers it has still to link
    unlinked,    \* history: a start ended between the transaction and the last link
    torn         \* history: the configuration was last written in part, or is the one of a
                 \* repository that has been moved away

files == <<config, remotes, opened, version, brefs, old, bdirs>>
histories == <<unlinked, torn>>
builderVars == <<pc, starts, files, mine, next, todo, histories>>

NoRemote == "no remote"
LocalRemote == "local"

\* A configuration: its default is one of its repositories.
Repository == [url : {"u", "v"}, mirror : BOOLEAN]
IsConfiguration(c) ==
    /\ c = [default |-> c.default, repos |-> c.repos]
    /\ DOMAIN c.repos \subseteq Aliases /\ c.repos \in [DOMAIN c.repos -> Repository]
    /\ c.default \in DOMAIN c.repos

\* Versions that kept layers without a remote.
OldLayout(v) == v[1] = 1 /\ v[2] < 7

ASSUME ConfigurationAssumption ==
    NoRemote \notin Aliases /\ IsConfiguration(System) /\ IsConfiguration(Custom)
ASSUME CurrentAssumption == ~OldLayout(Current)

\* operator<: a smaller part anywhere will do.
Older(v, w) == v[1] < w[1] \/ v[2] < w[2] \/ v[3] < w[3]

Content(f) == CHOOSE c \in f : TRUE
LoadConfig == IF config = {} THEN System ELSE Content(config)

BuilderInit ==
    /\ pc = "off" /\ starts = 0
    /\ config \in {{}, {Custom}}
    /\ version \in Versions
    /\ opened \in BOOLEAN
    /\ IF ~opened
       THEN version = <<1, 5, 0>> /\ config = {} /\ brefs = {} /\ old = {} /\ bdirs = {} /\ remotes = <<>>
       ELSE /\ remotes = LoadConfig.repos
            /\ \E S \in SUBSET BuilderLayers, T \in SUBSET BuilderLayers :
                 IF OldLayout(version)
                 THEN T \subseteq S /\ brefs = {NoRemote} \X S /\ old = T /\ bdirs = {}
                 ELSE /\ brefs = ({LoadConfig.default} \X S) \cup ({LocalRemote} \X T)
                      /\ old = {} /\ bdirs = S \cup T
    /\ mine = System /\ next = System /\ todo = {}
    /\ unlinked = FALSE /\ torn = FALSE

Goto(p) == pc' = p /\ UNCHANGED starts
Exit == Goto("off")

StartBuilder ==
    /\ pc = "off" /\ starts < MaxStarts /\ starts' = starts + 1 /\ pc' = "migrate"
    /\ mine' = LoadConfig
    /\ UNCHANGED <<files, next, todo, histories>>

---------------------------------------------------------------------------
\* Migration

\* (mutant) the version is written before the refs are migrated.
TryMigrateStamped ==
    /\ pc = "migrate"
    /\ IF version = Current THEN Goto("open") ELSE Goto("refs")
    /\ version' = Current
    /\ UNCHANGED <<config, remotes, opened, brefs, old, bdirs, mine, next, todo, histories>>

\* tryMigrate(): nothing is done for a repository of this version, an unreadable .version
\* fails.  dispatchMigrations() has one migration, for what is older than 1.7.0.
TryMigrate ==
    /\ pc = "migrate"
    /\ \/ version = Current /\ Goto("open")
       \/ version = <<>> /\ Goto("failed")
       \/ /\ version \notin {Current, <<>>}
          /\ \/ opened /\ Older(version, <<1, 7, 0>>) /\ Goto("refs")
             \/ ~(opened /\ Older(version, <<1, 7, 0>>)) /\ Goto("version")
             \/ opened /\ Goto("failed")
    /\ UNCHANGED <<files, mine, next, todo, histories>>

\* The refs to migrate are those that are not under the default repository.  One that is
\* there already is left out, but the prefix it is looked up with grows in the loop, so only
\* the first one looked at (any) is found, if it has no remote of its own.
NeedMigrate(first) ==
    LET all == {r \in brefs : r[1] # mine.default}
    IN {r \in all : r = first /\ r[1] = NoRemote => <<mine.default, r[2]>> \notin brefs}

\* migrateRef() up to its transaction.
MigrateRef ==
    /\ pc = "refs"
    /\ \/ /\ \A r \in brefs : r[1] = mine.default
          /\ Goto("version") /\ UNCHANGED <<brefs, todo>>
       \/ \E first \in {r \in brefs : r[1] # mine.default} :
            IF NeedMigrate(first) = {} THEN Goto("version") /\ UNCHANGED <<brefs, todo>>
            ELSE \/ /\ brefs' = brefs \cup {<<mine.default, r[2]>> : r \in {s \in NeedMigrate(first) : s[1] = NoRemote}}
                    /\ todo' = {r[2] : r \in {s \in NeedMigrate(first) : s[1] = NoRemote}}
                    /\ Goto("link") \/ (old = {} /\ Goto("failed"))
                 \/ Goto("failed") /\ UNCHANGED <<brefs, todo>>
    /\ UNCHANGED <<config, remotes, opened, version, old, bdirs, mine, next, histories>>

\* The directory of the old layout; a module runtime may have that of binary.
Source(l) == l \in old \/ (l.module = "runtime" /\ [l EXCEPT !.module = "binary"] \in old)

\* One link of migrateRef(); a layer without a directory is passed over.
Link(l) ==
    /\ pc = "link" /\ l \in todo
    /\ \/ /\ bdirs' = IF Source(l) THEN bdirs \cup {l} ELSE bdirs
          /\ todo' = todo \ {l} /\ UNCHANGED <<pc, starts, unlinked>>
       \/ /\ Source(l) /\ l \notin bdirs
          /\ unlinked' = TRUE /\ Goto("failed") /\ UNCHANGED <<bdirs, todo>>
    /\ UNCHANGED <<config, remotes, opened, version, brefs, old, mine, next, torn>>

Linked ==
    /\ pc = "link" /\ todo = {} /\ Goto("version")
    /\ UNCHANGED <<files, mine, next, todo, histories>>

\* .version is truncated when it is opened and written afterwards.
OpenVersion ==
    /\ pc = "version"
    /\ \/ version' = <<>> /\ Goto("stamp")
       \/ UNCHANGED version /\ Goto("failed")
    /\ UNCHANGED <<config, remotes, opened, brefs, old, bdirs, mine, next, todo, histories>>
Stamp ==
    /\ pc = "stamp" /\ version' = Current /\ Goto("open")
    /\ UNCHANGED <<config, remotes, opened, brefs, old, bdirs, mine, next, todo, histories>>

\* A failed migration ends ll-package-manager.  ll-builder moves the repository away and
\* goes on with a new one, or removes it and gives up, or gives up with it in place.
Gone == /\ config' = {} /\ remotes' = <<>> /\ opened' = FALSE /\ version' = <<1, 5, 0>>
        /\ brefs' = {} /\ old' = {} /\ bdirs' = {} /\ unlinked' = FALSE
BackupFailedMigrationRepo ==
    /\ pc = "failed" /\ todo' = {}
    /\ \/ Gone /\ Goto("open") /\ torn' = (mine # System)
       \/ Gone /\ Exit /\ torn' = FALSE
       \/ Exit /\ UNCHANGED <<files, unlinked, torn>>
    /\ UNCHANGED <<mine, next>>

---------------------------------------------------------------------------
\* The repository and its configuration

Part(f, S) == [a \in S |-> f[a]]

\* What updateOstreeRepoConfig() may leave when it does not end: it deletes the remotes one
\* by one and then adds those of the new configuration.
Halfway(new) == {Part(remotes, S) : S \in SUBSET DOMAIN remotes} \cup {Part(new, S) : S \in SUBSET DOMAIN new}

\* OSTreeRepo(): an existing repository is opened and its remotes are left alone; a new one
\* gets those of the configuration in memory.
OpenRepo ==
    /\ pc = "open" /\ opened' = TRUE
    /\ \/ opened /\ Goto("ready") /\ UNCHANGED <<remotes, torn>>
       \/ ~opened /\ Goto("ready") /\ remotes' = mine.repos /\ UNCHANGED torn
       \/ /\ ~opened /\ Exit /\ torn' = TRUE
          /\ remotes' \in Halfway(mine.repos)
    /\ UNCHANGED <<config, version, brefs, old, bdirs, mine, next, todo, unlinked>>

\* A layer is pulled from the default repository, or built.
Obtain(l) ==
    /\ pc = "ready" /\ Exit
    /\ \E remote \in {mine.default, LocalRemote} : brefs' = brefs \cup {<<remote, l>>}
    /\ bdirs' = bdirs \cup {l}
    /\ UNCHANGED <<config, remotes, opened, version, old, mine, next, todo, histories>>

With(c, alias, r) == [c EXCEPT !.repos = [b \in DOMAIN c.repos \cup {alias} |-> IF b = alias THEN r ELSE c.repos[b]]]

HandleRepoAdd(c, alias) ==
    IF alias \in DOMAIN c.repos THEN {} ELSE {With(c, alias, [url |-> "u", mirror |-> FALSE])}
HandleRepoRemove(c, alias) ==
    IF alias \notin DOMAIN c.repos \/ c.default = alias THEN {}
    ELSE {[c EXCEPT !.repos = Part(c.repos, DOMAIN c.repos \ {alias})]}
HandleRepoUpdate(c, alias) ==
    IF alias \notin DOMAIN c.repos THEN {} ELSE {[c EXCEPT !.repos[alias].url = "v"]}
HandleRepoSetDefault(c, alias) ==
    IF alias \notin DOMAIN c.repos \/ c.default = alias THEN {} ELSE {[c EXCEPT !.default = alias]}
HandleRepoMirror(c, alias, on) ==
    IF alias \notin DOMAIN c.repos THEN {} ELSE {[c EXCEPT !.repos[alias].mirror = on]}

\* handleRepo() up to setConfig(), and saveConfig() as far as it opens, and so truncates, the file.
HandleRepo ==
    /\ pc = "ready"
    /\ \E alias \in Aliases :
         next' \in HandleRepoAdd(mine, alias) \cup HandleRepoRemove(mine, alias)
                   \cup HandleRepoUpdate(mine, alias) \cup HandleRepoSetDefault(mine, alias)
                   \cup HandleRepoMirror(mine, alias, TRUE) \cup HandleRepoMirror(mine, alias, FALSE)
    /\ \/ next'.default \in DOMAIN next'.repos /\ config' = {} /\ Goto("save")
       \/ Exit /\ UNCHANGED config
    /\ UNCHANGED <<remotes, opened, version, brefs, old, bdirs, mine, todo, histories>>

SaveConfig ==
    /\ pc = "save" /\ config' = {next} /\ Goto("remotes")
    /\ UNCHANGED <<remotes, opened, version, brefs, old, bdirs, mine, next, todo, histories>>

\* updateOstreeRepoConfig(); when it fails only the file is written back.
UpdateOstreeRepoConfig ==
    /\ pc = "remotes"
    /\ \/ remotes' = next.repos /\ torn' = FALSE /\ Goto("cache") /\ UNCHANGED config
       \/ remotes' \in Halfway(next.repos) /\ torn' = TRUE /\ Exit /\ config' = {mine}
    /\ UNCHANGED <<opened, version, brefs, old, bdirs, mine, next, todo, unlinked>>

RollBack == config' = {mine} /\ remotes' = mine.repos

\* rebuildCache(); when it fails the file and the remotes are written back.
RebuildCache ==
    /\ pc = "cache" /\ Exit
    /\ \/ UNCHANGED <<config, remotes>>
       \/ RollBack
    /\ UNCHANGED <<opened, version, brefs, old, bdirs, mine, next, todo, histories>>

\* The process is killed.  (The steps back of setConfig() and of a failed start are not cut.)
Kill ==
    /\ pc # "off" /\ Exit /\ todo' = {}
    /\ unlinked' = (unlinked \/ \E l \in todo : Source(l) /\ l \notin bdirs)
    /\ torn' = (torn \/ pc \in {"save", "remotes"})
    /\ remotes' \in {remotes} \cup (IF pc = "remotes" THEN Halfway(next.repos) ELSE {})
    /\ UNCHANGED <<config, opened, version, brefs, old, bdirs, mine, next>>

BuilderNext ==
    \/ StartBuilder \/ TryMigrate \/ MigrateRef \/ Linked \/ OpenVersion \/ Stamp
    \/ BackupFailedMigrationRepo \/ OpenRepo
    \/ \E l \in BuilderLayers : Link(l) \/ Obtain(l)
    \/ HandleRepo \/ SaveConfig \/ UpdateOstreeRepoConfig \/ RebuildCache \/ Kill

BuilderSpec == BuilderInit /\ [][BuilderNext]_builderVars
-----------------------------------------------------------------------------
\* When a command is served, every ref of an old repository has been given to a remote and
\* every layer that had a directory has layers/<commit>, however often a migration was
\* killed or failed before; unless it ended between the transaction and the last link,
\* after which migrateRef() takes a layer without a link for one that has been migrated.
MigratedWhole ==
    pc = "ready" /\ ~unlinked =>
        \A r \in brefs : r[1] = NoRemote =>
            /\ \E s \in brefs : s[2] = r[2] /\ s[1] # NoRemote
            /\ Source(r[2]) => r[2] \in bdirs

\* The remotes pulls go to are those of the configuration, and its default is one of them,
\* after any failing step of setConfig(); unless the last one to write them did not come to
\* its end, or a repository was made anew for a configuration whose file had been moved
\* away, and no configuration has been written since.
RemotesConfigured ==
    pc = "ready" =>
        /\ mine.default \in DOMAIN mine.repos
        /\ ~torn => remotes = mine.repos
=============================================================================
