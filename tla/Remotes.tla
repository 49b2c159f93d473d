------------------------------ MODULE Remotes ------------------------------
(***************************************************************************)
(* The configured repositories: OSTreeRepo::cfg, config.yaml and the       *)
(* remotes of the ostree repository.  `ll-cli repo' reads the              *)
(* configuration, changes its copy and writes it back.  `ll-cli install    *)
(* --repo r' raises the priority of r in memory while it looks the         *)
(* application up; a lookup waits for a server in an event loop of its     *)
(* own, in which the package manager serves other calls, so lookups nest   *)
(* and the innermost one ends first.                                       *)
(***************************************************************************)
EXTENDS Integers, Sequences, FiniteSets, SequencesExt

CONSTANTS
    Aliases,       \* names of repositories
    InitialRepos,  \* the aliases configured at first, a sequence; the first is the default
    Installs,      \* clients that install once
    Editors,       \* clients that run `ll-cli repo' once
    PrioMax        \* the largest priority; int64_t in the code

ASSUME PrioMaxAssumption == PrioMax \in Nat \ {0}
\* The repositories of the first configuration are the keys of a map that is not empty.
ASSUME ReposAssumption ==
    /\ InitialRepos \in Seq(Aliases) /\ InitialRepos # <<>>
    /\ \A i, j \in DOMAIN InitialRepos : InitialRepos[i] = InitialRepos[j] => i = j

None == "none"
PrioStep == 1      \* 100 in the code
Urls == {"u", "v"}

VARIABLES
    cfg,        \* the configuration in memory: [default, repos]
    disk,       \* config.yaml
    remotes,    \* remotes of the ostree repository: [alias, url, mirror]
    server,     \* the server requests are sent to
    stack,      \* lookups that wait for a server, the innermost one last
    looked,     \* install -> "no", "waiting", "failed" or the alias it was resolved from
    wants,      \* install -> the alias of --repo, or None
    draft,      \* editor -> the configuration it has read, {} before and after
    edited,     \* editors that have written
    undefined,  \* an iterator past the end was dereferenced
    touched,    \* history: a configuration was written while a lookup waited
    peeked,     \* history: a configuration was read while a priority was raised
    chosen,     \* history: repositories that a configuration has given the highest priority
    unknown,    \* history: --repo named a repository that is not configured
    crossed,    \* history: installs with --repo that began while another one was at the top
    halfway     \* history: the remotes could only be written in part

vars == <<cfg, disk, remotes, server, stack, looked, wants, draft, edited, undefined, touched,
          peeked, chosen, unknown, crossed, halfway>>
histories == <<touched, peeked, chosen, unknown, crossed, halfway>>

\* int64_t arithmetic.
Wrap(x) == ((x + PrioMax + 1) % (2 * PrioMax + 2)) - PrioMax - 1

Position(c, a) == CHOOSE i \in DOMAIN c.repos : c.repos[i].alias = a
Known(c, a) == \E i \in DOMAIN c.repos : c.repos[i].alias = a
Priorities(c) == {c.repos[i].prio : i \in DOMAIN c.repos}

\* getDefaultRepo(), getRepoByAlias()
GetRepoByAlias(c, a) == c.repos[Position(c, a)]
GetDefaultRepo(c) == GetRepoByAlias(c, c.default)
GetRepoMaxPriority(c) == Max(Priorities(c))

\* The repositories with the highest priority there is: raised, or set by a user.
Highest(c) == {c.repos[i].alias : i \in {j \in DOMAIN c.repos : c.repos[j].prio = PrioMax}}

\* convertToV2(): the default first, the others below it in order.
ConvertToV2(aliases) ==
    [default |-> aliases[1],
     repos |-> [i \in DOMAIN aliases |->
                  [alias |-> aliases[i], prio |-> Wrap(-PrioStep * (i - 1)), url |-> "u", mirror |-> FALSE]]]

\* What updateOstreeRepoConfig() adds for the first n repositories, after it has deleted
\* every remote.
RemotesOf(c, n) == {[alias |-> c.repos[i].alias, url |-> c.repos[i].url, mirror |-> c.repos[i].mirror] :
                      i \in 1 .. n}
UpdateOstreeRepoConfig(c) == RemotesOf(c, Len(c.repos))

Init ==
    /\ cfg = ConvertToV2(InitialRepos) /\ disk = cfg
    /\ remotes = UpdateOstreeRepoConfig(cfg) /\ server = GetDefaultRepo(cfg).url
    /\ stack = <<>> /\ looked = [c \in Installs |-> "no"] /\ wants = [c \in Installs |-> None]
    /\ draft = [e \in Editors |-> {}] /\ edited = {}
    /\ undefined = FALSE /\ touched = FALSE /\ peeked = FALSE /\ unknown = FALSE
    /\ chosen = Highest(cfg)
    /\ crossed = {} /\ halfway = FALSE

(***************************************************************************)
(* Lookups                                                                 *)
(***************************************************************************)

\* getHighestPriorityRepos(): getOrderedConfig() sorts by descending priority and leaves
\* equal ones in their order (stable_sort), so these are the repositories of the greatest
\* priority in the order of the configuration.
GetHighestPriorityRepos(c) ==
    LET top == {i \in DOMAIN c.repos : c.repos[i].prio = GetRepoMaxPriority(c)}
    IN  [n \in 1 .. Cardinality(top) |->
           c.repos[CHOOSE i \in top : Cardinality({j \in top : j < i}) = n - 1].alias]

PromoteNothing(c, a) == c
PromotePriority(c, a) == [c EXCEPT !.repos[Position(c, a)].prio = PrioMax]
RecoverNothing(c, a, p) == c
RecoverPriority(c, a, p) == [c EXCEPT !.repos[Position(c, a)].prio = p]

\* Another repository already has the highest priority there is.
Rival(r) == Highest(cfg) \ {r} # {}
Raised == \E i \in DOMAIN stack : stack[i].repo # None

\* listRemote() up to its event loop: the request goes to the first of the repositories
\* that are still to ask; the server is set back to the default of now afterwards.
ListRemote(c, outer, frame) ==
    /\ stack' = Append(outer, [frame EXCEPT !.back = GetDefaultRepo(c).url])
    /\ server' = GetRepoByAlias(c, frame.todo[1]).url

\* Install() up to the answer of a server: with --repo the repository is raised, and only
\* the first of the highest ones is asked; otherwise all of them are.
Install(c, r) ==
    LET promoted == IF r = None THEN cfg ELSE PromotePriority(cfg, r)
        highest == GetHighestPriorityRepos(promoted)
        todo == IF r = None THEN highest ELSE <<highest[1]>>
    IN
    /\ looked[c] = "no" /\ ~undefined
    /\ wants' = [wants EXCEPT ![c] = r]
    /\ IF r # None /\ ~Known(cfg, r)
       THEN /\ undefined' = TRUE /\ unknown' = TRUE
            /\ UNCHANGED <<cfg, stack, server, looked, crossed>>
       ELSE /\ cfg' = promoted
            /\ looked' = [looked EXCEPT ![c] = "waiting"]
            /\ ListRemote(promoted, stack,
                          [who |-> c, repo |-> r, todo |-> todo, found |-> <<>>, back |-> None,
                           orig |-> IF r = None THEN 0 ELSE GetRepoByAlias(cfg, r).prio])
            /\ crossed' = IF r # None /\ Rival(r) THEN crossed \cup {c} ELSE crossed
            /\ UNCHANGED <<undefined, unknown>>
    /\ UNCHANGED <<disk, remotes, draft, edited, touched, peeked, chosen, halfway>>

\* The lookup returns: the priority is set back, in the configuration of now.
Resolved(f, result) ==
    /\ stack' = Front(stack) /\ looked' = [looked EXCEPT ![f.who] = result]
    /\ server' = f.back
    /\ IF f.repo = None THEN UNCHANGED <<cfg, undefined>>
       ELSE IF Known(cfg, f.repo) THEN cfg' = RecoverPriority(cfg, f.repo, f.orig) /\ UNCHANGED undefined
       ELSE undefined' = TRUE /\ UNCHANGED cfg

\* The first of the newest answers, max_element().
Newest(found) ==
    LET best == CHOOSE i \in DOMAIN found :
                  /\ \A j \in DOMAIN found : found[j].version <= found[i].version
                  /\ \A j \in 1 .. i - 1 : found[j].version < found[i].version
    IN  IF found = <<>> THEN "failed" ELSE found[best].repo

\* The innermost loop ends with the answer of its server: clearReference() finds a version
\* in it, finds none, or failed.
\* getRemoteReferenceByPriority() then asks the next repository, if it is still there.
Answer(version) ==
    LET f == Last(stack)
        found == IF version \in Nat /\ version > 0
                 THEN Append(f.found, [repo |-> f.todo[1], version |-> version]) ELSE f.found
        rest == Tail(f.todo)
    IN
    /\ stack # <<>> /\ ~undefined
    /\ IF version = -1 \/ (rest # <<>> /\ ~Known(cfg, rest[1])) THEN Resolved(f, "failed")
       ELSE IF rest = <<>> THEN Resolved(f, Newest(found))
       ELSE /\ ListRemote(cfg, Front(stack), [f EXCEPT !.todo = rest, !.found = found])
            /\ UNCHANGED <<cfg, looked, undefined>>
    /\ UNCHANGED <<disk, remotes, wants, draft, edited, histories>>

(***************************************************************************)
(* ll-cli repo                                                             *)
(***************************************************************************)

\* The sub-commands, each from the configuration read to the one written.
RepoAdd(d, a, u) ==
    IF Known(d, a) THEN {}
    ELSE {[d EXCEPT !.repos = Append(@, [alias |-> a, prio |-> 0, url |-> u, mirror |-> FALSE])]}
RepoRemove(d, a) ==
    LET left == RemoveAt(d.repos, Position(d, a))
        best == CHOOSE i \in DOMAIN left : /\ \A j \in DOMAIN left : left[j].prio <= left[i].prio
                                           /\ \A j \in 1 .. i - 1 : left[j].prio < left[i].prio
    IN  IF ~Known(d, a) \/ left = <<>> THEN {}
        ELSE {[default |-> IF d.default = a THEN left[best].alias ELSE d.default, repos |-> left]}
RepoUpdate(d, a, u) == IF Known(d, a) THEN {[d EXCEPT !.repos[Position(d, a)].url = u]} ELSE {}
RepoMirror(d, a, on) == IF Known(d, a) THEN {[d EXCEPT !.repos[Position(d, a)].mirror = on]} ELSE {}
RepoSetDefault(d, a) ==
    IF ~Known(d, a) \/ d.default = a THEN {}
    ELSE {[d EXCEPT !.default = a, !.repos[Position(d, a)].prio = Wrap(GetRepoMaxPriority(d) + PrioStep)]}
RepoSetPriority(d, a, p) == IF Known(d, a) THEN {[d EXCEPT !.repos[Position(d, a)].prio = p]} ELSE {}

Written(d) ==
    UNION ({RepoRemove(d, a) : a \in Aliases} \cup {RepoSetDefault(d, a) : a \in Aliases}
           \cup {RepoAdd(d, a, "u") : a \in Aliases} \cup {RepoUpdate(d, a, "v") : a \in Aliases}
           \cup {RepoMirror(d, a, on) : a \in Aliases, on \in BOOLEAN}
           \cup {RepoSetPriority(d, a, PrioMax) : a \in Aliases})

\* The property `configuration' is read.
ReadConfiguration(e) ==
    /\ draft[e] = {} /\ e \notin edited /\ ~undefined
    /\ draft' = [draft EXCEPT ![e] = {cfg}]
    /\ peeked' = (peeked \/ Raised)
    /\ UNCHANGED <<cfg, disk, remotes, server, stack, looked, wants, edited, undefined, touched,
                   chosen, unknown, crossed, halfway>>

\* setConfig(): the file, the remotes and the cache are written one after the other; what
\* has been written is written back from the configuration in memory when a later one fails.
\* updateOstreeRepoConfig() cannot be undone when it fails itself.
SetConfig(new) ==
    \/ UNCHANGED <<cfg, disk, remotes, server, halfway>>
    \/ \E n \in 0 .. Len(new.repos) - 1 :
         /\ remotes' = RemotesOf(new, n) /\ halfway' = TRUE
         /\ disk' = cfg /\ UNCHANGED <<cfg, server>>
    \/ disk' = cfg /\ remotes' = UpdateOstreeRepoConfig(cfg) /\ UNCHANGED <<cfg, server, halfway>>
    \/ /\ cfg' = new /\ disk' = new /\ remotes' = UpdateOstreeRepoConfig(new)
       /\ server' = GetDefaultRepo(new).url /\ UNCHANGED halfway

\* setRepoConfig() and setConfiguration(), which does nothing for an equal configuration.
SetConfiguration(e) ==
    /\ ~undefined /\ draft' = [draft EXCEPT ![e] = {}] /\ edited' = edited \cup {e}
    /\ \E d \in draft[e] : \E new \in Written(d) :
         /\ chosen' = chosen \cup (Highest(new) \ Highest(d))
         /\ IF new = cfg THEN UNCHANGED <<cfg, disk, remotes, server, halfway, touched>>
            ELSE SetConfig(new) /\ touched' = (touched \/ stack # <<>>)
    /\ UNCHANGED <<stack, looked, wants, undefined, peeked, unknown, crossed>>

Next ==
    \/ \E c \in Installs, r \in Aliases \cup {None} : Install(c, r)
    \/ \E version \in -1 .. 2 : Answer(version)
    \/ \E e \in Editors : ReadConfiguration(e) \/ SetConfiguration(e)

Spec == Init /\ [][Next]_vars
-----------------------------------------------------------------------------
\* Raised priorities leave no trace: when no lookup waits, memory and config.yaml agree,
\* no repository has the highest priority but by a configuration that gave it that, and
\* requests go to the default server; the remotes always are those of the
\* configuration, whatever step of setConfig() fails.  (Unless a configuration was written
\* while a lookup waited or --repo named a repository that is not configured; or one was
\* read while a priority was raised, for the highest priorities; or the remotes could be
\* written only in part.)
ConfigurationsAgree ==
    /\ ~touched /\ ~unknown =>
         /\ ~undefined
         /\ stack = <<>> => /\ cfg = disk /\ server = GetDefaultRepo(cfg).url
                            /\ ~peeked => Highest(cfg) \subseteq chosen
    /\ ~halfway => remotes = UpdateOstreeRepoConfig(cfg)

\* An application installed with --repo comes from that repository, whatever else is
\* looked up or configured meanwhile, unless another repository had the highest priority
\* there is when it began (another such install that waits has given it that).
AskedRepoUsed ==
    \A c \in Installs \ crossed :
        wants[c] # None /\ looked[c] \notin {"no", "waiting", "failed"} => looked[c] = wants[c]
=============================================================================
