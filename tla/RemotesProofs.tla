--------------------------- MODULE RemotesProofs ---------------------------
(***************************************************************************)
(* Remotes for any repositories, installs and editors: raised priorities   *)
(* leave no trace, and --repo is honoured.                                 *)
(***************************************************************************)
EXTENDS Remotes, FiniteSetTheorems, TLAPS

Prio == -(PrioMax + 1) .. PrioMax
Repo == [alias : Aliases, prio : Prio, url : Urls, mirror : BOOLEAN]

\* Aliases are different, and the default is one of them.
Config == {c \in [default : Aliases, repos : Seq(Repo)] :
             /\ \A i, j \in DOMAIN c.repos : c.repos[i].alias = c.repos[j].alias => i = j
             /\ Known(c, c.default)}
Remote == [alias : Aliases, url : Urls, mirror : BOOLEAN]
Found == [repo : Aliases, version : 1 .. 2]
Frame == [who : Installs, repo : Aliases \cup {None}, todo : Seq(Aliases) \ {<<>>}, found : Seq(Found),
          back : Urls, orig : Prio]

TypeOK ==
    /\ cfg \in Config /\ disk \in Config /\ remotes \in SUBSET Remote /\ server \in Urls
    /\ stack \in Seq(Frame)
    /\ looked \in [Installs -> Aliases \cup {"no", "waiting", "failed"}]
    /\ wants \in [Installs -> Aliases \cup {None}]
    /\ draft \in [Editors -> SUBSET Config] /\ edited \in SUBSET Editors
    /\ undefined \in BOOLEAN /\ touched \in BOOLEAN /\ peeked \in BOOLEAN
    /\ chosen \in SUBSET Aliases /\ unknown \in BOOLEAN /\ crossed \in SUBSET Installs
    /\ halfway \in BOOLEAN

\* A client has one lookup at most, and one with --repo that found no other repository at
\* the top asks that repository only.
LookupInv ==
    /\ \A i \in DOMAIN stack : /\ looked[stack[i].who] = "waiting"
                               /\ stack[i].repo = wants[stack[i].who]
    /\ \A i, j \in DOMAIN stack : stack[i].who = stack[j].who => i = j
    /\ \A i \in DOMAIN stack :
          stack[i].repo # None /\ stack[i].who \notin crossed =>
              stack[i].todo = <<stack[i].repo>> /\ stack[i].found = <<>>

\* Configurations that differ in priorities at most.
Alike(c, d) ==
    /\ c.default = d.default /\ DOMAIN c.repos = DOMAIN d.repos
    /\ \A i \in DOMAIN c.repos : /\ c.repos[i].alias = d.repos[i].alias
                                 /\ c.repos[i].url = d.repos[i].url
                                 /\ c.repos[i].mirror = d.repos[i].mirror

\* Lookups of s below the k-th one have raised a.
RaisedBelow(s, a, k) == a # None /\ \E j \in DOMAIN s : j < k /\ s[j].repo = a

\* As long as no configuration is written meanwhile, the configuration in memory is the one
\* of config.yaml but for the priorities that are raised, and the lowest of the lookups that
\* have raised a repository remembers the priority of config.yaml.
RaisedInv ==
    /\ ~undefined
    /\ Alike(cfg, disk)
    /\ \A k \in DOMAIN stack : stack[k].back = GetDefaultRepo(cfg).url
    /\ stack = <<>> => server = GetDefaultRepo(cfg).url
    /\ \A k \in DOMAIN stack : stack[k].repo # None => Known(cfg, stack[k].repo)
    /\ \A i \in DOMAIN cfg.repos :
          cfg.repos[i].prio = IF RaisedBelow(stack, cfg.repos[i].alias, Len(stack) + 1)
                              THEN PrioMax ELSE disk.repos[i].prio
    /\ \A k \in DOMAIN stack : \A i \in DOMAIN cfg.repos :
          stack[k].repo # None /\ cfg.repos[i].alias = stack[k].repo =>
              stack[k].orig = IF RaisedBelow(stack, stack[k].repo, k) THEN PrioMax ELSE disk.repos[i].prio

\* Configurations that were read while no priority was raised.
ChosenInv ==
    /\ Highest(disk) \subseteq chosen
    /\ \A e \in Editors : \A d \in draft[e] : Highest(d) \subseteq chosen

IInv ==
    /\ TypeOK
    /\ LookupInv /\ AskedRepoUsed
    /\ ~touched /\ ~unknown => RaisedInv
    /\ ~touched /\ ~unknown /\ ~peeked => ChosenInv
    /\ ~halfway => remotes = UpdateOstreeRepoConfig(cfg)

(***************************************************************************)
(* Least and greatest elements                                             *)
(***************************************************************************)
\* A nonempty set of natural numbers has a least element: the intervals from 0 to its
\* elements are finite sets, so one of them includes none of the others.
LEMMA Least ==
    ASSUME NEW S \in SUBSET Nat, S # {}
    PROVE  \E m \in S : \A k \in S : m <= k
<1> DEFINE T == {0 .. k : k \in S}
           R == StrictSubsetOrdering(Nat)
<1>1. IsWellFoundedOn(R, FiniteSubsetsOf(Nat))
  BY FS_StrictSubsetOrderingWellFounded
<1>2. \A k \in S : 0 .. k \in FiniteSubsetsOf(Nat)
  <2> TAKE k \in S
  <2>1. IsFiniteSet(0 .. k)
    BY FS_Interval
  <2> QED  BY <2>1 DEF FiniteSubsetsOf
<1>3. T \subseteq FiniteSubsetsOf(Nat) /\ T # {}
  BY <1>2
<1>4. \E x \in T : \A y \in T : ~ (<<y, x>> \in R)
  BY <1>1, <1>3, WFMin
<1>5. PICK m \in S : \A k \in S : ~ (<<0 .. k, 0 .. m>> \in R)
  BY <1>4
<1>6. ASSUME NEW k \in S, k < m  PROVE FALSE
  <2>1. 0 .. k \subseteq 0 .. m /\ m \in 0 .. m /\ m \notin 0 .. k
    BY <1>6
  <2>2. 0 .. k \in SUBSET Nat /\ 0 .. m \in SUBSET Nat /\ 0 .. k # 0 .. m
    BY <2>1
  <2>3. <<0 .. k, 0 .. m>> \in R
    BY <2>1, <2>2 DEF StrictSubsetOrdering
  <2> QED  BY <2>3, <1>5
<1> QED  BY <1>6

\* A set of natural numbers that has 0 and every successor of its elements has them all.
LEMMA Induction ==
    ASSUME NEW P, 0 \in P, \A n \in Nat : n \in P => n + 1 \in P
    PROVE  Nat \subseteq P
<1> SUFFICES ASSUME Nat \ P # {}  PROVE FALSE
  OBVIOUS
<1>1. PICK m \in Nat \ P : \A k \in Nat \ P : m <= k
  BY Least
<1>2. m - 1 \in Nat /\ m - 1 \notin P /\ m = (m - 1) + 1
  BY <1>1
<1> QED  BY <1>1, <1>2

\* A bounded set of integers has a greatest element, Max(S).
LEMMA Greatest ==
    ASSUME NEW S \in SUBSET Int, S # {}, NEW b \in Int, \A x \in S : x <= b
    PROVE  Max(S) \in S /\ \A x \in S : x <= Max(S)
<1> DEFINE D == {b - x : x \in S}
<1>1. D \in SUBSET Nat /\ D # {}
  <2>1. \A x \in S : b - x \in Nat
    OBVIOUS
  <2> QED  BY <2>1, Zenon
<1>2. PICK m \in D : \A k \in D : m <= k
  BY <1>1, Least
<1>3. PICK x \in S : m = b - x
  OBVIOUS
<1>4. \A y \in S : x >= y
  BY <1>2, <1>3
<1>5. \E z \in S : \A y \in S : z >= y
  BY <1>4
<1> QED  BY <1>5 DEF Max

\* In a list of numbers there is a first one of the greatest.
LEMMA FirstOfGreatest ==
    ASSUME NEW n \in Nat, n # 0, NEW g \in [1 .. n -> Int], NEW b \in Int,
           \A i \in 1 .. n : g[i] <= b
    PROVE  \E i \in 1 .. n : /\ \A j \in 1 .. n : g[j] <= g[i]
                             /\ \A j \in 1 .. i - 1 : g[j] < g[i]
<1> DEFINE V == {g[i] : i \in 1 .. n}
<1>1. V \in SUBSET Int /\ V # {} /\ \A x \in V : x <= b
  OBVIOUS
<1>2. Max(V) \in V /\ \A x \in V : x <= Max(V)
  BY <1>1, Greatest
<1> DEFINE I == {i \in 1 .. n : g[i] = Max(V)}
<1>3. I \in SUBSET Nat /\ I # {}
  <2>1. PICK i \in 1 .. n : g[i] = Max(V)
    BY <1>2
  <2>2. \A j \in 1 .. n : j \in Nat
    OBVIOUS
  <2> QED  BY <2>1, <2>2, Zenon
<1>4. PICK i \in I : \A j \in I : i <= j
  BY <1>3, Least
<1>5. \A j \in 1 .. n : g[j] \in Int /\ g[j] <= Max(V)
  BY <1>2
<1>6. g[i] = Max(V) /\ i \in 1 .. n
  OBVIOUS
<1>7. \A j \in 1 .. i - 1 : j \in 1 .. n /\ j \notin I
  BY <1>4, <1>6
<1>8. \A j \in 1 .. i - 1 : g[j] < g[i]
  BY <1>5, <1>6, <1>7
<1> QED  BY <1>5, <1>6, <1>8

\* The elements of a finite set of numbers can be counted from below.
LEMMA Ranks ==
    ASSUME NEW S \in SUBSET Nat, IsFiniteSet(S)
    PROVE  \A n \in 0 .. Cardinality(S) - 1 : \E i \in S : Cardinality({j \in S : j < i}) = n
<1> DEFINE Below(i) == {j \in S : j < i}
           P == {n \in Nat : n < Cardinality(S) => \E i \in S : Cardinality(Below(i)) = n}
<1>1. Cardinality(S) \in Nat
  BY FS_CardinalityType
<1>2. 0 \in P
  <2> SUFFICES ASSUME 0 < Cardinality(S)  PROVE \E i \in S : Cardinality(Below(i)) = 0
    OBVIOUS
  <2>1. S # {}
    BY FS_EmptySet
  <2>2. PICK i \in S : \A j \in S : i <= j
    BY <2>1, Least
  <2>3. \A j \in S : ~ (j < i)
    BY <2>2
  <2>4. Below(i) = {}
    BY <2>3, Zenon
  <2> QED  BY <2>4, FS_EmptySet
<1>3. ASSUME NEW n \in Nat, n \in P  PROVE n + 1 \in P
  <2> SUFFICES ASSUME n + 1 < Cardinality(S)  PROVE \E i \in S : Cardinality(Below(i)) = n + 1
    OBVIOUS
  <2>1. PICK i \in S : Cardinality(Below(i)) = n
    BY <1>1, <1>3
  <2> DEFINE A == {j \in S : i < j}
             L == Below(i) \cup {i}
  <2>2. IsFiniteSet(Below(i)) /\ i \notin Below(i)
    BY FS_Subset
  <2>3. Cardinality(L) = n + 1
    BY <2>1, <2>2, FS_AddElement
  <2>4. A # {}
    <3> SUFFICES ASSUME A = {}  PROVE FALSE
      OBVIOUS
    <3>1. \A j \in S : j < i \/ j = i
      OBVIOUS
    <3>2. S = L
      BY <3>1, Zenon
    <3> QED  BY <3>2, <2>3
  <2>5. PICK k \in A : \A j \in A : k <= j
    <3>1. A \in SUBSET Nat
      OBVIOUS
    <3> QED  BY <3>1, <2>4, Least
  <2>6. Below(k) = L
    <3>1. \A j \in S : j < k <=> j < i \/ j = i
      BY <2>5
    <3> QED  BY <3>1, Zenon
  <2>7. Cardinality(Below(k)) = n + 1 /\ k \in S
    BY <2>3, <2>6
  <2> QED  BY <2>7
<1>4. Nat \subseteq P
  BY <1>2, <1>3, Induction
<1> QED  BY <1>1, <1>4

(***************************************************************************)
(* Configurations                                                          *)
(***************************************************************************)
\* int64_t arithmetic stays in its range.
LEMMA WrapRange == \A x \in Int : Wrap(x) \in Prio
<1> TAKE x \in Int
<1> DEFINE m == 2 * PrioMax + 2
           y == x + PrioMax + 1
<1>1. m \in Nat \ {0} /\ y \in Int
  BY PrioMaxAssumption
<1>2. \A u \in Int, v \in Nat \ {0} : u % v \in 0 .. v - 1
  OBVIOUS
<1>3. y % m \in 0 .. m - 1
  BY <1>1, <1>2
<1> QED  BY <1>3, PrioMaxAssumption DEF Wrap, Prio

\* A repository is found where it is.
LEMMA Places ==
    ASSUME NEW c \in Config
    PROVE  /\ c.repos \in Seq(Repo) /\ c.default \in Aliases
           /\ \A i \in DOMAIN c.repos : /\ c.repos[i].alias \in Aliases /\ c.repos[i].prio \in Prio
                                        /\ c.repos[i].url \in Urls /\ c.repos[i].mirror \in BOOLEAN
           /\ \A i \in DOMAIN c.repos : Position(c, c.repos[i].alias) = i /\ Known(c, c.repos[i].alias)
           /\ \A x : Known(c, x) => /\ Position(c, x) \in DOMAIN c.repos
                                    /\ c.repos[Position(c, x)].alias = x
           /\ Known(c, c.default)
<1>1. c.repos \in Seq(Repo) /\ c.default \in Aliases /\ Known(c, c.default)
  BY DEF Config
<1>2. \A i \in DOMAIN c.repos : c.repos[i] \in Repo
  BY <1>1
<1>3. \A i \in DOMAIN c.repos : /\ c.repos[i].alias \in Aliases /\ c.repos[i].prio \in Prio
                                /\ c.repos[i].url \in Urls /\ c.repos[i].mirror \in BOOLEAN
  BY <1>2 DEF Repo
<1>4. \A x : Known(c, x) => /\ Position(c, x) \in DOMAIN c.repos
                            /\ c.repos[Position(c, x)].alias = x
  BY DEF Known, Position
<1>5. \A i \in DOMAIN c.repos : Known(c, c.repos[i].alias)
  BY DEF Known
<1>6. \A i \in DOMAIN c.repos : Position(c, c.repos[i].alias) = i
  BY <1>4, <1>5 DEF Config
<1> QED  BY <1>1, <1>3, <1>4, <1>5, <1>6

\* A change of what one repository has besides its name leaves a configuration.
LEMMA Changed ==
    ASSUME NEW c \in Config, NEW k \in DOMAIN c.repos, NEW r \in Repo, r.alias = c.repos[k].alias
    PROVE  [c EXCEPT !.repos[k] = r] \in Config
<1> DEFINE n == [c EXCEPT !.repos[k] = r]
<1>1. c \in [default : Aliases, repos : Seq(Repo)] /\ c.repos \in Seq(Repo)
  BY DEF Config
<1>2. n.default = c.default /\ n.repos = [c.repos EXCEPT ![k] = r]
  BY <1>1
<1>3. n \in [default : Aliases, repos : Seq(Repo)] /\ DOMAIN n.repos = DOMAIN c.repos
  BY <1>1, <1>2
<1>4. \A i \in DOMAIN c.repos : n.repos[i].alias = c.repos[i].alias
  BY <1>1, <1>2
<1> HIDE DEF n
<1>5. Known(n, n.default)
  BY <1>2, <1>3, <1>4, Places DEF Known
<1>6. \A i, j \in DOMAIN n.repos : n.repos[i].alias = n.repos[j].alias => i = j
  BY <1>3, <1>4 DEF Config
<1> QED  BY <1>3, <1>5, <1>6 DEF Config, n

\* Setting a priority changes nothing else.
LEMMA PrioritySet ==
    ASSUME NEW c \in Config, NEW x, Known(c, x), NEW p \in Prio
    PROVE  LET n == [c EXCEPT !.repos[Position(c, x)].prio = p]
           IN  /\ n \in Config /\ Alike(n, c)
               /\ \A i \in DOMAIN c.repos :
                    n.repos[i].prio = IF c.repos[i].alias = x THEN p ELSE c.repos[i].prio
<1> DEFINE k == Position(c, x)
           r == [c.repos[k] EXCEPT !.prio = p]
           n == [c EXCEPT !.repos[k] = r]
<1>1. k \in DOMAIN c.repos /\ c.repos[k].alias = x /\ c.repos \in Seq(Repo)
  BY Places
<1>2. c.repos[k] \in Repo
  BY <1>1
<1>3. r \in Repo /\ r.alias = x /\ r.prio = p /\ r.url = c.repos[k].url /\ r.mirror = c.repos[k].mirror
  BY <1>1, <1>2 DEF Repo
<1>4. n \in Config
  BY <1>1, <1>3, Changed
<1>5. c \in [default : Aliases, repos : Seq(Repo)]
  BY DEF Config
<1>6. [c EXCEPT !.repos[Position(c, x)].prio = p] = n
  OBVIOUS
<1>7. n.default = c.default /\ n.repos = [c.repos EXCEPT ![k] = r]
  BY <1>5
<1> HIDE DEF n, r
<1>8. \A i \in DOMAIN c.repos : n.repos[i] = IF i = k THEN r ELSE c.repos[i]
  BY <1>1, <1>7
<1>9. DOMAIN n.repos = DOMAIN c.repos
  BY <1>1, <1>7
<1>10. Alike(n, c)
  BY <1>1, <1>3, <1>7, <1>8, <1>9 DEF Alike
<1>11. \A i \in DOMAIN c.repos : c.repos[i].alias = x <=> i = k
  BY <1>1, Places
<1>12. \A i \in DOMAIN c.repos : n.repos[i].prio = IF c.repos[i].alias = x THEN p ELSE c.repos[i].prio
  BY <1>3, <1>8, <1>11
<1> QED  BY <1>4, <1>6, <1>10, <1>12

\* recoverPriority() sets a priority.
LEMMA Recovered ==
    ASSUME NEW c \in Config, NEW x, Known(c, x), NEW p \in Prio
    PROVE  /\ RecoverPriority(c, x, p) \in Config /\ Alike(RecoverPriority(c, x, p), c)
           /\ \A i \in DOMAIN c.repos :
                RecoverPriority(c, x, p).repos[i].prio = IF c.repos[i].alias = x THEN p ELSE c.repos[i].prio
<1> DEFINE n == [c EXCEPT !.repos[Position(c, x)].prio = p]
<1>1. RecoverPriority(c, x, p) = n
  BY DEF RecoverPriority
<1>2. /\ n \in Config /\ Alike(n, c)
      /\ \A i \in DOMAIN c.repos : n.repos[i].prio = IF c.repos[i].alias = x THEN p ELSE c.repos[i].prio
  BY PrioritySet
<1> HIDE DEF n
<1> QED  BY <1>1, <1>2

\* What does not depend on priorities.
LEMMA AlikeFacts ==
    ASSUME NEW c \in Config, NEW d \in Config, Alike(c, d)
    PROVE  /\ Alike(d, c)
           /\ GetDefaultRepo(c).url = GetDefaultRepo(d).url
           /\ UpdateOstreeRepoConfig(c) = UpdateOstreeRepoConfig(d)
           /\ \A x : Known(c, x) <=> Known(d, x)
           /\ \A x : Known(c, x) => Position(c, x) = Position(d, x)
           /\ (\A i \in DOMAIN c.repos : c.repos[i].prio = d.repos[i].prio) => c = d
<1>1. Alike(d, c)
  BY DEF Alike
<1>2. \A x : Known(c, x) <=> Known(d, x)
  BY DEF Alike, Known
<1>3. \A x : Known(c, x) => Position(c, x) = Position(d, x)
  <2> SUFFICES ASSUME NEW x, Known(c, x)  PROVE Position(c, x) = Position(d, x)
    OBVIOUS
  <2>1. Position(d, x) \in DOMAIN d.repos /\ d.repos[Position(d, x)].alias = x
    BY <1>2, Places
  <2>2. Position(d, x) \in DOMAIN c.repos /\ c.repos[Position(d, x)].alias = x
    BY <2>1 DEF Alike
  <2> QED  BY <2>2, Places
<1>4. GetDefaultRepo(c).url = GetDefaultRepo(d).url
  <2>1. c.default = d.default /\ Known(c, c.default) /\ Position(c, c.default) \in DOMAIN c.repos
    BY Places DEF Alike
  <2>2. Position(c, c.default) = Position(d, c.default)
    BY <2>1, <1>3
  <2> QED  BY <2>1, <2>2 DEF Alike, GetDefaultRepo, GetRepoByAlias
<1>5. UpdateOstreeRepoConfig(c) = UpdateOstreeRepoConfig(d)
  <2>1. c.repos \in Seq(Repo) /\ d.repos \in Seq(Repo)
    BY Places
  <2>2. DOMAIN c.repos = 1 .. Len(c.repos) /\ Len(c.repos) = Len(d.repos)
    BY <2>1 DEF Alike
  <2>3. \A i \in 1 .. Len(c.repos) :
           [alias |-> c.repos[i].alias, url |-> c.repos[i].url, mirror |-> c.repos[i].mirror]
             = [alias |-> d.repos[i].alias, url |-> d.repos[i].url, mirror |-> d.repos[i].mirror]
    BY <2>2 DEF Alike
  <2> QED  BY <2>2, <2>3, Zenon DEF UpdateOstreeRepoConfig, RemotesOf
<1>6. ASSUME \A i \in DOMAIN c.repos : c.repos[i].prio = d.repos[i].prio
      PROVE  c = d
  <2>1. c \in [default : Aliases, repos : Seq(Repo)] /\ d \in [default : Aliases, repos : Seq(Repo)]
    BY DEF Config
  <2>2. c.repos \in Seq(Repo) /\ d.repos \in Seq(Repo) /\ DOMAIN c.repos = DOMAIN d.repos
    BY <2>1 DEF Alike
  <2>3. \A i \in DOMAIN c.repos : c.repos[i] \in Repo /\ d.repos[i] \in Repo
    BY <2>2
  <2>4. \A i \in DOMAIN c.repos : c.repos[i] = d.repos[i]
    BY <2>3, <1>6 DEF Alike, Repo
  <2>5. c.repos = d.repos /\ c.default = d.default
    BY <2>2, <2>4 DEF Alike
  <2> QED  BY <2>1, <2>5
<1> QED  BY <1>1, <1>2, <1>3, <1>4, <1>5, <1>6

\* The greatest priority is that of a repository.
LEMMA MaxPriority ==
    ASSUME NEW c \in Config
    PROVE  /\ GetRepoMaxPriority(c) \in Prio
           /\ \E i \in DOMAIN c.repos : c.repos[i].prio = GetRepoMaxPriority(c)
           /\ \A i \in DOMAIN c.repos : c.repos[i].prio <= GetRepoMaxPriority(c)
<1>1. \A i \in DOMAIN c.repos : c.repos[i].prio \in Prio
  BY Places
<1>2. Prio \subseteq Int /\ PrioMax \in Int /\ \A p \in Prio : p <= PrioMax
  BY PrioMaxAssumption DEF Prio
<1>3. DOMAIN c.repos # {}
  BY Places
<1>4. Priorities(c) \in SUBSET Int /\ Priorities(c) # {} /\ \A p \in Priorities(c) : p <= PrioMax
  BY <1>1, <1>2, <1>3 DEF Priorities
<1>5. Max(Priorities(c)) \in Priorities(c) /\ \A p \in Priorities(c) : p <= Max(Priorities(c))
  BY <1>2, <1>4, Greatest
<1> QED  BY <1>1, <1>5 DEF GetRepoMaxPriority, Priorities

\* `repo add'
LEMMA Added ==
    ASSUME NEW d \in Config, NEW x \in Aliases, NEW u \in Urls, NEW n \in RepoAdd(d, x, u)
    PROVE  n \in Config
<1> DEFINE r == [alias |-> x, prio |-> 0, url |-> u, mirror |-> FALSE]
<1>1. n = [d EXCEPT !.repos = Append(d.repos, r)] /\ ~Known(d, x)
  BY DEF RepoAdd
<1>2. r \in Repo /\ r.alias = x
  BY PrioMaxAssumption DEF Repo, Prio
<1>3. d \in [default : Aliases, repos : Seq(Repo)] /\ d.repos \in Seq(Repo)
  BY DEF Config
<1> HIDE DEF r
<1>4. n.default = d.default /\ n.repos = Append(d.repos, r)
  BY <1>1, <1>3
<1>5. n \in [default : Aliases, repos : Seq(Repo)]
  <2>1. Append(d.repos, r) \in Seq(Repo)
    BY <1>2, <1>3
  <2> QED  BY <2>1, <1>1, <1>3
<1>6. /\ DOMAIN n.repos = 1 .. Len(d.repos) + 1 /\ DOMAIN d.repos = 1 .. Len(d.repos)
      /\ \A i \in DOMAIN d.repos : n.repos[i] = d.repos[i] /\ n.repos[i].alias # x
      /\ n.repos[Len(d.repos) + 1].alias = x
  BY <1>1, <1>2, <1>3, <1>4 DEF Known
<1>7. \A i, j \in DOMAIN d.repos : d.repos[i].alias = d.repos[j].alias => i = j
  BY DEF Config
<1>8. \A i, j \in DOMAIN n.repos : n.repos[i].alias = n.repos[j].alias => i = j
  <2> SUFFICES ASSUME NEW i \in DOMAIN n.repos, NEW j \in DOMAIN n.repos,
                      n.repos[i].alias = n.repos[j].alias
               PROVE  i = j
    OBVIOUS
  <2>1. \A k \in DOMAIN n.repos : k \in DOMAIN d.repos \/ k = Len(d.repos) + 1
    BY <1>3, <1>6
  <2> QED  BY <2>1, <1>6, <1>7
<1>9. Known(n, n.default)
  <2>1. Known(d, d.default)
    BY Places
  <2>2. DOMAIN d.repos \subseteq DOMAIN n.repos
    BY <1>3, <1>6
  <2> QED  BY <2>1, <2>2, <1>4, <1>6 DEF Known
<1> QED  BY <1>5, <1>8, <1>9 DEF Config

\* What is left when an element is removed.
LEMMA RemoveAtFacts ==
    ASSUME NEW S, NEW s \in Seq(S), NEW p \in 1 .. Len(s)
    PROVE  /\ RemoveAt(s, p) \in Seq(S) /\ Len(RemoveAt(s, p)) = Len(s) - 1
           /\ \A i \in 1 .. Len(s) - 1 : RemoveAt(s, p)[i] = IF i < p THEN s[i] ELSE s[i + 1]
<1> DEFINE l == SubSeq(s, 1, p - 1)
           r == SubSeq(s, p + 1, Len(s))
<1>1. l \in Seq(S) /\ Len(l) = p - 1 /\ \A i \in 1 .. p - 1 : l[i] = s[i]
  OBVIOUS
<1>2. r \in Seq(S) /\ Len(r) = Len(s) - p /\ \A i \in 1 .. Len(s) - p : r[i] = s[p + i]
  OBVIOUS
<1>3. RemoveAt(s, p) = l \o r
  BY DEF RemoveAt
<1> HIDE DEF l, r
<1>4. l \o r \in Seq(S) /\ Len(l \o r) = Len(s) - 1
  BY <1>1, <1>2
<1>5. \A i \in 1 .. Len(s) - 1 : (l \o r)[i] = IF i < p THEN l[i] ELSE r[i - (p - 1)]
  BY <1>1, <1>2
<1>6. \A i \in 1 .. Len(s) - 1 : i < p => l[i] = s[i]
  BY <1>1
<1>7. \A i \in 1 .. Len(s) - 1 : ~ (i < p) => r[i - (p - 1)] = s[i + 1]
  <2> SUFFICES ASSUME NEW i \in 1 .. Len(s) - 1, ~ (i < p)  PROVE r[i - (p - 1)] = s[i + 1]
    OBVIOUS
  <2>1. i - (p - 1) \in 1 .. Len(s) - p /\ p + (i - (p - 1)) = i + 1
    OBVIOUS
  <2> QED  BY <2>1, <1>2
<1> QED  BY <1>3, <1>4, <1>5, <1>6, <1>7

\* `repo remove': if it was the default, the first of the highest is the default.
LEMMA Removed ==
    ASSUME NEW d \in Config, NEW x \in Aliases, NEW n \in RepoRemove(d, x)
    PROVE  n \in Config
<1> DEFINE p == Position(d, x)
           left == RemoveAt(d.repos, p)
           best == CHOOSE i \in DOMAIN left : /\ \A j \in DOMAIN left : left[j].prio <= left[i].prio
                                              /\ \A j \in 1 .. i - 1 : left[j].prio < left[i].prio
<1>1. /\ Known(d, x) /\ left # <<>>
      /\ n = [default |-> IF d.default = x THEN left[best].alias ELSE d.default, repos |-> left]
  BY DEF RepoRemove
<1>2. p \in DOMAIN d.repos /\ d.repos[p].alias = x /\ d.repos \in Seq(Repo)
  BY <1>1, Places
<1>3. p \in 1 .. Len(d.repos) /\ Len(d.repos) \in Nat
  BY <1>2
<1> DEFINE place(i) == IF i < p THEN i ELSE i + 1
<1>4. left \in Seq(Repo) /\ Len(left) = Len(d.repos) - 1
  BY <1>2, <1>3, RemoveAtFacts
<1>5. \A i \in 1 .. Len(left) : place(i) \in 1 .. Len(d.repos) /\ left[i] = d.repos[place(i)]
  <2>1. \A i \in 1 .. Len(d.repos) - 1 : left[i] = IF i < p THEN d.repos[i] ELSE d.repos[i + 1]
    BY <1>2, <1>3, RemoveAtFacts
  <2> HIDE DEF left, p
  <2> QED  BY <1>3, <1>4, <2>1
<1>6. DOMAIN left = 1 .. Len(left) /\ DOMAIN d.repos = 1 .. Len(d.repos)
  BY <1>2, <1>4
<1>7. \A i, j \in DOMAIN d.repos : d.repos[i].alias = d.repos[j].alias => i = j
  BY DEF Config
<1> HIDE DEF left, p, place
<1>8. Len(left) \in Nat /\ Len(left) # 0
  <2>1. left # <<>>
    BY <1>1
  <2>2. \A S : \A s \in Seq(S) : s # <<>> => Len(s) \in Nat /\ Len(s) # 0
    OBVIOUS
  <2> QED  BY <2>1, <2>2, <1>4, Zenon
<1>9. \A i, j \in DOMAIN left : left[i].alias = left[j].alias => i = j
  <2>1. \A i, j \in 1 .. Len(left) : place(i) = place(j) => i = j
    BY <1>3, <1>4 DEF place
  <2> QED  BY <2>1, <1>5, <1>6, <1>7
<1>10. best \in DOMAIN left
  <2> DEFINE g == [i \in 1 .. Len(left) |-> left[i].prio]
  <2>1. \A i \in 1 .. Len(left) : left[i] \in Repo
    BY <1>4
  <2>2. \A i \in 1 .. Len(left) : left[i].prio \in Int /\ left[i].prio <= PrioMax
    BY <2>1, PrioMaxAssumption DEF Repo, Prio
  <2>3. g \in [1 .. Len(left) -> Int] /\ PrioMax \in Int /\ \A i \in 1 .. Len(left) : g[i] <= PrioMax
    BY <2>2, PrioMaxAssumption
  <2> HIDE DEF g
  <2>4. \E i \in 1 .. Len(left) : /\ \A j \in 1 .. Len(left) : g[j] <= g[i]
                                  /\ \A j \in 1 .. i - 1 : g[j] < g[i]
    BY <2>3, <1>8, FirstOfGreatest
  <2>5. PICK i \in 1 .. Len(left) : /\ \A j \in 1 .. Len(left) : left[j].prio <= left[i].prio
                                    /\ \A j \in 1 .. i - 1 : left[j].prio < left[i].prio
    <3>1. PICK i \in 1 .. Len(left) : /\ \A j \in 1 .. Len(left) : g[j] <= g[i]
                                      /\ \A j \in 1 .. i - 1 : g[j] < g[i]
      BY <2>4
    <3>2. \A j \in 1 .. i - 1 : j \in 1 .. Len(left)
      BY <1>8
    <3> QED  BY <3>1, <3>2 DEF g
  <2> QED  BY <2>5, <1>6
<1> HIDE DEF best
<1>11. Known(n, n.default)
  <2>1. CASE d.default = x
    BY <2>1, <1>1, <1>10 DEF Known
  <2>2. CASE d.default # x
    <3>1. PICK k \in DOMAIN d.repos : d.repos[k].alias = d.default
      BY Places DEF Known
    <3>2. k # p /\ k \in 1 .. Len(d.repos)
      BY <3>1, <1>2, <1>6, <2>2
    <3> DEFINE i == IF k < p THEN k ELSE k - 1
    <3>3. i \in 1 .. Len(left) /\ place(i) = k
      BY <3>2, <1>3, <1>4 DEF place
    <3>4. left[i].alias = d.default /\ i \in DOMAIN left
      BY <3>1, <3>3, <1>5, <1>6
    <3> QED  BY <3>4, <2>2, <1>1 DEF Known
  <2> QED  BY <2>1, <2>2
<1>12. n.default \in Aliases
  <2>1. \A i \in DOMAIN left : left[i] \in Repo
    BY <1>4
  <2> QED  BY <2>1, <1>1, <1>10, Places DEF Repo
<1>13. n.repos = left /\ n \in [default : Aliases, repos : Seq(Repo)]
  BY <1>1, <1>4, <1>12
<1> QED  BY <1>9, <1>11, <1>13 DEF Config

\* What `ll-cli repo' makes of a configuration is one.
LEMMA WrittenIsConfig ==
    ASSUME NEW d \in Config, NEW n \in Written(d)
    PROVE  n \in Config
<1> USE DEF Urls
<1>1. ASSUME NEW x \in Aliases, n \in RepoSetDefault(d, x)  PROVE n \in Config
  <2> DEFINE q == Wrap(GetRepoMaxPriority(d) + PrioStep)
             e == [d EXCEPT !.repos[Position(d, x)].prio = q]
  <2>1. Known(d, x) /\ n = [d EXCEPT !.default = x, !.repos[Position(d, x)].prio = q]
    BY <1>1 DEF RepoSetDefault
  <2>2. q \in Prio
    <3>1. GetRepoMaxPriority(d) + PrioStep \in Int
      BY MaxPriority, PrioMaxAssumption DEF Prio, PrioStep
    <3> QED  BY <3>1, WrapRange
  <2>3. e \in Config /\ Alike(e, d)
    BY <2>1, <2>2, PrioritySet
  <2>4. d \in [default : Aliases, repos : Seq(Repo)]
    BY DEF Config
  <2>5. n = [default |-> x, repos |-> e.repos]
    BY <2>1, <2>4
  <2> HIDE DEF e
  <2>6. Known(e, x) /\ e.repos \in Seq(Repo)
    BY <2>1, <2>3, AlikeFacts, Places
  <2>7. \A i, j \in DOMAIN e.repos : e.repos[i].alias = e.repos[j].alias => i = j
    BY <2>3 DEF Config
  <2>8. n.repos = e.repos /\ n.default = x /\ n \in [default : Aliases, repos : Seq(Repo)]
    BY <2>5, <2>6
  <2>9. Known(n, n.default)
    BY <2>6, <2>8 DEF Known
  <2> QED  BY <2>7, <2>8, <2>9 DEF Config
<1>2. ASSUME NEW x \in Aliases, n \in RepoSetPriority(d, x, PrioMax)  PROVE n \in Config
  <2>1. Known(d, x) /\ n = [d EXCEPT !.repos[Position(d, x)].prio = PrioMax]
    BY <1>2 DEF RepoSetPriority
  <2>2. PrioMax \in Prio
    BY PrioMaxAssumption DEF Prio
  <2> QED  BY <2>1, <2>2, PrioritySet
<1>3. ASSUME NEW x \in Aliases, n \in RepoUpdate(d, x, "v")  PROVE n \in Config
  <2> DEFINE k == Position(d, x)
             r == [d.repos[k] EXCEPT !.url = "v"]
  <2>1. Known(d, x) /\ n = [d EXCEPT !.repos[k] = r]
    BY <1>3 DEF RepoUpdate
  <2>2. k \in DOMAIN d.repos /\ d.repos \in Seq(Repo)
    BY <2>1, Places
  <2>3. d.repos[k] \in Repo
    BY <2>2
  <2>4. r \in Repo /\ r.alias = d.repos[k].alias
    BY <2>3 DEF Repo
  <2> QED  BY <2>1, <2>2, <2>4, Changed
<1>4. ASSUME NEW x \in Aliases, NEW on \in BOOLEAN, n \in RepoMirror(d, x, on)  PROVE n \in Config
  <2> DEFINE k == Position(d, x)
             r == [d.repos[k] EXCEPT !.mirror = on]
  <2>1. Known(d, x) /\ n = [d EXCEPT !.repos[k] = r]
    BY <1>4 DEF RepoMirror
  <2>2. k \in DOMAIN d.repos /\ d.repos \in Seq(Repo)
    BY <2>1, Places
  <2>3. d.repos[k] \in Repo
    BY <2>2
  <2>4. r \in Repo /\ r.alias = d.repos[k].alias
    BY <2>3 DEF Repo
  <2> QED  BY <2>1, <2>2, <2>4, Changed
<1>5. \/ \E x \in Aliases : \/ n \in RepoRemove(d, x) \/ n \in RepoSetDefault(d, x)
                            \/ n \in RepoAdd(d, x, "u") \/ n \in RepoUpdate(d, x, "v")
                            \/ n \in RepoSetPriority(d, x, PrioMax)
      \/ \E x \in Aliases, on \in BOOLEAN : n \in RepoMirror(d, x, on)
  BY DEF Written
<1> QED  BY <1>1, <1>2, <1>3, <1>4, <1>5, Added, Removed

(***************************************************************************)
(* Lookups                                                                 *)
(***************************************************************************)
\* The repositories to ask are configured ones, and there is one.
LEMMA HighestFacts ==
    ASSUME NEW c \in Config
    PROVE  LET h == GetHighestPriorityRepos(c)
           IN  /\ h \in Seq(Aliases) /\ h # <<>>
               /\ \A n \in DOMAIN h : h[n] \in Aliases /\ Known(c, h[n])
               /\ 1 \in DOMAIN h
<1> DEFINE top == {i \in DOMAIN c.repos : c.repos[i].prio = GetRepoMaxPriority(c)}
           at(n) == CHOOSE i \in top : Cardinality({j \in top : j < i}) = n - 1
           h == [n \in 1 .. Cardinality(top) |-> c.repos[at(n)].alias]
<1>1. DOMAIN c.repos = 1 .. Len(c.repos) /\ Len(c.repos) \in Nat
  BY Places
<1>2. top \in SUBSET Nat /\ top # {} /\ \A i \in top : i <= Len(c.repos)
  BY <1>1, MaxPriority
<1>3. IsFiniteSet(top)
  BY <1>1, <1>2, FS_BoundedSetOfNaturals
<1> HIDE DEF top
<1>4. Cardinality(top) \in Nat /\ Cardinality(top) # 0
  BY <1>2, <1>3, FS_CardinalityType, FS_EmptySet
<1>5. \A n \in 0 .. Cardinality(top) - 1 : \E i \in top : Cardinality({j \in top : j < i}) = n
  BY <1>2, <1>3, Ranks
<1>6. ASSUME NEW n \in 1 .. Cardinality(top)  PROVE at(n) \in top
  <2>1. n - 1 \in 0 .. Cardinality(top) - 1
    BY <1>4
  <2>2. \E i \in top : Cardinality({j \in top : j < i}) = n - 1
    BY <1>5, <2>1
  <2> QED  BY <2>2
<1> HIDE DEF at
<1>7. \A n \in 1 .. Cardinality(top) : c.repos[at(n)].alias \in Aliases /\ Known(c, c.repos[at(n)].alias)
  BY <1>6, Places DEF top
<1>8. h \in Seq(Aliases) /\ DOMAIN h = 1 .. Cardinality(top) /\ 1 \in DOMAIN h
  BY <1>4, <1>7
<1>9. h # <<>>
  BY <1>8
<1>10. h = GetHighestPriorityRepos(c)
  BY DEF GetHighestPriorityRepos, at, top
<1> QED  BY <1>7, <1>8, <1>9, <1>10

\* A repository that alone has the highest priority there is is the one to ask.
LEMMA AloneAtTop ==
    ASSUME NEW c \in Config, NEW x, Known(c, x),
           \A i \in DOMAIN c.repos : c.repos[i].prio = PrioMax <=> c.repos[i].alias = x
    PROVE  GetHighestPriorityRepos(c) = <<x>>
<1> DEFINE p == Position(c, x)
           top == {i \in DOMAIN c.repos : c.repos[i].prio = GetRepoMaxPriority(c)}
<1>1. p \in DOMAIN c.repos /\ c.repos[p].alias = x /\ c.repos[p].prio = PrioMax
  BY Places
<1>2. GetRepoMaxPriority(c) = PrioMax
  <2>1. PrioMax <= GetRepoMaxPriority(c) /\ GetRepoMaxPriority(c) \in Prio
    BY <1>1, MaxPriority
  <2> QED  BY <2>1, PrioMaxAssumption DEF Prio
<1>3. top = {p}
  BY <1>1, <1>2, Places
<1>4. Cardinality(top) = 1 /\ 1 .. Cardinality(top) = {1}
  <2>1. Cardinality(top) = 1
    BY <1>3, FS_Singleton, Zenon
  <2> QED  BY <2>1
<1>5. p \in Nat /\ {j \in top : j < p} = {}
  <2>1. p \in Nat
    BY <1>1, Places
  <2> QED  BY <1>3, <2>1
<1>6. Cardinality({j \in top : j < p}) = 1 - 1
  BY <1>5, FS_EmptySet
<1> HIDE DEF top, p
<1>7. (CHOOSE i \in top : Cardinality({j \in top : j < i}) = 1 - 1) = p
  BY <1>3, <1>6
<1>8. GetHighestPriorityRepos(c)
        = [n \in 1 .. Cardinality(top) |->
             c.repos[CHOOSE i \in top : Cardinality({j \in top : j < i}) = n - 1].alias]
  BY Zenon DEF GetHighestPriorityRepos, top
<1> DEFINE h == GetHighestPriorityRepos(c)
<1>9. h = [n \in {1} |-> c.repos[CHOOSE i \in top : Cardinality({j \in top : j < i}) = n - 1].alias]
  BY <1>4, <1>8
<1>10. h[1] = x
  BY <1>1, <1>7, <1>9
<1>11. h \in Seq(Aliases) /\ DOMAIN h = {1}
  BY <1>9, HighestFacts
<1> HIDE DEF h
<1>12. Len(h) = 1
  BY <1>11
<1>13. h = <<x>>
  BY <1>10, <1>11, <1>12
<1> QED  BY <1>13 DEF h

\* The newest answer is one of the answers.
LEMMA NewestFacts ==
    ASSUME NEW found \in Seq(Found)
    PROVE  /\ Newest(found) \in Aliases \cup {"failed"}
           /\ \A x : (\A i \in DOMAIN found : found[i].repo = x) => Newest(found) \in {x, "failed"}
<1>1. CASE found = <<>>
  BY <1>1 DEF Newest
<1>2. CASE found # <<>>
  <2> DEFINE best == CHOOSE i \in DOMAIN found :
                       /\ \A j \in DOMAIN found : found[j].version <= found[i].version
                       /\ \A j \in 1 .. i - 1 : found[j].version < found[i].version
             g == [i \in 1 .. Len(found) |-> found[i].version]
  <2>1. DOMAIN found = 1 .. Len(found) /\ Len(found) \in Nat /\ Len(found) # 0
    BY <1>2
  <2>2. \A i \in DOMAIN found : found[i] \in Found
    OBVIOUS
  <2>3. \A i \in DOMAIN found : found[i].version \in 1 .. 2 /\ found[i].repo \in Aliases
    BY <2>2 DEF Found
  <2>4. /\ \A i \in 1 .. Len(found) : g[i] = found[i].version
        /\ \A i \in 1 .. Len(found) : g[i] <= 2
        /\ 2 \in Int
    BY <2>1, <2>3
  <2>5. g \in [1 .. Len(found) -> Int]
    BY <2>1, <2>3
  <2> HIDE DEF g
  <2>6. PICK i \in 1 .. Len(found) : /\ \A j \in 1 .. Len(found) : g[j] <= g[i]
                                     /\ \A j \in 1 .. i - 1 : g[j] < g[i]
    BY <2>1, <2>4, <2>5, FirstOfGreatest
  <2>7. \A j \in 1 .. i - 1 : j \in 1 .. Len(found)
    BY <2>1
  <2>8. /\ \A j \in DOMAIN found : found[j].version <= found[i].version
        /\ \A j \in 1 .. i - 1 : found[j].version < found[i].version
    BY <2>1, <2>4, <2>6, <2>7
  <2>9. best \in DOMAIN found
    BY <2>1, <2>8
  <2> HIDE DEF best
  <2>10. Newest(found) = found[best].repo
    BY <1>2 DEF Newest, best
  <2> QED  BY <2>3, <2>9, <2>10
<1> QED  BY <1>1, <1>2

(***************************************************************************)
(* The inductive invariant                                                 *)
(***************************************************************************)
\* The first configuration is one.
LEMMA FirstConfig == ConvertToV2(InitialRepos) \in Config
<1> DEFINE c == ConvertToV2(InitialRepos)
           r(i) == [alias |-> InitialRepos[i], prio |-> Wrap(-PrioStep * (i - 1)), url |-> "u",
                    mirror |-> FALSE]
<1>1. /\ DOMAIN InitialRepos = 1 .. Len(InitialRepos) /\ Len(InitialRepos) \in Nat
      /\ 1 \in DOMAIN InitialRepos /\ \A i \in DOMAIN InitialRepos : InitialRepos[i] \in Aliases
  BY ReposAssumption
<1>2. c.default = InitialRepos[1] /\ c.repos = [i \in DOMAIN InitialRepos |-> r(i)]
  BY DEF ConvertToV2
<1>3. \A i \in DOMAIN InitialRepos : r(i) \in Repo
  <2> TAKE i \in DOMAIN InitialRepos
  <2>1. -PrioStep * (i - 1) \in Int
    BY <1>1 DEF PrioStep
  <2>2. Wrap(-PrioStep * (i - 1)) \in Prio
    BY <2>1, WrapRange
  <2> QED  BY <2>2, <1>1 DEF Repo, Urls
<1>4. c \in [default : Aliases, repos : Seq(Repo)]
  <2>1. [i \in DOMAIN InitialRepos |-> r(i)] \in Seq(Repo)
    BY <1>1, <1>3
  <2> QED  BY <1>1, <2>1 DEF ConvertToV2
<1>5. DOMAIN c.repos = DOMAIN InitialRepos /\ \A i \in DOMAIN c.repos : c.repos[i].alias = InitialRepos[i]
  BY <1>2
<1> HIDE DEF c
<1>6. Known(c, c.default)
  BY <1>1, <1>2, <1>5 DEF Known
<1>7. \A i, j \in DOMAIN c.repos : c.repos[i].alias = c.repos[j].alias => i = j
  BY <1>5, ReposAssumption
<1>8. c \in Config
  BY <1>4, <1>6, <1>7 DEF Config
<1> QED  BY <1>8 DEF c

\* What the remotes and the servers of a configuration are.
LEMMA ConfigTypes ==
    ASSUME NEW c \in Config
    PROVE  /\ \A n \in 0 .. Len(c.repos) : RemotesOf(c, n) \in SUBSET Remote
           /\ UpdateOstreeRepoConfig(c) \in SUBSET Remote
           /\ GetDefaultRepo(c).url \in Urls
           /\ \A x : Known(c, x) => GetRepoByAlias(c, x).url \in Urls /\ GetRepoByAlias(c, x).prio \in Prio
           /\ Highest(c) \in SUBSET Aliases
<1>1. DOMAIN c.repos = 1 .. Len(c.repos) /\ Len(c.repos) \in Nat
  BY Places
<1>2. ASSUME NEW n \in 0 .. Len(c.repos)  PROVE RemotesOf(c, n) \in SUBSET Remote
  <2>1. \A i \in 1 .. n : i \in DOMAIN c.repos
    BY <1>1
  <2>2. \A i \in 1 .. n :
          [alias |-> c.repos[i].alias, url |-> c.repos[i].url, mirror |-> c.repos[i].mirror] \in Remote
    BY <2>1, Places DEF Remote
  <2> QED  BY <2>2 DEF RemotesOf
<1>3. UpdateOstreeRepoConfig(c) \in SUBSET Remote
  BY <1>1, <1>2 DEF UpdateOstreeRepoConfig
<1>4. \A x : Known(c, x) => GetRepoByAlias(c, x).url \in Urls /\ GetRepoByAlias(c, x).prio \in Prio
  BY Places DEF GetRepoByAlias
<1>5. GetDefaultRepo(c).url \in Urls
  BY <1>4, Places DEF GetDefaultRepo
<1>6. Highest(c) \in SUBSET Aliases
  BY Places DEF Highest
<1> QED  BY <1>2, <1>3, <1>4, <1>5, <1>6

\* The invariant holds at first.
LEMMA InitInv == Init => IInv
<1> SUFFICES ASSUME Init  PROVE IInv
  OBVIOUS
<1>1. cfg \in Config /\ disk = cfg
  BY FirstConfig DEF Init
<1>2. TypeOK
  <2>1. /\ remotes \in SUBSET Remote /\ server \in Urls /\ chosen \in SUBSET Aliases
        /\ stack \in Seq(Frame)
    BY <1>1, ConfigTypes DEF Init
  <2> QED  BY <1>1, <2>1 DEF Init, TypeOK
<1>3. stack = <<>> /\ DOMAIN stack = {} /\ remotes = UpdateOstreeRepoConfig(cfg)
  BY DEF Init
<1>4. LookupInv /\ AskedRepoUsed
  BY <1>3 DEF LookupInv, AskedRepoUsed, Init
<1>5. RaisedInv
  <2>1. Alike(cfg, disk)
    BY <1>1 DEF Alike
  <2> QED  BY <1>1, <1>3, <2>1 DEF RaisedInv, RaisedBelow, Init
<1>6. ChosenInv
  BY <1>1 DEF ChosenInv, Init
<1> QED  BY <1>2, <1>3, <1>4, <1>5, <1>6 DEF IInv

\* The innermost lookup and the others.
LEMMA FrontFacts ==
    ASSUME NEW S, NEW s \in Seq(S), s # <<>>
    PROVE  /\ Front(s) \in Seq(S) /\ Last(s) \in S
           /\ Len(s) \in Nat /\ Len(s) # 0 /\ Len(Front(s)) = Len(s) - 1 /\ Last(s) = s[Len(s)]
           /\ DOMAIN s = 1 .. Len(s) /\ DOMAIN Front(s) = 1 .. Len(s) - 1
           /\ \A i \in 1 .. Len(s) - 1 : Front(s)[i] = s[i]
           /\ Len(s) = 1 <=> Front(s) = <<>>
<1>1. Len(s) \in Nat /\ Len(s) # 0 /\ DOMAIN s = 1 .. Len(s)
  OBVIOUS
<1>2. Front(s) \in Seq(S) /\ Len(Front(s)) = Len(s) - 1 /\ \A i \in 1 .. Len(s) - 1 : Front(s)[i] = s[i]
  BY <1>1 DEF Front
<1>3. Last(s) \in S /\ Last(s) = s[Len(s)]
  BY <1>1 DEF Last
<1>4. DOMAIN Front(s) = 1 .. Len(s) - 1
  BY <1>1, <1>2
<1>5. Len(s) = 1 <=> Front(s) = <<>>
  BY <1>1, <1>2
<1> QED  BY <1>1, <1>2, <1>3, <1>4, <1>5

\* Install() up to its server's answer.
LEMMA InstallStep ==
    ASSUME IInv, NEW c \in Installs, NEW r \in Aliases \cup {None}, Install(c, r)
    PROVE  IInv'
<1> DEFINE promoted == IF r = None THEN cfg ELSE PromotePriority(cfg, r)
           highest == GetHighestPriorityRepos(promoted)
           todo == IF r = None THEN highest ELSE <<highest[1]>>
           orig == IF r = None THEN 0 ELSE GetRepoByAlias(cfg, r).prio
           f == [who |-> c, repo |-> r, todo |-> todo, found |-> <<>>, back |-> GetDefaultRepo(promoted).url,
                 orig |-> orig]
<1>1. TypeOK /\ LookupInv /\ AskedRepoUsed /\ cfg \in Config
  BY DEF IInv, TypeOK
<1>2. /\ looked[c] = "no" /\ wants' = [wants EXCEPT ![c] = r]
      /\ UNCHANGED <<disk, remotes, draft, edited, touched, peeked, chosen, halfway>>
  BY DEF Install
<1>3. \A i \in DOMAIN stack : stack[i] \in Frame /\ stack[i].who # c /\ stack[i].who \in Installs
  <2>1. \A i \in DOMAIN stack : stack[i] \in Frame
    BY <1>1 DEF TypeOK
  <2>2. \A i \in DOMAIN stack : stack[i].who \in Installs
    BY <2>1 DEF Frame
  <2>3. \A i \in DOMAIN stack : stack[i].who # c
    BY <1>1, <1>2 DEF LookupInv
  <2> QED  BY <2>1, <2>2, <2>3
<1>4. CASE r # None /\ ~Known(cfg, r)
  <2>1. undefined' = TRUE /\ unknown' = TRUE /\ UNCHANGED <<cfg, stack, server, looked, crossed>>
    BY <1>4 DEF Install
  <2>2. TypeOK'
    BY <1>1, <1>2, <2>1 DEF TypeOK
  <2>3. LookupInv'
    BY <1>1, <1>2, <1>3, <2>1 DEF LookupInv, TypeOK
  <2>4. AskedRepoUsed'
    BY <1>1, <1>2, <2>1 DEF AskedRepoUsed, TypeOK
  <2>5. ~halfway' => remotes' = UpdateOstreeRepoConfig(cfg')
    BY <1>2, <2>1 DEF IInv
  <2> QED  BY <2>1, <2>2, <2>3, <2>4, <2>5 DEF IInv
<1>5. CASE ~ (r # None /\ ~Known(cfg, r))
  <2>1. /\ cfg' = promoted /\ looked' = [looked EXCEPT ![c] = "waiting"]
        /\ stack' = Append(stack, f) /\ server' = GetRepoByAlias(promoted, todo[1]).url
        /\ crossed' = IF r # None /\ Rival(r) THEN crossed \cup {c} ELSE crossed
        /\ UNCHANGED <<undefined, unknown>>
    BY <1>5 DEF Install, ListRemote
  <2>2. /\ promoted \in Config /\ Alike(promoted, cfg)
        /\ r # None => \A i \in DOMAIN cfg.repos :
             promoted.repos[i].prio = IF cfg.repos[i].alias = r THEN PrioMax ELSE cfg.repos[i].prio
    <3>1. CASE r = None
      BY <1>1, <3>1 DEF Alike
    <3>2. CASE r # None
      <4>1. PrioMax \in Prio
        BY PrioMaxAssumption DEF Prio
      <4> QED  BY <1>1, <1>5, <3>2, <4>1, PrioritySet DEF PromotePriority
    <3> QED  BY <3>1, <3>2
  <2>3. r = None => promoted = cfg
    OBVIOUS
  <2> HIDE DEF promoted
  <2>4. /\ highest \in Seq(Aliases) /\ highest # <<>> /\ 1 \in DOMAIN highest
        /\ highest[1] \in Aliases /\ Known(promoted, highest[1])
    BY <2>2, HighestFacts
  <2>5. r # None /\ ~Rival(r) => highest = <<r>>
    <3> SUFFICES ASSUME r # None, ~Rival(r)  PROVE highest = <<r>>
      OBVIOUS
    <3>1. Known(promoted, r)
      BY <1>1, <1>5, <2>2, AlikeFacts
    <3>2. \A i \in DOMAIN promoted.repos :
             promoted.repos[i].prio = PrioMax <=> promoted.repos[i].alias = r
      BY <2>2 DEF Rival, Highest, Alike
    <3> QED  BY <2>2, <3>1, <3>2, AloneAtTop
  <2>6. todo \in Seq(Aliases) \ {<<>>} /\ todo[1] = highest[1]
    BY <2>4
  <2>7. r # None /\ ~Rival(r) => todo = <<r>>
    BY <2>5
  <2> HIDE DEF highest, todo
  <2>8. orig \in Prio /\ (r # None => orig = GetRepoByAlias(cfg, r).prio)
    BY <1>1, <1>5, ConfigTypes, PrioMaxAssumption DEF Prio
  <2> HIDE DEF orig
  <2>9. /\ f \in Frame /\ f.who = c /\ f.repo = r /\ f.todo = todo /\ f.found = <<>> /\ f.orig = orig
        /\ f.back = GetDefaultRepo(promoted).url
    <3>1. GetDefaultRepo(promoted).url \in Urls /\ <<>> \in Seq(Found)
      BY <2>2, ConfigTypes
    <3> QED  BY <2>6, <2>8, <3>1 DEF Frame
  <2> HIDE DEF f
  <2>10. /\ stack' \in Seq(Frame) /\ DOMAIN stack' = 1 .. Len(stack) + 1 /\ Len(stack') = Len(stack) + 1
         /\ DOMAIN stack = 1 .. Len(stack) /\ Len(stack) \in Nat
         /\ \A i \in DOMAIN stack : stack'[i] = stack[i]
         /\ stack'[Len(stack) + 1] = f /\ stack' # <<>>
    BY <1>1, <2>1, <2>9 DEF TypeOK
  <2>11. \A i \in DOMAIN stack' : (i \in DOMAIN stack /\ stack'[i] = stack[i]) \/ (i = Len(stack) + 1 /\ stack'[i] = f)
    BY <2>10
  <2>12. TypeOK'
    <3>1. server' \in Urls
      BY <2>1, <2>2, <2>4, <2>6, ConfigTypes
    <3>2. crossed' \in SUBSET Installs
      BY <1>1, <2>1 DEF TypeOK
    <3> QED  BY <1>1, <1>2, <2>1, <2>2, <2>10, <3>1, <3>2 DEF TypeOK
  <2>13. /\ \A x \in Installs : x # c => looked'[x] = looked[x] /\ wants'[x] = wants[x]
         /\ looked'[c] = "waiting" /\ wants'[c] = r
         /\ \A x : x # c => (x \in crossed' <=> x \in crossed)
         /\ r # None /\ c \notin crossed' => ~Rival(r)
    BY <1>1, <1>2, <2>1 DEF TypeOK
  <2>14. LookupInv'
    <3>1. ASSUME NEW i \in DOMAIN stack'
          PROVE  /\ looked'[stack'[i].who] = "waiting" /\ stack'[i].repo = wants'[stack'[i].who]
                 /\ stack'[i].repo # None /\ stack'[i].who \notin crossed' =>
                      stack'[i].todo = <<stack'[i].repo>> /\ stack'[i].found = <<>>
      <4>1. CASE i \in DOMAIN stack /\ stack'[i] = stack[i]
        BY <1>1, <1>3, <2>13, <4>1 DEF LookupInv
      <4>2. CASE i = Len(stack) + 1 /\ stack'[i] = f
        BY <2>7, <2>9, <2>13, <4>2
      <4> QED  BY <2>11, <4>1, <4>2
    <3>2. ASSUME NEW i \in DOMAIN stack', NEW j \in DOMAIN stack', stack'[i].who = stack'[j].who
          PROVE  i = j
      BY <1>1, <1>3, <2>9, <2>11, <3>2 DEF LookupInv
    <3> QED  BY <3>1, <3>2 DEF LookupInv
  <2>15. AskedRepoUsed'
    BY <1>1, <2>13 DEF AskedRepoUsed
  <2>16. ~touched' /\ ~unknown' => RaisedInv'
    <3> SUFFICES ASSUME ~touched, ~unknown  PROVE RaisedInv'
      BY <1>2, <2>1
    <3>1. RaisedInv
      BY DEF IInv
    <3>2. disk \in Config /\ Alike(cfg', disk') /\ cfg' \in Config
      BY <1>1, <1>2, <2>1, <2>2, <3>1 DEF Alike, RaisedInv, TypeOK
    <3>3. GetDefaultRepo(cfg').url = GetDefaultRepo(cfg).url /\ \A x : Known(cfg', x) <=> Known(cfg, x)
      BY <1>1, <2>1, <2>2, AlikeFacts
    <3>4. \A k \in DOMAIN stack' : stack'[k].back = GetDefaultRepo(cfg').url
      BY <2>1, <2>9, <2>11, <3>1, <3>3 DEF RaisedInv
    <3>5. \A k \in DOMAIN stack' : stack'[k].repo # None => Known(cfg', stack'[k].repo)
      BY <1>5, <2>9, <2>11, <3>1, <3>3 DEF RaisedInv
    <3>6. /\ DOMAIN cfg'.repos = DOMAIN cfg.repos
          /\ \A i \in DOMAIN cfg.repos : cfg'.repos[i].alias = cfg.repos[i].alias
      BY <2>1, <2>2 DEF Alike
    <3>7. \A k \in 1 .. Len(stack) + 1 : \A x : RaisedBelow(stack', x, k) <=> RaisedBelow(stack, x, k)
      <4> SUFFICES ASSUME NEW k \in 1 .. Len(stack) + 1, NEW x
                   PROVE  RaisedBelow(stack', x, k) <=> RaisedBelow(stack, x, k)
        OBVIOUS
      <4>1. \A j \in DOMAIN stack' : j < k => j \in DOMAIN stack /\ stack'[j] = stack[j]
        BY <2>10
      <4>2. DOMAIN stack \subseteq DOMAIN stack'
        BY <2>10
      <4> QED  BY <4>1, <4>2, <2>10 DEF RaisedBelow
    <3>8. \A x : RaisedBelow(stack', x, Len(stack) + 1 + 1)
                   <=> RaisedBelow(stack, x, Len(stack) + 1) \/ (x # None /\ x = r)
      <4> TAKE x
      <4>1. \A j \in DOMAIN stack' : j < Len(stack) + 1 + 1
        BY <2>10
      <4>2. \A j \in DOMAIN stack : j < Len(stack) + 1 /\ j \in DOMAIN stack'
        BY <2>10
      <4>3. Len(stack) + 1 \in DOMAIN stack'
        BY <2>10
      <4> QED  BY <4>1, <4>2, <4>3, <2>9, <2>10, <2>11 DEF RaisedBelow
    <3>9. ASSUME NEW i \in DOMAIN cfg'.repos
          PROVE  cfg'.repos[i].prio = IF RaisedBelow(stack', cfg'.repos[i].alias, Len(stack') + 1)
                                      THEN PrioMax ELSE disk'.repos[i].prio
      <4>1. cfg.repos[i].prio = IF RaisedBelow(stack, cfg.repos[i].alias, Len(stack) + 1)
                                THEN PrioMax ELSE disk.repos[i].prio
        BY <3>1, <3>6 DEF RaisedInv
      <4>2. cfg'.repos[i].prio = IF r # None /\ cfg.repos[i].alias = r THEN PrioMax ELSE cfg.repos[i].prio
        BY <2>1, <2>2, <2>3, <3>6
      <4> QED  BY <1>2, <2>10, <3>6, <3>8, <4>1, <4>2
    <3>10. ASSUME NEW k \in DOMAIN stack', NEW i \in DOMAIN cfg'.repos,
                  stack'[k].repo # None, cfg'.repos[i].alias = stack'[k].repo
           PROVE  stack'[k].orig = IF RaisedBelow(stack', stack'[k].repo, k)
                                   THEN PrioMax ELSE disk'.repos[i].prio
      <4>0. k \in 1 .. Len(stack) + 1
        BY <2>10
      <4>1. CASE k \in DOMAIN stack /\ stack'[k] = stack[k]
        BY <1>2, <3>1, <3>6, <3>7, <3>10, <4>0, <4>1 DEF RaisedInv
      <4>2. CASE k = Len(stack) + 1 /\ stack'[k] = f
        <5>1. cfg.repos[i].alias = r /\ r # None /\ i \in DOMAIN cfg.repos
          BY <3>6, <3>10, <4>2, <2>9
        <5>2. f.orig = cfg.repos[i].prio
          BY <1>1, <2>8, <2>9, <5>1, Places DEF GetRepoByAlias
        <5>3. cfg.repos[i].prio = IF RaisedBelow(stack, r, Len(stack) + 1)
                                  THEN PrioMax ELSE disk.repos[i].prio
          BY <3>1, <5>1 DEF RaisedInv
        <5> QED  BY <1>2, <2>9, <3>7, <4>0, <4>2, <5>2, <5>3
      <4> QED  BY <2>11, <4>1, <4>2
    <3>11. ~undefined'
      BY <2>1, <3>1 DEF RaisedInv
    <3> QED  BY <2>10, <3>2, <3>4, <3>5, <3>9, <3>10, <3>11 DEF RaisedInv
  <2>17. ~touched' /\ ~unknown' /\ ~peeked' => ChosenInv'
    BY <1>2, <2>1 DEF IInv, ChosenInv
  <2>18. ~halfway' => remotes' = UpdateOstreeRepoConfig(cfg')
    BY <1>1, <1>2, <2>1, <2>2, AlikeFacts DEF IInv
  <2> QED  BY <2>12, <2>14, <2>15, <2>16, <2>17, <2>18 DEF IInv
<1> QED  BY <1>4, <1>5

\* The lookup ends; the result of one with --repo that had the top for itself is that
\* repository or a failure.
LEMMA ResolvedStep ==
    ASSUME IInv, stack # <<>>, ~undefined, NEW result \in Aliases \cup {"failed"},
           Last(stack).repo # None /\ Last(stack).who \notin crossed
             => result \in {Last(stack).repo, "failed"},
           Resolved(Last(stack), result),
           UNCHANGED <<disk, remotes, wants, draft, edited, histories>>
    PROVE  IInv'
<1> DEFINE f == Last(stack)
           n == Len(stack)
<1>1. TypeOK /\ LookupInv /\ AskedRepoUsed /\ cfg \in Config /\ stack \in Seq(Frame)
  BY DEF IInv, TypeOK
<1>2. UNCHANGED <<touched, peeked, chosen, unknown, crossed, halfway>>
  BY DEF histories
<1>3. /\ Front(stack) \in Seq(Frame) /\ f \in Frame /\ n \in Nat /\ n # 0 /\ f = stack[n]
      /\ DOMAIN stack = 1 .. n /\ DOMAIN Front(stack) = 1 .. n - 1 /\ Len(Front(stack)) = n - 1
      /\ \A i \in 1 .. n - 1 : Front(stack)[i] = stack[i]
  BY <1>1, FrontFacts
<1>4. f.who \in Installs /\ f.back \in Urls /\ f.orig \in Prio
  BY <1>3 DEF Frame
<1> HIDE DEF f, n
<1>5. stack' = Front(stack) /\ looked' = [looked EXCEPT ![f.who] = result] /\ server' = f.back
  BY DEF Resolved, f
<1>6. DOMAIN stack' = 1 .. n - 1 /\ n \in DOMAIN stack /\ Len(stack') = n - 1
  BY <1>3, <1>5
<1>7. \A i \in DOMAIN stack' : i \in DOMAIN stack /\ i # n /\ stack'[i] = stack[i]
  BY <1>3, <1>5
<1>8. \A i \in DOMAIN stack' : stack'[i].who # f.who /\ stack'[i].who \in Installs
  <2>1. \A i \in DOMAIN stack : stack[i] \in Frame
    BY <1>1
  <2>2. \A i \in DOMAIN stack : stack[i].who \in Installs
    BY <2>1 DEF Frame
  <2>3. \A i \in DOMAIN stack : i # n => stack[i].who # f.who
    BY <1>1, <1>3, <1>6 DEF LookupInv
  <2> QED  BY <1>7, <2>2, <2>3
<1>9. looked'[f.who] = result /\ \A x \in Installs : x # f.who => looked'[x] = looked[x]
  BY <1>1, <1>4, <1>5 DEF TypeOK
<1>10. \/ f.repo = None /\ UNCHANGED <<cfg, undefined>>
       \/ f.repo # None /\ Known(cfg, f.repo) /\ cfg' = RecoverPriority(cfg, f.repo, f.orig) /\ UNCHANGED undefined
       \/ f.repo # None /\ ~Known(cfg, f.repo) /\ undefined' = TRUE /\ UNCHANGED cfg
  BY DEF Resolved, f
<1>11. /\ cfg' \in Config /\ Alike(cfg', cfg) /\ undefined' \in BOOLEAN
       /\ Known(cfg, f.repo) => \A i \in DOMAIN cfg.repos :
            cfg'.repos[i].prio = IF f.repo # None /\ cfg.repos[i].alias = f.repo THEN f.orig ELSE cfg.repos[i].prio
       /\ f.repo = None => cfg' = cfg
  <2>1. CASE cfg' = cfg /\ (f.repo = None \/ ~Known(cfg, f.repo))
    <3>1. Alike(cfg', cfg)
      BY <2>1 DEF Alike
    <3>2. undefined' \in BOOLEAN
      BY <1>1, <1>10 DEF TypeOK
    <3> QED  BY <1>1, <2>1, <3>1, <3>2
  <2>2. CASE f.repo # None /\ Known(cfg, f.repo) /\ cfg' = RecoverPriority(cfg, f.repo, f.orig) /\ UNCHANGED undefined
    <3>1. undefined' \in BOOLEAN
      BY <1>1, <2>2 DEF TypeOK
    <3>2. /\ cfg' \in Config /\ Alike(cfg', cfg)
          /\ \A i \in DOMAIN cfg.repos :
               cfg'.repos[i].prio = IF cfg.repos[i].alias = f.repo THEN f.orig ELSE cfg.repos[i].prio
      BY <1>1, <1>4, <2>2, Recovered
    <3> QED  BY <2>2, <3>1, <3>2
  <2> QED  BY <1>10, <2>1, <2>2
<1>12. TypeOK'
  <2>1. looked' \in [Installs -> Aliases \cup {"no", "waiting", "failed"}]
    BY <1>1, <1>4, <1>5 DEF TypeOK
  <2> QED  BY <1>1, <1>2, <1>3, <1>4, <1>5, <1>11, <2>1 DEF TypeOK
<1>13. LookupInv'
  BY <1>1, <1>2, <1>7, <1>8, <1>9 DEF LookupInv
<1>14. AskedRepoUsed'
  <2>1. f.repo = wants[f.who]
    BY <1>1, <1>3, <1>6 DEF LookupInv
  <2> QED  BY <1>1, <1>2, <1>9, <2>1 DEF AskedRepoUsed, f
<1>15. ~touched' /\ ~unknown' => RaisedInv'
  <2> SUFFICES ASSUME ~touched, ~unknown  PROVE RaisedInv'
    BY <1>2
  <2>1. RaisedInv
    BY DEF IInv
  <2>2. f.repo # None => Known(cfg, f.repo)
    BY <1>3, <1>6, <2>1 DEF RaisedInv
  <2>3. ~undefined'
    BY <1>10, <2>2
  <2>4. disk' = disk /\ disk \in Config
    BY <1>1 DEF TypeOK
  <2>5. Alike(cfg', disk')
    BY <1>11, <2>1, <2>4 DEF Alike, RaisedInv
  <2>6. GetDefaultRepo(cfg').url = GetDefaultRepo(cfg).url /\ \A x : Known(cfg', x) <=> Known(cfg, x)
    BY <1>1, <1>11, AlikeFacts
  <2>7. /\ \A k \in DOMAIN stack' : stack'[k].back = GetDefaultRepo(cfg').url
        /\ \A k \in DOMAIN stack' : stack'[k].repo # None => Known(cfg', stack'[k].repo)
    BY <1>7, <2>1, <2>6 DEF RaisedInv
  <2>8. server' = GetDefaultRepo(cfg').url
    BY <1>3, <1>5, <1>6, <2>1, <2>6 DEF RaisedInv
  <2>9. /\ DOMAIN cfg'.repos = DOMAIN cfg.repos
        /\ \A i \in DOMAIN cfg.repos : cfg'.repos[i].alias = cfg.repos[i].alias
    BY <1>11 DEF Alike
  <2>10. \A k \in 1 .. n : \A x : RaisedBelow(stack', x, k) <=> RaisedBelow(stack, x, k)
    <3> SUFFICES ASSUME NEW k \in 1 .. n, NEW x
                 PROVE  RaisedBelow(stack', x, k) <=> RaisedBelow(stack, x, k)
      OBVIOUS
    <3>1. \A j \in DOMAIN stack : j < k => j \in DOMAIN stack'
      BY <1>3, <1>6
    <3> QED  BY <1>7, <3>1 DEF RaisedBelow
  <2>11. \A x : RaisedBelow(stack, x, n + 1) <=> RaisedBelow(stack, x, n) \/ (x # None /\ x = f.repo)
    <3> TAKE x
    <3>1. \A j \in DOMAIN stack : j < n + 1 /\ (j < n \/ j = n)
      BY <1>3
    <3>2. n < n + 1 /\ n \in DOMAIN stack
      BY <1>3, <1>6
    <3> QED  BY <1>3, <3>1, <3>2 DEF RaisedBelow
  <2>12. ASSUME NEW i \in DOMAIN cfg'.repos
         PROVE  cfg'.repos[i].prio = IF RaisedBelow(stack', cfg'.repos[i].alias, Len(stack') + 1)
                                     THEN PrioMax ELSE disk'.repos[i].prio
    <3>1. cfg.repos[i].prio = IF RaisedBelow(stack, cfg.repos[i].alias, n + 1)
                              THEN PrioMax ELSE disk.repos[i].prio
      BY <2>1, <2>9 DEF RaisedInv, n
    <3>2. Len(stack') + 1 = n /\ n \in 1 .. n
      BY <1>3, <1>6
    <3>3. RaisedBelow(stack', cfg'.repos[i].alias, Len(stack') + 1) <=> RaisedBelow(stack, cfg.repos[i].alias, n)
      BY <2>9, <2>10, <3>2
    <3>4. CASE f.repo # None /\ cfg.repos[i].alias = f.repo
      <4>1. cfg'.repos[i].prio = f.orig
        BY <1>11, <2>2, <2>9, <3>4
      <4>2. f.orig = IF RaisedBelow(stack, f.repo, n) THEN PrioMax ELSE disk.repos[i].prio
        BY <1>3, <1>6, <2>1, <2>9, <3>4 DEF RaisedInv
      <4> QED  BY <2>4, <3>3, <3>4, <4>1, <4>2
    <3>5. CASE f.repo = None \/ cfg.repos[i].alias # f.repo
      <4>1. cfg'.repos[i].prio = cfg.repos[i].prio
        BY <1>11, <2>2, <2>9, <3>5
      <4> QED  BY <2>4, <2>11, <3>1, <3>3, <3>5, <4>1
    <3> QED  BY <3>4, <3>5
  <2>13. ASSUME NEW k \in DOMAIN stack', NEW i \in DOMAIN cfg'.repos,
                stack'[k].repo # None, cfg'.repos[i].alias = stack'[k].repo
         PROVE  stack'[k].orig = IF RaisedBelow(stack', stack'[k].repo, k)
                                 THEN PrioMax ELSE disk'.repos[i].prio
    <3>1. k \in 1 .. n
      BY <1>3, <1>6
    <3> QED  BY <1>7, <2>1, <2>4, <2>9, <2>10, <2>13, <3>1 DEF RaisedInv
  <2> QED  BY <2>3, <2>5, <2>7, <2>8, <2>12, <2>13 DEF RaisedInv
<1>16. ~touched' /\ ~unknown' /\ ~peeked' => ChosenInv'
  BY <1>2 DEF IInv, ChosenInv
<1>17. ~halfway' => remotes' = UpdateOstreeRepoConfig(cfg')
  BY <1>1, <1>2, <1>11, AlikeFacts DEF IInv
<1> QED  BY <1>12, <1>13, <1>14, <1>15, <1>16, <1>17 DEF IInv

\* The answer of a server: the lookup ends, or asks the next one.
LEMMA AnswerStep ==
    ASSUME IInv, NEW version \in -1 .. 2, Answer(version)
    PROVE  IInv'
<1> DEFINE f == Last(stack)
           n == Len(stack)
           found == IF version \in Nat /\ version > 0
                    THEN Append(f.found, [repo |-> f.todo[1], version |-> version]) ELSE f.found
           rest == Tail(f.todo)
           g == [f EXCEPT !.todo = rest, !.found = found, !.back = GetDefaultRepo(cfg).url]
<1>1. TypeOK /\ LookupInv /\ AskedRepoUsed /\ cfg \in Config /\ stack \in Seq(Frame)
  BY DEF IInv, TypeOK
<1>2. stack # <<>> /\ ~undefined /\ UNCHANGED <<disk, remotes, wants, draft, edited, histories>>
  BY DEF Answer
<1>3. UNCHANGED <<touched, peeked, chosen, unknown, crossed, halfway>>
  BY <1>2 DEF histories
<1>4. /\ Front(stack) \in Seq(Frame) /\ f \in Frame /\ n \in Nat /\ n # 0 /\ f = stack[n]
      /\ DOMAIN stack = 1 .. n /\ DOMAIN Front(stack) = 1 .. n - 1 /\ Len(Front(stack)) = n - 1
      /\ \A i \in 1 .. n - 1 : Front(stack)[i] = stack[i]
  BY <1>1, <1>2, FrontFacts
<1>5. /\ f.who \in Installs /\ f.todo \in Seq(Aliases) /\ f.todo # <<>> /\ f.found \in Seq(Found)
      /\ f.repo \in Aliases \cup {None} /\ f.orig \in Prio
  BY <1>4 DEF Frame
<1>6. \/ Resolved(f, "failed")
      \/ rest = <<>> /\ Resolved(f, Newest(found))
      \/ /\ rest # <<>> /\ Known(cfg, rest[1])
         /\ ListRemote(cfg, Front(stack), [f EXCEPT !.todo = rest, !.found = found])
         /\ UNCHANGED <<cfg, looked, undefined>>
  BY DEF Answer
<1>7. found \in Seq(Found) /\ rest \in Seq(Aliases)
  <2>1. f.todo[1] \in Aliases
    BY <1>5
  <2>2. version \in Nat /\ version > 0 => [repo |-> f.todo[1], version |-> version] \in Found
    BY <2>1 DEF Found
  <2> QED  BY <1>5, <2>2
<1> DEFINE alone == f.repo # None /\ f.who \notin crossed
<1>8. alone => f.todo = <<f.repo>> /\ f.found = <<>>
  <2>1. n \in DOMAIN stack
    BY <1>4
  <2> QED  BY <1>1, <1>4, <2>1 DEF LookupInv
<1>9. alone => rest = <<>> /\ \A i \in DOMAIN found : found[i].repo = f.repo
  <2> SUFFICES ASSUME alone  PROVE rest = <<>> /\ \A i \in DOMAIN found : found[i].repo = f.repo
    OBVIOUS
  <2>1. f.todo = <<f.repo>> /\ f.found = <<>> /\ f.todo[1] = f.repo
    BY <1>8
  <2>2. rest = <<>>
    BY <2>1
  <2> DEFINE answer == [repo |-> f.repo, version |-> version]
  <2>3. found = <<>> \/ found = <<answer>>
    BY <2>1
  <2>4. answer.repo = f.repo
    OBVIOUS
  <2> HIDE DEF found, answer
  <2>5. \A i \in DOMAIN found : found[i] = answer
    BY <2>3
  <2> QED  BY <2>2, <2>4, <2>5
<1> HIDE DEF found, rest
<1>10. CASE Resolved(f, "failed")
  BY <1>2, <1>10, ResolvedStep
<1>11. CASE rest = <<>> /\ Resolved(f, Newest(found))
  <2>1. Newest(found) \in Aliases \cup {"failed"}
    BY <1>7, NewestFacts
  <2>2. alone => Newest(found) \in {f.repo, "failed"}
    BY <1>7, <1>9, NewestFacts
  <2> QED  BY <1>2, <1>11, <2>1, <2>2, ResolvedStep
<1>12. CASE /\ rest # <<>> /\ Known(cfg, rest[1])
            /\ ListRemote(cfg, Front(stack), [f EXCEPT !.todo = rest, !.found = found])
            /\ UNCHANGED <<cfg, looked, undefined>>
  <2>1. stack' = Append(Front(stack), g) /\ server' = GetRepoByAlias(cfg, rest[1]).url
    BY <1>12 DEF ListRemote
  <2>2. ~alone
    BY <1>9, <1>12
  <2>3. /\ g \in Frame /\ g.who = f.who /\ g.repo = f.repo /\ g.orig = f.orig
        /\ g.back = GetDefaultRepo(cfg).url
    <3>1. GetDefaultRepo(cfg).url \in Urls
      BY <1>1, ConfigTypes
    <3> QED  BY <1>4, <1>7, <1>12, <3>1 DEF Frame
  <2> HIDE DEF g, f, n
  <2>4. /\ stack' \in Seq(Frame) /\ Len(stack') = n /\ DOMAIN stack' = DOMAIN stack
        /\ \A i \in 1 .. n - 1 : stack'[i] = stack[i]
        /\ stack'[n] = g /\ stack' # <<>>
    BY <1>4, <2>1, <2>3
  <2>5. \A i \in DOMAIN stack : i = n \/ i \in 1 .. n - 1
    BY <1>4
  <2>6. /\ \A i \in DOMAIN stack : /\ stack'[i].who = stack[i].who /\ stack'[i].repo = stack[i].repo
                                   /\ stack'[i].orig = stack[i].orig
        /\ \A i \in DOMAIN stack : i = n \/ stack'[i] = stack[i]
    BY <1>4, <2>3, <2>4, <2>5
  <2>7. TypeOK'
    <3>1. server' \in Urls
      BY <1>1, <1>12, <2>1, ConfigTypes
    <3> QED  BY <1>1, <1>2, <1>3, <1>12, <2>4, <3>1 DEF TypeOK
  <2>8. LookupInv'
    <3>1. \A i \in DOMAIN stack' :
             stack'[i].repo # None /\ stack'[i].who \notin crossed' =>
                 stack'[i].todo = <<stack'[i].repo>> /\ stack'[i].found = <<>>
      BY <1>1, <1>3, <1>4, <2>2, <2>4, <2>6 DEF LookupInv
    <3> QED  BY <1>1, <1>2, <1>12, <2>4, <2>6, <3>1 DEF LookupInv
  <2>9. AskedRepoUsed'
    BY <1>1, <1>2, <1>3, <1>12 DEF AskedRepoUsed
  <2>10. ~touched' /\ ~unknown' => RaisedInv'
    <3> SUFFICES ASSUME ~touched, ~unknown  PROVE RaisedInv'
      BY <1>3
    <3>1. RaisedInv
      BY DEF IInv
    <3>2. \A x, k : RaisedBelow(stack', x, k) <=> RaisedBelow(stack, x, k)
      BY <2>4, <2>6 DEF RaisedBelow
    <3>3. Len(stack') = Len(stack)
      BY <2>4 DEF n
    <3>4. \A k \in DOMAIN stack' : stack'[k].back = GetDefaultRepo(cfg').url
      BY <1>12, <2>3, <2>4, <2>6, <3>1 DEF RaisedInv
    <3>5. /\ ~undefined' /\ Alike(cfg', disk')
          /\ \A k \in DOMAIN stack' : stack'[k].repo # None => Known(cfg', stack'[k].repo)
      BY <1>2, <1>12, <2>4, <2>6, <3>1 DEF RaisedInv
    <3>6. \A i \in DOMAIN cfg'.repos :
             cfg'.repos[i].prio = IF RaisedBelow(stack', cfg'.repos[i].alias, Len(stack') + 1)
                                  THEN PrioMax ELSE disk'.repos[i].prio
      BY <1>2, <1>12, <3>1, <3>2, <3>3 DEF RaisedInv
    <3>7. \A k \in DOMAIN stack' : \A i \in DOMAIN cfg'.repos :
             stack'[k].repo # None /\ cfg'.repos[i].alias = stack'[k].repo =>
                 stack'[k].orig = IF RaisedBelow(stack', stack'[k].repo, k)
                                  THEN PrioMax ELSE disk'.repos[i].prio
      BY <1>2, <1>12, <2>4, <2>6, <3>1, <3>2 DEF RaisedInv
    <3> QED  BY <2>4, <3>4, <3>5, <3>6, <3>7 DEF RaisedInv
  <2>11. ~touched' /\ ~unknown' /\ ~peeked' => ChosenInv'
    BY <1>2, <1>3 DEF IInv, ChosenInv
  <2>12. ~halfway' => remotes' = UpdateOstreeRepoConfig(cfg')
    BY <1>2, <1>3, <1>12 DEF IInv
  <2> QED  BY <2>7, <2>8, <2>9, <2>10, <2>11, <2>12 DEF IInv
<1> QED  BY <1>6, <1>10, <1>11, <1>12

\* A configuration is read: its highest priorities are chosen ones if none is raised.
LEMMA ReadStep ==
    ASSUME IInv, NEW e \in Editors, ReadConfiguration(e)
    PROVE  IInv'
<1>1. TypeOK /\ LookupInv /\ AskedRepoUsed
  BY DEF IInv
<1>2. /\ draft' = [draft EXCEPT ![e] = {cfg}] /\ peeked' = (peeked \/ Raised)
      /\ UNCHANGED <<cfg, disk, remotes, server, stack, looked, wants, edited, undefined, touched,
                     chosen, unknown, crossed, halfway>>
  BY DEF ReadConfiguration
<1>3. TypeOK'
  <2>1. draft' \in [Editors -> SUBSET Config]
    BY <1>1, <1>2 DEF TypeOK
  <2>2. peeked' \in BOOLEAN
    BY <1>2, Zenon
  <2> QED  BY <1>1, <1>2, <2>1, <2>2 DEF TypeOK
<1>4. LookupInv' /\ AskedRepoUsed'
  BY <1>1, <1>2 DEF LookupInv, AskedRepoUsed
<1>5. ~touched' /\ ~unknown' => RaisedInv'
  BY <1>2 DEF IInv, RaisedInv
<1>6. ~touched' /\ ~unknown' /\ ~peeked' => ChosenInv'
  <2> SUFFICES ASSUME ~touched, ~unknown, ~peeked, ~Raised  PROVE ChosenInv'
    BY <1>2
  <2>1. RaisedInv /\ ChosenInv
    BY DEF IInv
  <2>2. \A i \in DOMAIN cfg.repos : cfg.repos[i].prio = disk.repos[i].prio
    BY <2>1 DEF RaisedInv, RaisedBelow, Raised
  <2>3. cfg = disk
    BY <1>1, <2>1, <2>2, AlikeFacts DEF RaisedInv, TypeOK
  <2>4. \A x \in Editors : draft'[x] = IF x = e THEN {cfg} ELSE draft[x]
    BY <1>1, <1>2 DEF TypeOK
  <2> QED  BY <1>2, <2>1, <2>3, <2>4 DEF ChosenInv
<1>7. ~halfway' => remotes' = UpdateOstreeRepoConfig(cfg')
  BY <1>2 DEF IInv
<1> QED  BY <1>3, <1>4, <1>5, <1>6, <1>7 DEF IInv

\* A configuration is written, whole or in part, or not.
LEMMA SetStep ==
    ASSUME IInv, NEW e \in Editors, SetConfiguration(e)
    PROVE  IInv'
<1>1. TypeOK /\ LookupInv /\ AskedRepoUsed /\ cfg \in Config /\ disk \in Config
  BY DEF IInv, TypeOK
<1>2. /\ draft' = [draft EXCEPT ![e] = {}] /\ edited' = edited \cup {e}
      /\ UNCHANGED <<stack, looked, wants, undefined, peeked, unknown, crossed>>
  BY DEF SetConfiguration
<1>3. PICK d \in draft[e] : \E new \in Written(d) :
         /\ chosen' = chosen \cup (Highest(new) \ Highest(d))
         /\ IF new = cfg THEN UNCHANGED <<cfg, disk, remotes, server, halfway, touched>>
            ELSE SetConfig(new) /\ touched' = (touched \/ stack # <<>>)
  BY DEF SetConfiguration
<1>4. PICK new \in Written(d) :
         /\ chosen' = chosen \cup (Highest(new) \ Highest(d))
         /\ IF new = cfg THEN UNCHANGED <<cfg, disk, remotes, server, halfway, touched>>
            ELSE SetConfig(new) /\ touched' = (touched \/ stack # <<>>)
  BY <1>3
<1>5. d \in Config
  BY <1>1 DEF TypeOK
<1>6. new \in Config
  BY <1>5, WrittenIsConfig
<1>7. /\ touched' \in BOOLEAN /\ (touched => touched')
      /\ \/ UNCHANGED <<cfg, disk, remotes, server>> /\ (~halfway' => ~halfway) /\ halfway' \in BOOLEAN
         \/ /\ \E n \in 0 .. Len(new.repos) : remotes' = RemotesOf(new, n)
            /\ halfway' = TRUE /\ disk' = cfg /\ UNCHANGED <<cfg, server>>
         \/ disk' = cfg /\ remotes' = UpdateOstreeRepoConfig(cfg) /\ UNCHANGED <<cfg, server, halfway>>
         \/ /\ cfg' = new /\ disk' = new /\ remotes' = UpdateOstreeRepoConfig(new)
            /\ server' = GetDefaultRepo(new).url /\ UNCHANGED halfway
  <2>1. CASE new = cfg
    BY <1>1, <1>4, <2>1 DEF TypeOK
  <2>2. CASE new # cfg
    <3>1. SetConfig(new) /\ touched' = (touched \/ stack # <<>>)
      BY <1>4, <2>2
    <3>2. touched' \in BOOLEAN /\ (touched => touched')
      BY <3>1, Zenon
    <3>3. \A n \in 0 .. Len(new.repos) - 1 : n \in 0 .. Len(new.repos)
      BY <1>6, Places
    <3> QED  BY <1>1, <3>1, <3>2, <3>3 DEF SetConfig, TypeOK
  <2> QED  BY <2>1, <2>2
<1>8. ~touched' => UNCHANGED <<cfg, disk, remotes, server>> \/ stack = <<>>
  BY <1>4
<1>9. \A x \in Editors : draft'[x] \in SUBSET draft[x]
  BY <1>1, <1>2 DEF TypeOK
<1>10. TypeOK'
  <2>1. draft' \in [Editors -> SUBSET Config] /\ edited' \in SUBSET Editors
    BY <1>1, <1>2 DEF TypeOK
  <2>2. chosen' \in SUBSET Aliases
    BY <1>1, <1>4, <1>6, ConfigTypes DEF TypeOK
  <2>3. cfg' \in Config /\ disk' \in Config /\ halfway' \in BOOLEAN
    BY <1>1, <1>6, <1>7 DEF TypeOK
  <2>4. remotes' \in SUBSET Remote
    BY <1>1, <1>6, <1>7, ConfigTypes DEF TypeOK
  <2>5. server' \in Urls
    BY <1>1, <1>6, <1>7, ConfigTypes DEF TypeOK
  <2> QED  BY <1>1, <1>2, <1>7, <2>1, <2>2, <2>3, <2>4, <2>5 DEF TypeOK
<1>11. LookupInv' /\ AskedRepoUsed'
  BY <1>1, <1>2 DEF LookupInv, AskedRepoUsed
<1>12. ASSUME ~touched', ~unknown', stack = <<>>
       PROVE  RaisedInv' /\ (disk' = disk \/ disk' = new)
  <2>1. RaisedInv
    BY <1>2, <1>7, <1>12 DEF IInv
  <2>2. DOMAIN stack = {} /\ DOMAIN stack' = {}
    BY <1>2, <1>12
  <2>3. \A x, k : ~RaisedBelow(stack, x, k) /\ ~RaisedBelow(stack', x, k)
    BY <2>2 DEF RaisedBelow
  <2>4. cfg = disk /\ server = GetDefaultRepo(cfg).url
    <3>1. \A i \in DOMAIN cfg.repos : cfg.repos[i].prio = disk.repos[i].prio
      BY <2>1, <2>3 DEF RaisedInv
    <3> QED  BY <1>1, <1>12, <2>1, <3>1, AlikeFacts DEF RaisedInv
  <2>5. cfg' = disk' /\ server' = GetDefaultRepo(cfg').url /\ (disk' = disk \/ disk' = new)
    BY <1>7, <2>4
  <2>6. ~undefined'
    BY <1>2, <2>1 DEF RaisedInv
  <2>7. Alike(cfg', disk')
    BY <2>5 DEF Alike
  <2> QED  BY <2>2, <2>3, <2>5, <2>6, <2>7 DEF RaisedInv
<1>13. ~touched' /\ ~unknown' => RaisedInv'
  <2> SUFFICES ASSUME ~touched', ~unknown'  PROVE RaisedInv'
    OBVIOUS
  <2>1. CASE stack = <<>>
    BY <1>12, <2>1
  <2>2. CASE UNCHANGED <<cfg, disk, remotes, server>>
    BY <1>2, <1>7, <2>2 DEF IInv, RaisedInv
  <2> QED  BY <1>8, <2>1, <2>2
<1>14. ~touched' /\ ~unknown' /\ ~peeked' => ChosenInv'
  <2> SUFFICES ASSUME ~touched', ~unknown', ~peeked'  PROVE ChosenInv'
    OBVIOUS
  <2>1. ChosenInv
    BY <1>2, <1>7 DEF IInv
  <2>2. disk' = disk \/ disk' = new
    BY <1>8, <1>12
  <2>3. Highest(new) \subseteq chosen' /\ chosen \subseteq chosen'
    BY <1>4, <2>1 DEF ChosenInv
  <2> QED  BY <1>9, <2>1, <2>2, <2>3 DEF ChosenInv
<1>15. ~halfway' => remotes' = UpdateOstreeRepoConfig(cfg')
  BY <1>7 DEF IInv
<1> QED  BY <1>10, <1>11, <1>13, <1>14, <1>15 DEF IInv

\* The inductive invariant holds in every reachable state, whatever repositories are
\* configured and however many clients look them up and edit them.
THEOREM Invariance == Spec => []IInv
<1>1. IInv /\ [Next]_vars => IInv'
  <2> SUFFICES ASSUME IInv, [Next]_vars  PROVE IInv'
    OBVIOUS
  <2>1. ASSUME NEW c \in Installs, NEW r \in Aliases \cup {None}, Install(c, r)  PROVE IInv'
    BY <2>1, InstallStep
  <2>2. ASSUME NEW version \in -1 .. 2, Answer(version)  PROVE IInv'
    BY <2>2, AnswerStep
  <2>3. ASSUME NEW e \in Editors, ReadConfiguration(e)  PROVE IInv'
    BY <2>3, ReadStep
  <2>4. ASSUME NEW e \in Editors, SetConfiguration(e)  PROVE IInv'
    BY <2>4, SetStep
  <2>5. ASSUME UNCHANGED vars  PROVE IInv'
    BY <2>5 DEF vars, IInv, TypeOK, LookupInv, AskedRepoUsed, RaisedInv, ChosenInv
  <2> QED  BY <2>1, <2>2, <2>3, <2>4, <2>5 DEF Next
<1> QED  BY InitInv, <1>1, PTL DEF Spec

\* The configurations in memory, on disk and with the editors always name a default among
\* repositories that are all different, and every lookup that waits has one to ask.
THEOREM TypeCorrect == Spec => []TypeOK
<1>1. IInv => TypeOK
  BY DEF IInv
<1> QED  BY Invariance, <1>1, PTL

\* promotePriority() and recoverPriority(): raised priorities leave no trace, whatever
\* lookups nest, and setConfig() leaves the remotes of the configuration or tells.
THEOREM NoTraceIsLeft == Spec => []ConfigurationsAgree
<1>1. IInv => ConfigurationsAgree
  <2> SUFFICES ASSUME IInv, ~touched, ~unknown
               PROVE  /\ ~undefined
                      /\ stack = <<>> => /\ cfg = disk /\ server = GetDefaultRepo(cfg).url
                                         /\ ~peeked => Highest(cfg) \subseteq chosen
    BY DEF IInv, ConfigurationsAgree
  <2>1. RaisedInv /\ cfg \in Config /\ disk \in Config
    BY DEF IInv, TypeOK
  <2>2. ~peeked => Highest(disk) \subseteq chosen
    BY DEF IInv, ChosenInv
  <2>3. ~undefined
    BY <2>1 DEF RaisedInv
  <2>4. ASSUME stack = <<>>  PROVE cfg = disk /\ server = GetDefaultRepo(cfg).url
    <3>1. DOMAIN stack = {}
      BY <2>4
    <3>2. \A i \in DOMAIN cfg.repos : cfg.repos[i].prio = disk.repos[i].prio
      BY <2>1, <3>1 DEF RaisedInv, RaisedBelow
    <3> QED  BY <2>1, <2>4, <3>2, AlikeFacts DEF RaisedInv
  <2> QED  BY <2>2, <2>3, <2>4
<1> QED  BY Invariance, <1>1, PTL

\* Install() with --repo takes the application from that repository, however many other
\* lookups and edits come between, unless another one was at the top when it began.
THEOREM RepoOptionHonoured == Spec => []AskedRepoUsed
<1>1. IInv => AskedRepoUsed
  BY DEF IInv
<1> QED  BY Invariance, <1>1, PTL

=============================================================================
