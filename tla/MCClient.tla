------------------------------ MODULE MCClient ------------------------------
(* Four scenes for TLC, one of which a behaviour is about: processes of ll-cli that wait for
   their tasks and jobs (Cli), configured repositories that are looked into and edited
   (Remotes), references that are looked up (Versions), and runs that share a cache (Cache).
   They share no state, so their product would show nothing more. *)
EXTENDS Remotes, Cli, Cache

CONSTANTS a, b, d, c1, c2
VARIABLES scene, layers, list, records, fuzzy, opts, vpc, found, hit
versionVars == <<layers, list, records, fuzzy, opts, vpc, found, hit>>

TwoRepos == <<a, b>>
TwoCommands == c1 :> {"file", "install", "upgrade", "uninstall", "search", "prune", "cache"}
               @@ c2 :> {"install"}

---------------------------------------------------------------------------
\* Words in the order of their texts; "big" is a number that is no int, "huge" one that
\* fits no integer.
Word(r, v, c) == [rank |-> r, value |-> v, canonical |-> c, pre |-> None, meta |-> None]
Suffixed(r, p, m) == [rank |-> r, value |-> -1, canonical |-> FALSE, head |-> "0", pre |-> p, meta |-> m]
Plain == "" :> Word(0, -1, FALSE) @@ "0" :> Word(1, 0, TRUE) @@ "01" :> Word(8, 1, FALSE)
         @@ "1" :> Word(9, 1, TRUE) @@ "10" :> Word(10, 10, TRUE) @@ "1a" :> Word(11, -1, FALSE)
         @@ "big" :> Word(12, 20, TRUE) @@ "9" :> Word(13, 9, TRUE) @@ "huge" :> Word(14, -1, TRUE)
         @@ "a" :> Word(15, -1, FALSE) @@ "security" :> Word(16, -1, FALSE)
Lexicon == [w \in DOMAIN Plain |-> Plain[w] @@ [head |-> w]]
           @@ "0+security" :> Suffixed(2, None, "security") @@ "0-10" :> Suffixed(3, "10", None)
           @@ "0-1a" :> Suffixed(4, "1a", None) @@ "0-9" :> Suffixed(5, "9", None)
           @@ "0-a" :> Suffixed(6, "a", None) @@ "0-a+security" :> Suffixed(7, "a", "security")
IntMax == 15
Host == "x86_64"
Architectures == {"x86_64", "arm64"}

\* Versions that are close to one another, of which three may be installed, and others
Close == {<<"0", "0", w>> : w \in {"0", "0-a", "0-9", "0-10", "0-1a"}}
         \cup {<<"0", "0", "0+security", "1">>, <<"0", "0", "0", "0">>, <<"0", "0", "0", "1">>,
               <<"0", "1a">>, <<"0", "10">>, <<"0", "9">>}
Texts == Close \cup {<<"0", "0", "0-a", "1">>, <<"0", "0", "0-a+security", "1">>, <<"0", "0", "big">>,
                     <<"0", "0", "9">>, <<"0", "1">>, <<"0", "01">>, <<"0", "0", "0+security", "0">>,
                     <<"0", "0", "huge">>, <<"0", "", "1">>}
Live(t) == [text |-> t, deleted |-> FALSE]
Installed == {{}} \cup {{Live(s), Live(t)} : s, t \in Texts}
             \cup {{[text |-> s, deleted |-> TRUE], Live(t)} : s, t \in Close}
             \cup {{Live(s) : s \in S} : S \in kSubset(3, Close)}
Rec(t, m, c, arch) == [text |-> t, module |-> m, channel |-> c, arch |-> arch]
Offered ==
    {<<>>,
     <<Rec(<<"0", "0", "0-10">>, "binary", "main", "arm64"), Rec(<<"0", "0", "0-1a">>, "runtime", "main", Host),
       Rec(<<"0", "0", "0-9">>, "binary", "beta", Host), Rec(<<"0", "0", "0", "1">>, "develop", "main", Host)>>,
     <<Rec(<<"", "">>, "binary", "main", Host), Rec(<<"0", "0", "0", "0">>, "binary", "", Host),
       Rec(<<"0", "0", "0">>, "binary", "main", "z80"), Rec(<<"0", "0", "1">>, "binary", "main", Host),
       Rec(<<"0", "0", "0">>, "binary", "main", Host)>>}
Ask(c, v, arch) == [channel |-> c, version |-> v, arch |-> arch]
Asked == {Ask("", <<>>, "unknown"), Ask("main", <<"0", "0">>, Host), Ask("", <<"0", "0", "0">>, ""),
          Ask("unknown", <<"unknown">>, "arm64"), Ask("", <<"0">>, "z80"), Ask("beta", <<"", "">>, "")}
V == INSTANCE Versions WITH pc <- vpc

---------------------------------------------------------------------------
\* Only the scene that is played has a choice of initial states.
ScenesInit ==
    /\ scene \in {"cli", "remotes", "versions", "cache"}
    /\ Init /\ CliInit /\ V!Init /\ CacheInit
    /\ scene # "versions" => layers = {} /\ records = <<>>
    /\ scene # "cache" => now = "plain"
ScenesNext ==
    /\ UNCHANGED scene
    /\ \/ scene = "remotes" /\ Next /\ UNCHANGED <<cliVars, versionVars, cacheVars>>
       \/ scene = "cli" /\ CliNext /\ UNCHANGED <<vars, versionVars, cacheVars>>
       \/ scene = "versions" /\ V!Next /\ UNCHANGED <<vars, cliVars, cacheVars>>
       \/ scene = "cache" /\ CacheNext /\ UNCHANGED <<vars, cliVars, versionVars>>
ScenesSpec == ScenesInit /\ [][ScenesNext]_<<scene, vars, cliVars, versionVars, cacheVars>> /\ CliFairness

\* The property of the third scene (see Versions; those of the others are in their modules):
\* clearReference() finds the newest layer that answers, under a name that survives.
NewestFound == V!NewestFound
=============================================================================
