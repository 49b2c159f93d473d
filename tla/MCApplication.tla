------------------------------ MODULE MCApplication ------------------------------
(* The life of an application outside the package manager, in six scenes, one of which a
   behaviour is about: ll-builder in a project (Builder), the packager of a bundle (Bundle),
   instances of an exported bundle that run on one machine (Uab), the unpacking of bundle
   and layer files (Unpack), processes of `ll-cli run' (RunApp) and the mounts of a
   container (ContainerCfg).  They share no state, so their product would show nothing
   more. *)
EXTENDS RunApp, Builder, Bundle, Uab, Unpack, Sequences, SequencesExt, TLC

CONSTANT BaseRo

VARIABLES
    scene,
    cpc, features, patched, tree, ctodo, kept

cfgVars == <<cpc, features, patched, tree, ctodo, kept>>

---------------------------------------------------------------------------
\* ll-builder: a plain application, one with its own modules, and one that names a module twice
Rule(n, rs) == [name |-> n, rules |-> rs]
Source(kind, digest) == [kind |-> kind, url |-> TRUE, digest |-> digest]
Proj(ms, app, cmd, rt, src, bdep, dep, inst) ==
    [modules |-> ms, app |-> app, command |-> cmd, runtime |-> rt, sources |-> src,
     buildDepends |-> bdep, depends |-> dep, install |-> inst]
ProjectsToBuild ==
    {Proj(<<>>, TRUE, TRUE, TRUE, <<Source("git", TRUE)>>, FALSE, TRUE, {}),
     Proj(<<Rule("develop", <<{"header", "dirlink"}>>), Rule("lang", <<{"bin"}, {"dirlink"}>>)>>,
          FALSE, FALSE, FALSE, <<>>, TRUE, FALSE, {"bin"}),
     Proj(<<>>, TRUE, FALSE, FALSE, <<>>, FALSE, FALSE, {}),
     Proj(<<>>, FALSE, FALSE, FALSE, <<Source("file", TRUE), Source("git", FALSE)>>, FALSE, FALSE, {}),
     Proj(<<Rule("lang", <<{"header"}>>), Rule("lang", <<{"bin"}>>)>>, FALSE, FALSE, FALSE, <<>>, FALSE, FALSE, {})}
OptionsToUse == {{}, {"full_develop", "skip_check"}, {"offline", "skip_commit"}, {"skip_run"}}
Alphabet == [binary |-> 1, develop |-> 2, lang |-> 3]

\* The packager: exclusions, inclusions, the blacklist, a custom loader, distributed bundles
Layer(k, fs, ls, os) == [kind |-> k, files |-> fs, links |-> ls, outside |-> os]
Export(ref, rt, ex, inc, bl, need, ldr, icon) ==
    [ref |-> ref, runtime |-> rt, exclude |-> ex, include |-> inc, black |-> bl, needed |-> need,
     loader |-> ldr, icon |-> icon]
LayersToPack == [base |-> Layer("base", {"libc", "so", "libz", "sox", "libx", "bad"},
                                "so" :> "libz" @@ "sox" :> "libx" @@ "bad" :> "nothing",
                                "libx" :> "moved"),
                 runtime |-> Layer("runtime", {"qt", "doc", "libc"}, << >>, << >>),
                 app |-> Layer("app", {"bin", "doc", "ln", "gone"},
                               "ln" :> "doc" @@ "gone" :> "missing", << >>)]
ExportsToMake ==
    {Export("none", TRUE, {"doc"}, {}, {"libc"}, {"so", "sox", "libc"}, FALSE, TRUE),
     Export("none", FALSE, {"doc", "bin"}, {"bin"}, {}, {"so"}, FALSE, FALSE),
     Export("none", TRUE, {"doc"}, {}, {}, {}, TRUE, FALSE),
     Export("none", TRUE, {"doc"}, {}, {"ln"}, {}, FALSE, FALSE),
     Export("none", TRUE, {}, {}, {}, {"absent"}, FALSE, FALSE),
     Export("none", TRUE, {}, {}, {}, {"bad"}, FALSE, FALSE),
     Export("app", FALSE, {}, {}, {}, {}, FALSE, FALSE),
     Export("runtime", FALSE, {}, {}, {}, {}, FALSE, FALSE)}
\* Files of one to nine bytes of bundle, of which the last may be missing or damaged
FilesToUnpack ==
    {f \in [kind : {"uab"}, length : 1..9, tail : {0, 1, 3, 5}, missing : {0, 1, 6}, damaged : BOOLEAN] :
        f.missing <= f.length}

\* Two versions of an application, a runtime with an extension, a base, and two runners
InfoOf(k, id, v, b, r, es) == [kind |-> k, id |-> id, ver |-> v, base |-> b, runtime |-> r, exts |-> es]
InfoOfAll == [a1 |-> InfoOf("app", "app", 1, "bs", "none", {}),
              a2 |-> InfoOf("app", "app", 2, "bs", "rt", {}),
              rt |-> InfoOf("runtime", "rt", 1, "bs", "none", {"ex", "nx"}),
              bs |-> InfoOf("base", "bs", 1, "none", "none", {}),
              ex |-> InfoOf("extension", "ex", 1, "bs", "none", {})]
NoOpts == [runtime |-> "none", base |-> "none"]

\* The container: paths that exist, that are links and that are missing in the layers
PathsTo(ps) == UNION {Prefixes(p) : p \in ps}
HostMount(dest) == [dest |-> dest, type |-> "bind", layer |-> "host", path |-> dest, ro |-> FALSE, link |-> FALSE]
Content == [base |-> PathsTo({<<"etc", "passwd">>, <<"etc", "resolv.conf">>, <<"etc", "localtime">>,
                              <<"etc", "mtab">>, <<"usr", "share", "doc">>, <<"usr", "bin">>,
                              <<"run">>, <<"media">>}),
            runtime |-> PathsTo({<<"lib", "qt">>, <<"etc">>}),
            app |-> PathsTo({<<"bin">>, <<"share", "icons">>})]
Dangling == [base |-> {<<"etc", "resolv.conf">>, <<"etc", "mtab">>}, runtime |-> {}, app |-> {}]
Symlinks == [base |-> {<<"etc", "localtime">>, <<"media">>} \cup Dangling["base"], runtime |-> {<<"etc">>}, app |-> {}]
Host == {<<"usr", "share", "zoneinfo">>, <<"usr", "share", "icons">>, <<"etc", "hosts">>, <<"etc", "machine-id">>}
Features ==
    {{"app", "runtime", "extra"} \cup f : f \in SUBSET {"run", "home", "users", "media", "hostroot"}}
    \cup {{}, {"ipc"}, {"extension", "statics", "devnode"},
          {"run", "xdg", "ipc", "cache", "ldcache", "home", "private", "display", "cgroup", "app", "devnode", "extension",
           "statics"}}
Extras == <<HostMount(<<"runtime", "lib", "new", "deep">>), HostMount(<<"opt", "apps", "id", "files", "plugin">>),
            HostMount(<<"usr", "local", "x">>), HostMount(<<"etc">>)>>
G == INSTANCE ContainerCfg WITH pc <- cpc, todo <- ctodo

---------------------------------------------------------------------------
allVars == <<scene, vars, projectVars, bundleVars, uabVars, unpackVars, cfgVars>>
ScenesInit ==
    /\ scene \in {"builder", "bundle", "uab", "unpack", "container", "run"}
    /\ Init /\ ProjectInit /\ BundleInit /\ UabInit /\ UnpackInit /\ G!Init
ScenesNext ==
    /\ UNCHANGED scene
    /\ \/ scene = "builder" /\ ProjectNext /\ UNCHANGED <<vars, bundleVars, uabVars, unpackVars, cfgVars>>
       \/ scene = "bundle" /\ BundleNext /\ UNCHANGED <<vars, projectVars, uabVars, unpackVars, cfgVars>>
       \/ scene = "uab" /\ UabNext /\ UNCHANGED <<vars, projectVars, bundleVars, unpackVars, cfgVars>>
       \/ scene = "unpack" /\ UnpackNext /\ UNCHANGED <<vars, projectVars, bundleVars, uabVars, cfgVars>>
       \/ scene = "container" /\ G!Next /\ UNCHANGED <<vars, projectVars, bundleVars, uabVars, unpackVars>>
       \/ scene = "run" /\ Next /\ UNCHANGED <<projectVars, bundleVars, uabVars, unpackVars, cfgVars>>
\* Processes, and instances of a bundle, are alike.
Alike == Permutations(Runners) \cup Permutations(Instances)

\* Failures are few: none with a kill, and one with one other command of ll-builder.
FewFailures == Cardinality(faults) + Cardinality(killed) <= 1 /\ failures + commands <= 2

ScenesSpec == ScenesInit /\ [][ScenesNext]_allVars

\* The property of the scene that is an instance; those of the others are in their modules.
\* The mounts of a container can be made and hide nothing that no mount covers.
MountsFit == G!MountsFit
=============================================================================
