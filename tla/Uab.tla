--------------------------------- MODULE Uab ---------------------------------
(* Running a UAB, apps/uab: every instance mounts the bundle it carries on one directory named
   by the uuid of the bundle, runs the loader found there, and unmounts.  The process that
   serves the file system is a fork of the instance: when its mount is gone erofsfuse_main()
   returns, and it goes on where the instance went on. *)
EXTENDS Naturals, FiniteSets, Sequences

CONSTANTS Instances, MaxTroubles   \* signals, failing commands and failing loaders, in all
ASSUME InstancesAssumption == IsFiniteSet(Instances) /\ MaxTroubles \in Nat

Procs == Instances \X {"main", "fuse"}
Fuse(p) == <<p[1], "fuse">>

VARIABLES
    rpc, created, mounted,  \* of every process: where it is, createFlag, mountFlag
    handler,                \* processes that are in the signal handler
    stack,                  \* instances whose bundle is mounted on the directory, the top first
    dir,                    \* the directory exists
    loader,                 \* of every process: its loader, [pc, mount], mount: what it runs from
    extra,                  \* mounts taken away by a process for the second time
    early,                  \* instances that were stopped between mount and mountFlag
    held,                   \* instances that could not unmount
    troubles                \* signals, and commands and loaders that failed

uabVars == <<rpc, created, mounted, handler, stack, dir, loader, extra, early, held, troubles>>
mountVars == <<stack, dir, extra, early, held, troubles>>

(* A signal, or a command or a loader that fails. *)
Trouble == troubles < MaxTroubles /\ troubles' = troubles + 1

NoLoader == [pc |-> "none", mount |-> "none"]

UabInit ==
    /\ rpc = [p \in Procs |-> IF p[2] = "main" THEN "idle" ELSE "none"]
    /\ created = [p \in Procs |-> FALSE] /\ mounted = [p \in Procs |-> FALSE] /\ handler = {}
    /\ stack = <<>> /\ dir = FALSE /\ extra = 0 /\ early = {} /\ held = {} /\ troubles = 0
    /\ loader = [p \in Procs |-> NoLoader]

(* main() and createMountPoint(); --help, --print-meta and an unreadable file end before. *)
CreateMountPoint(p) ==
    /\ rpc[p] = "idle" /\ rpc' = [rpc EXCEPT ![p] = "verify"]
    /\ dir' = TRUE /\ created' = [created EXCEPT ![p] = TRUE]
    /\ UNCHANGED <<mounted, handler, stack, extra, early, held, troubles, loader>>

(* mountSelfBundle() up to the fork: another digest ends it there. *)
ForkFuse(p) ==
    /\ rpc[p] = "verify" /\ UNCHANGED <<mounted, handler, mountVars, loader>>
    /\ \/ /\ rpc' = [rpc EXCEPT ![p] = "waitfuse", ![Fuse(p)] = "mounting"]
          /\ created' = [created EXCEPT ![Fuse(p)] = created[p]]
       \/ rpc' = [rpc EXCEPT ![p] = "clean"] /\ UNCHANGED created

(* erofsfuse: mounting fails if the directory is gone, or for reasons of its own. *)
Mount(p) ==
    /\ rpc[p] = "mounting"
    /\ \/ dir /\ stack' = <<p[1]>> \o stack /\ rpc' = [rpc EXCEPT ![p] = "serving"]
       \/ rpc' = [rpc EXCEPT ![p] = "failed"] /\ UNCHANGED stack
    /\ UNCHANGED <<created, mounted, handler, dir, extra, early, held, troubles, loader>>

(* ... and what follows in the instance. *)
FuseMounted(p) ==
    /\ rpc[p] = "waitfuse" /\ rpc[Fuse(p)] \notin {"mounting"}
    /\ rpc' = [rpc EXCEPT ![p] = IF rpc[Fuse(p)] = "failed" THEN "clean" ELSE "flag"]
    /\ UNCHANGED <<created, mounted, handler, mountVars, loader>>

(* The mount is gone, and nobody uses it any more: the fork returns from erofsfuse_main(). *)
InUse(i) == \E q \in Procs : loader[q].pc \in {"init", "box"} /\ loader[q].mount = i
Served(p) ==
    /\ rpc[p] = "serving" /\ p[1] \notin {stack[k] : k \in DOMAIN stack} /\ ~InUse(p[1])
    /\ rpc' = [rpc EXCEPT ![p] = "flag"]
    /\ UNCHANGED <<created, mounted, handler, mountVars, loader>>

(* mountSelf(), its last line. *)
MountSelf(p) ==
    /\ rpc[p] = "flag" /\ rpc' = [rpc EXCEPT ![p] = "run"] /\ mounted' = [mounted EXCEPT ![p] = TRUE]
    /\ UNCHANGED <<created, handler, mountVars, loader>>

(* runAppLoader(): the loader is looked up below the directory.  Extracting, and a bundle
   that cannot be run, take the other branch.  A child that cannot become the loader returns
   from main() too. *)
RunAppLoader(p) ==
    /\ rpc[p] = "run"
    /\ UNCHANGED <<created, mounted, handler, stack, dir, extra, early, held>>
    /\ \/ /\ stack # <<>> /\ rpc' = [rpc EXCEPT ![p] = "wait"] /\ UNCHANGED troubles
          /\ loader' = [loader EXCEPT ![p] = [pc |-> "init", mount |-> Head(stack)]]
       \/ /\ stack # <<>> /\ rpc' = [rpc EXCEPT ![p] = "wait"] /\ Trouble
          /\ loader' = [loader EXCEPT ![p] = [pc |-> "failed", mount |-> "none"]]
       \/ rpc' = [rpc EXCEPT ![p] = "clean"] /\ UNCHANGED <<loader, troubles>>

(* fusermount takes away the mount on top, whose ever it is. *)
Unmounted == IF stack = <<>> THEN <<>> ELSE Tail(stack)

(* cleanResource() in such a child, whose flags are those of its parent. *)
ChildCleans(p) ==
    /\ loader[p].pc = "failed"
    /\ \/ /\ stack' = Unmounted /\ extra' = IF stack = <<>> THEN extra ELSE extra + 1
          /\ loader' = [loader EXCEPT ![p].pc = "rmdir"] /\ UNCHANGED troubles
       \/ /\ Trouble /\ UNCHANGED <<stack, extra>>
          /\ \E s \in {"rmdir", "gone"} : loader' = [loader EXCEPT ![p].pc = s]
    /\ UNCHANGED <<rpc, created, mounted, handler, dir, early, held>>
ChildRemovesDir(p) ==
    /\ loader[p].pc = "rmdir" /\ loader' = [loader EXCEPT ![p].pc = "gone"]
    /\ dir' = (dir /\ (~created[p] \/ stack # <<>>))
    /\ UNCHANGED <<rpc, created, mounted, handler, stack, extra, early, held, troubles>>

(* The loader sets up its container and runs it; a signal makes it end before its container. *)
LoaderInit(p) ==
    /\ loader[p].pc = "init"
    /\ \E s \in {"box", "gone"} : loader' = [loader EXCEPT ![p].pc = s]
    /\ UNCHANGED <<rpc, created, mounted, handler, mountVars>>
LoaderEnds(p) ==
    /\ loader[p].pc = "box" /\ loader' = [loader EXCEPT ![p].pc = "gone"]
    /\ UNCHANGED <<rpc, created, mounted, handler, mountVars>>
LoaderWaited(p) ==
    /\ rpc[p] = "wait" /\ loader[p].pc = "gone" /\ rpc' = [rpc EXCEPT ![p] = "clean"]
    /\ UNCHANGED <<created, mounted, handler, mountVars, loader>>

CleanAlways(p) == TRUE

(* cleanResource(), from atexit() or from the signal handler: nothing to do before mountFlag. *)
ToClean(p) == mounted[p]

(* The unmount of a process that has one to make: not of a fork, nor of a handler that
   interrupted cleanResource() after its unmount. *)
ItsOwn(p) == p[2] = "main" /\ <<p, "again">> \notin handler

(* That fusermount is missing or fails is not noticed; without a process to run it nothing
   more is done. *)
CleanResource(p) ==
    /\ rpc[p] = "clean" /\ UNCHANGED <<created, mounted, handler, dir, early, loader>>
    /\ \/ /\ ToClean(p) /\ rpc' = [rpc EXCEPT ![p] = "unmounted"] /\ UNCHANGED <<held, troubles>>
          /\ stack' = Unmounted
          /\ extra' = IF stack # <<>> /\ ~ItsOwn(p) THEN extra + 1 ELSE extra
       \/ /\ ToClean(p) /\ Trouble /\ UNCHANGED <<stack, extra>>
          /\ \E s \in {"unmounted", "gone"} : rpc' = [rpc EXCEPT ![p] = s]
          /\ held' = IF ItsOwn(p) THEN held \cup {p} ELSE held
       \/ ~ToClean(p) /\ rpc' = [rpc EXCEPT ![p] = "gone"] /\ UNCHANGED <<stack, extra, held, troubles>>
ClearFlag(p) ==
    /\ rpc[p] = "unmounted" /\ rpc' = [rpc EXCEPT ![p] = "rmdir"]
    /\ mounted' = [mounted EXCEPT ![p] = FALSE]
    /\ UNCHANGED <<created, handler, mountVars, loader>>
(* The directory stays while something is mounted on it. *)
RemoveDir(p) ==
    /\ rpc[p] = "rmdir" /\ rpc' = [rpc EXCEPT ![p] = "gone"]
    /\ dir' = (dir /\ (~created[p] \/ stack # <<>>))
    /\ created' = [created EXCEPT ![p] = stack # <<>>]
    /\ UNCHANGED <<mounted, handler, stack, extra, early, held, troubles, loader>>

(* handleSig(): cleanResource() from its beginning, wherever the process is; further signals
   wait.  The loader is not told. *)
Signal(p) ==
    /\ p[2] = "main" /\ rpc[p] \notin {"idle", "none", "gone"} /\ Trouble
    /\ \A h \in handler : h[1] # p
    /\ handler' = handler \cup {<<p, IF rpc[p] = "unmounted" THEN "again" ELSE "once">>}
    /\ early' = IF rpc[p] \in {"waitfuse", "flag"} THEN early \cup {p} ELSE early
    /\ rpc' = [rpc EXCEPT ![p] = "clean"]
    /\ UNCHANGED <<created, mounted, stack, dir, extra, held, loader>>

UabNext ==
    \E p \in Procs :
        \/ CreateMountPoint(p) \/ ForkFuse(p) \/ Mount(p) \/ FuseMounted(p) \/ Served(p)
        \/ MountSelf(p) \/ RunAppLoader(p) \/ ChildCleans(p) \/ ChildRemovesDir(p)
        \/ LoaderInit(p) \/ LoaderEnds(p) \/ LoaderWaited(p)
        \/ CleanResource(p) \/ ClearFlag(p) \/ RemoveDir(p) \/ Signal(p)

UabSpec == UabInit /\ [][UabNext]_uabVars

\* Instances between mount and unmount.
Running == {p \in Procs : /\ p[2] = "main"
                          /\ (rpc[p] \in {"flag", "run", "wait"} \/ (rpc[p] = "clean" /\ mounted[p]))}
AllGone == \A p \in Procs : p[2] = "main" => rpc[p] \in {"idle", "gone"}

\* Instances that share the directory leave each other a mount: there are as many mounts as
\* instances that have mounted and not yet unmounted (those stopped before mountFlag was set
\* keep theirs), but for what a fork that outlived its mount, a child that could not become
\* the loader, or a handler that interrupted cleanResource(), took away; when all instances
\* are gone, there are at most as many mounts as instances that were stopped before mountFlag
\* or could not unmount (cleanResource(), which does not look at how fusermount ended).
NothingLeftMounted ==
    /\ Len(stack) + extra >= Cardinality({p \in Running : <<p, "again">> \notin handler})
    /\ AllGone => Len(stack) <= Cardinality(early \cup held)
==============================================================================
