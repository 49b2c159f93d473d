------------------------------- MODULE LLInit -------------------------------
(***************************************************************************)
(* ll-init (apps/ll-init/src/ll-init.cpp), the first process of a          *)
(* container.  It starts the application, forwards signals, reaps every    *)
(* process of the container, starts further commands for clients of its    *)
(* socket, and ends when nobody is left.  One thread waits in epoll_wait() *)
(* for three edge-triggered descriptors: "sig", "timer" and "sock".        *)
(*                                                                         *)
(* Left out: descriptors that cannot be made (ll-init then ends at once),  *)
(* the text of a command, the 3 seconds of a timer.                        *)
(***************************************************************************)
EXTENDS Integers, Sequences, FiniteSets, SequencesExt

CONSTANTS App,        \* the initial child
          Others,     \* the processes that may be there besides it
          Clients,    \* the ll-cli processes that may delegate a command
          MaxSignals  \* bound: signals sent to ll-init from inside, and from outside

None == "none"
Init1 == "init"       \* ll-init as a parent
All == "all"          \* the pid -1

\* What waitpid() reports: a normal end with a code, or a signal.
Statuses == [how : {"exited"}, num : {0, 3}] \cup [how : {"signaled"}, num : {15}]
Zero == [how |-> "exited", num |-> 0]     \* the int 0
Code(s) == IF s.how = "exited" THEN s.num ELSE 128 + s.num

Procs == {App} \cup Others
ASSUME LLInitAssumption == {Init1, All} \cap Procs = {} /\ MaxSignals \in Nat
Fds == {"sig", "timer", "sock"}

VARIABLES
    proc,       \* process -> [st, parent, status], st one of none, live, zombie, gone
    pending,    \* signals the signalfd would return: "CHLD", "in", "out"; the two
                \* others stand for SIGTERM sent inside and outside of the pid namespace
    ready,      \* epoll's ready list
    backlog,    \* clients waiting for accept()
    answer,     \* client -> "no", "waiting", "started", "refused", "closed"; "cut": killed
                \* after it has sent the length of its command and before the command
    pc,         \* "wait", "batch", "hung" or "exited"
    batch, i, ret,          \* events, index and bound of the for loop
    waitPid, waitStatus,    \* waitChild
    timer,      \* the timer has been started
    done, childExitCode,
    told,       \* history: processes a forwarded signal was sent to
    sent,       \* history: how many signals have been sent to ll-init
    lost        \* history: "sig"/"sock": events dropped with their batch, "early": App was
                \* given up while it lived, "crowd": a client came while one was waiting

vars == <<proc, pending, ready, backlog, answer, pc, batch, i, ret, waitPid, waitStatus,
          timer, done, childExitCode, told, sent, lost>>
kernel == <<proc, pending, answer, backlog, sent>>
loop == <<pc, batch, i, ret, waitPid, waitStatus, timer, done, childExitCode>>

In(st) == {p \in Procs : proc[p].st = st}

\* An edge: the descriptor joins the ready list unless it is in it.
Edge(fd) == IF fd \in ToSet(ready) THEN ready ELSE Append(ready, fd)

\* main() up to the loop: the application has been started, the descriptors registered.
Init ==
    /\ proc = [p \in Procs |-> [st |-> IF p = App THEN "live" ELSE None,
                                parent |-> Init1, status |-> Zero]]
    /\ pending = {} /\ ready = <<>> /\ backlog = <<>>
    /\ answer = [c \in Clients |-> "no"]
    /\ pc = "wait" /\ batch = <<>> /\ i = 1 /\ ret = 0
    /\ waitPid = App /\ waitStatus = Zero
    /\ timer = FALSE /\ done = FALSE /\ childExitCode = 0
    /\ told = {} /\ sent = 0 /\ lost = {}

(***************************************************************************)
(* The kernel and the processes of the container                           *)
(***************************************************************************)

\* A process of the container forks.
Fork(p, q) ==
    /\ pc # "exited" /\ proc[p].st = "live" /\ proc[q].st = None
    /\ proc' = [proc EXCEPT ![q] = [st |-> "live", parent |-> p, status |-> Zero]]
    /\ UNCHANGED <<pending, ready, backlog, answer, loop, told, sent, lost>>

\* A process ends.  Its children are adopted by ll-init (PR_SET_CHILD_SUBREAPER);
\* ll-init gets SIGCHLD for its own child and for zombies it adopts.
End(p, s) ==
    LET orphans == {q \in Procs : proc[q].parent = p /\ proc[q].st \in {"live", "zombie"}}
        news == proc[p].parent = Init1 \/ \E q \in orphans : proc[q].st = "zombie"
    IN
    /\ pc # "exited" /\ proc[p].st = "live"
    /\ proc' = [q \in Procs |->
                  IF q = p THEN [proc[p] EXCEPT !.st = "zombie", !.status = s]
                  ELSE IF q \in orphans THEN [proc[q] EXCEPT !.parent = Init1]
                  ELSE proc[q]]
    /\ pending' = IF news THEN pending \cup {"CHLD"} ELSE pending
    /\ ready' = IF news THEN Edge("sig") ELSE ready
    /\ UNCHANGED <<backlog, answer, loop, told, sent, lost>>

\* A living parent other than ll-init reaps its child.
ParentReaps(q) ==
    /\ pc # "exited" /\ proc[q].st = "zombie" /\ proc[q].parent # Init1
    /\ proc' = [proc EXCEPT ![q].st = "gone"]
    /\ UNCHANGED <<pending, ready, backlog, answer, loop, told, sent, lost>>

\* Somebody sends a signal to ll-init.
Signal(sig) ==
    /\ pc # "exited" /\ sig \notin pending /\ sent < MaxSignals
    /\ sent' = sent + 1
    /\ pending' = pending \cup {sig}
    /\ ready' = Edge("sig")
    /\ UNCHANGED <<proc, backlog, answer, loop, told, lost>>

\* The timer expires.
Tick ==
    /\ pc # "exited" /\ timer
    /\ ready' = Edge("timer")
    /\ UNCHANGED <<kernel, loop, told, lost>>

\* delegateToContainerInit() of ll-cli connects.
Connect(c) ==
    /\ pc # "exited" /\ answer[c] = "no"
    /\ answer' = [answer EXCEPT ![c] = "waiting"]
    /\ backlog' = Append(backlog, c)
    /\ ready' = Edge("sock")
    /\ lost' = IF backlog = <<>> THEN lost ELSE lost \cup {"crowd"}
    /\ UNCHANGED <<proc, pending, loop, told, sent>>

\* ll-cli is killed between its two messages; its connection is still to be accepted.
Cut(c) ==
    /\ pc # "exited" /\ answer[c] = "waiting"
    /\ answer' = [answer EXCEPT ![c] = "cut"]
    /\ UNCHANGED <<proc, pending, ready, backlog, loop, told, sent, lost>>

(***************************************************************************)
(* ll-init                                                                 *)
(***************************************************************************)

\* shouldWait(): a directory of /proc belongs to some process other than pid 1;
\* processes nobody has waited for are among them.
ShouldWait(pr) == \E p \in Procs : pr[p].st \in {"live", "zombie"}

EpollWait ==
    /\ pc = "wait" /\ ready # <<>>
    /\ batch' = ready /\ ready' = <<>> /\ ret' = Len(ready) /\ i' = 1 /\ pc' = "batch"
    /\ UNCHANGED <<kernel, waitPid, waitStatus, timer, done, childExitCode, told, lost>>

AtEvent(fd) == pc = "batch" /\ i <= ret /\ batch[i] = fd

\* handle_sigevent(): everything pending is read.  A signal is forwarded to the pid
\* main() passed, a signal with no sender in this namespace is not; SIGCHLD reaps
\* every child that has ended.
Ended == {p \in In("zombie") : proc[p].parent = Init1}
ReapedOne == IF "CHLD" \in pending /\ Ended # {} THEN {CHOOSE p \in Ended : TRUE} ELSE {}
Reaped == IF "CHLD" \in pending THEN Ended ELSE {}
ForwardedTo == IF "in" \notin pending THEN {}
               ELSE IF waitPid = All THEN In("live") ELSE {waitPid} \cap In("live")
StatusOfLast ==
    IF Reaped = {} THEN waitStatus
    ELSE proc[IF Reaped = {App} THEN App ELSE CHOOSE p \in Reaped : p # App].status
StatusOfChild == IF waitPid \in Reaped THEN proc[waitPid].status ELSE waitStatus
HandleSigevent ==
    /\ pending' = {}
    /\ proc' = [p \in Procs |-> IF p \in Reaped THEN [proc[p] EXCEPT !.st = "gone"] ELSE proc[p]]
    /\ told' = told \cup ForwardedTo
    /\ waitStatus' = StatusOfChild

\* The signalfd branch of main().  waitChild.status is 0 until the child has been
\* waited for, which reads as "exited with 0": the first event, whatever it is,
\* ends the watch of the initial child.
SigEventThen(next) ==
    /\ AtEvent("sig")
    /\ HandleSigevent
    /\ IF waitPid = App
       THEN /\ waitPid' = All
            /\ childExitCode' = Code(waitStatus')
            /\ done' = (done \/ ~ShouldWait(proc'))
            /\ timer' = TRUE
            /\ lost' = IF App \in Reaped THEN lost ELSE lost \cup {"early"}
       ELSE UNCHANGED <<waitPid, childExitCode, done, timer, lost>>
    /\ i' = next
    /\ UNCHANGED <<ready, backlog, answer, pc, batch, ret, sent>>
SigEventBreaks == SigEventThen(ret + 1)
SigEvent == SigEventThen(i + 1)

\* The timerfd branch; the result of handle_timerfdevent() goes to ret, the bound of the
\* for loop, so that the events behind this one are dropped.
TimerEvent ==
    /\ AtEvent("timer")
    /\ ret' = IF ShouldWait(proc) THEN 1 ELSE 0
    /\ done' = (done \/ ~ShouldWait(proc))
    /\ lost' = lost \cup ({batch[j] : j \in (i + 1)..Len(batch)} \ {"timer"})
    /\ i' = i + 1
    /\ UNCHANGED <<kernel, ready, pc, batch, waitPid, waitStatus, timer, childExitCode, told>>

\* delegate_run(): fork() may fail.
DelegateRun(q) == [proc EXCEPT ![q] = [st |-> "live", parent |-> Init1, status |-> Zero]]

\* handle_client() accepts one client and reads its command.
Served(c, what, pr) ==
    /\ backlog # <<>> /\ c = Head(backlog) /\ answer[c] # "cut"
    /\ backlog' = Tail(backlog)
    /\ answer' = [answer EXCEPT ![c] = what]
    /\ proc' = pr

\* The socket branch: a client that was answered, with a process or without one, calls
\* the end off.
ClientEventThen(doneThen) ==
    /\ AtEvent("sock")
    /\ \/ \E c \in Clients, q \in In(None) :
            Served(c, "started", DelegateRun(q)) /\ done' = doneThen
       \/ \E c \in Clients : Served(c, "refused", proc) /\ done' = doneThen  \* no process
       \/ \E c \in Clients : Served(c, "closed", proc) /\ UNCHANGED done  \* no command
       \/ backlog = <<>> /\ UNCHANGED <<backlog, answer, proc, done>>
    /\ i' = i + 1
    /\ UNCHANGED <<pending, ready, pc, batch, ret, waitPid, waitStatus, timer,
                   childExitCode, told, sent, lost>>
ClientEventKeepsDone == ClientEventThen(done)
ClientEvent == ClientEventThen(FALSE)

\* handle_client() reads on until it has as many bytes as were announced, or an error; of a
\* client that is gone recv() gives 0 bytes and no error, over and over.
ClientHangs ==
    /\ AtEvent("sock") /\ backlog # <<>> /\ answer[Head(backlog)] = "cut"
    /\ backlog' = Tail(backlog)
    /\ pc' = "hung"
    /\ UNCHANGED <<proc, pending, ready, answer, batch, i, ret, waitPid, waitStatus, timer, done,
                   childExitCode, told, sent, lost>>

\* The end of a batch.  When ll-init ends the kernel ends the container with it.
EndBatch ==
    /\ pc = "batch" /\ i > ret
    /\ IF done
       THEN /\ pc' = "exited"
            /\ answer' = [c \in Clients |-> IF answer[c] = "waiting" THEN "closed" ELSE answer[c]]
            /\ backlog' = <<>>
       ELSE pc' = "wait" /\ UNCHANGED <<answer, backlog>>
    /\ batch' = <<>> /\ i' = 1 /\ ret' = 0
    /\ UNCHANGED <<proc, pending, ready, waitPid, waitStatus, timer, done, childExitCode,
                   told, sent, lost>>

Next ==
    \/ \E p \in Procs, q \in Others : Fork(p, q)
    \/ \E s \in Statuses : End(App, s)
    \/ \E p \in Others : End(p, Zero)
    \/ \E q \in Procs : ParentReaps(q)
    \/ \E sig \in {"in", "out"} : Signal(sig)
    \/ Tick
    \/ \E c \in Clients : Connect(c) \/ Cut(c)
    \/ EpollWait \/ SigEvent \/ TimerEvent \/ ClientEvent \/ ClientHangs \/ EndBatch

\* The loop goes on while there are events, the timer keeps expiring.
Fairness ==
    /\ WF_vars(Tick)
    /\ WF_vars(EpollWait \/ SigEvent \/ TimerEvent \/ ClientEvent \/ ClientHangs \/ EndBatch)

Spec == Init /\ [][Next]_vars /\ Fairness
-----------------------------------------------------------------------------
(***************************************************************************)
(* Properties                                                              *)
(***************************************************************************)
\* ll-init never ends, and takes the container with it, while a process of the container
\* lives: not one that was forked, nor one it has just started for a client in the batch
\* in which the end was decided.
NobodyKilled == pc = "exited" => In("live") = {}

\* The container ends with the application's exit code, however many processes end with
\* it, if the application's own end is the first thing ll-init hears of.
ExitCodeKept ==
    pc = "exited" /\ "early" \notin lost => childExitCode = Code(proc[App].status)

\* Nobody who has connected waits without an event that will wake ll-init up, except for
\* the two ways an edge is used up: two clients share one, or the timer drops it.
NoClientStranded ==
    pc = "wait" /\ backlog # <<>> /\ lost \cap {"sock", "crowd"} = {} => "sock" \in ToSet(ready)

\* Once every process has ended the container ends, unless the timer has dropped the
\* event that was to reap the last of them, or a client was killed while it delegated a
\* command, for which handle_client() then waits for ever.
EndsWhenEmpty ==
    [](In("live") = {} => <>(pc \in {"exited", "hung"} \/ In("live") # {} \/ "sig" \in lost))
=============================================================================
