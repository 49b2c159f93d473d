-------------------------------- MODULE Cli --------------------------------
(***************************************************************************)
(* ll-cli as a client of the package manager (cli.cpp, ll-cli's main.cpp): *)
(* a process asks for permission, makes one D-Bus call, and waits in an    *)
(* event loop for the signal that tells it the outcome.  Signals are       *)
(* broadcast: a process gets those it is connected to, in the order they   *)
(* were sent, and handles them in its event loop only.                     *)
(*                                                                         *)
(* The package manager is seen from outside: tasks run one after another,  *)
(* jobs at any time, it may ask the client, and it may crash.  A task and  *)
(* a job bear the name of the client that asked for it.                    *)
(***************************************************************************)
EXTENDS Integers, Sequences, FiniteSets, SequencesExt

CONSTANTS
    Clients,     \* processes of ll-cli, each running one command
    Commands,    \* client -> the commands it may run
    MaxCrashes   \* of the package manager

Asking == {"install", "file"}                     \* may lead to a question
TaskKinds == Asking \cup {"upgrade", "uninstall"}
JobKinds == {"search", "prune", "cache"}
Nothing == "none"
Final == {"Succeed", "Failed", "Canceled"}

VARIABLES
    pc,       \* client -> "idle", "called", "replied", "waiting", "prompt", "ended"
    cmd,      \* client -> command
    reply,    \* client -> "accepted", "refused", "error", "timeout" or Nothing
    subs,     \* client -> signals it is connected to
    inbox,    \* client -> signals it has not handled
    last,     \* client -> [state, sub]: lastState, whether lastSubState is a final one
    task,     \* clients that hold a Task1 object
    quitNow,  \* clients that got SIGINT or SIGTERM
    exit,     \* client -> exit code, "aborted" or Nothing
    pending,  \* clients whose call the package manager has not handled
    queue,    \* the package manager's tasks, in order
    phase,    \* of the first one: "queued", "running", "asking", "late"
    jobs,     \* jobs that have not ended
    verdict,  \* history: client -> how its task or job ended
    cancelled,     \* history: tasks that were asked to stop
    missed,        \* history: clients not connected when their outcome was sent
    crashes        \* history: crashes of the package manager

cliVars == <<pc, cmd, reply, subs, inbox, last, task, quitNow, exit, pending, queue, phase,
             jobs, verdict, cancelled, missed, crashes>>
pmVars == <<queue, phase, jobs, verdict, missed, crashes>>

Fresh == [state |-> "Unknown", sub |-> FALSE]

\* The constructor of Cli connects to TaskRemoved.
CliInit ==
    /\ pc = [c \in Clients |-> "idle"] /\ cmd = [c \in Clients |-> Nothing]
    /\ reply = [c \in Clients |-> Nothing]
    /\ subs = [c \in Clients |-> {"TaskRemoved"}] /\ inbox = [c \in Clients |-> <<>>]
    /\ last = [c \in Clients |-> Fresh] /\ task = {} /\ quitNow = {}
    /\ exit = [c \in Clients |-> Nothing]
    /\ pending = {} /\ queue = <<>> /\ phase = "queued" /\ jobs = {}
    /\ verdict = [c \in Clients |-> Nothing] /\ cancelled = {} /\ missed = {}
    /\ crashes = 0

(***************************************************************************)
(* The processes of ll-cli                                                 *)
(***************************************************************************)

\* The process ends.
End(c, code) ==
    /\ pc' = [pc EXCEPT ![c] = "ended"]
    /\ exit' = [exit EXCEPT ![c] = code]
    /\ subs' = [subs EXCEPT ![c] = {}] /\ inbox' = [inbox EXCEPT ![c] = <<>>]

\* What every command does up to its call.  Without permission the program is replaced by
\* pkexec, which starts it anew: no step of this process.  What it cannot make sense of
\* ends it before the call, with the code of `early'.
Calls(c, k, connected, early) ==
    /\ pc[c] = "idle" /\ k \in Commands[c] /\ cmd' = [cmd EXCEPT ![c] = k]
    /\ \/ /\ pc' = [pc EXCEPT ![c] = "called"]
          /\ subs' = [subs EXCEPT ![c] = @ \cup connected]
          /\ pending' = pending \cup {c}
          /\ UNCHANGED <<exit, inbox>>
       \/ \E code \in early : End(c, code) /\ UNCHANGED pending
    /\ UNCHANGED <<reply, last, task, quitNow, pmVars, cancelled>>

\* The file cannot be opened, the reference not parsed.
InstallFromFile(c) == Calls(c, "file", {"RequestInteraction"}, {"failed"})
CliInstall(c) == Calls(c, "install", {"RequestInteraction"}, {"failed"})
\* Not installed or not an application; or everything is up to date.
Upgrade(c) == Calls(c, "upgrade", {}, {"failed", "ok"})
Uninstall(c) == Calls(c, "uninstall", {}, {"failed"})
\* The repository asked for is not configured.
Search(c) == Calls(c, "search", {}, {"failed"})
PruneConnectsLate(c) == Calls(c, "prune", {}, {})
Prune(c) == Calls(c, "prune", {"PruneFinished"}, {})
GenerateCache(c) == Calls(c, "cache", {"GenerateCacheFinished"}, {})

\* What it connects to after the reply, before it waits.
LateConnections(k) == IF k \in TaskKinds THEN {"PropertiesChanged"}
                      ELSE IF k = "search" THEN {"SearchFinished"} ELSE {}

\* aboutToQuit, after every command: cancelCurrentTask() for a task that is not done.
CancelNothing(c) == UNCHANGED cancelled
CancelCurrentTask(c) ==
    cancelled' = IF c \in task /\ ~last[c].sub /\ c \in ToSet(queue)
                 THEN cancelled \cup {c} ELSE cancelled

\* waitForFinished() waits as long as Qt does by default, 25 seconds: the call fails for the
\* client, but nobody takes it back, and the package manager will handle it.
CallTimesOut(c) ==
    /\ pc[c] = "called" /\ reply[c] = Nothing
    /\ reply' = [reply EXCEPT ![c] = "timeout"]
    /\ UNCHANGED <<pc, cmd, subs, inbox, last, task, quitNow, exit, pending, pmVars, cancelled>>

\* waitForFinished() returns: an error or a refusal ends the command.
Replied(c) ==
    /\ pc[c] = "called" /\ reply[c] # Nothing
    /\ IF reply[c] = "accepted"
       THEN /\ pc' = [pc EXCEPT ![c] = "replied"]
            /\ IF cmd[c] \in TaskKinds
               THEN task' = task \cup {c} /\ last' = [last EXCEPT ![c].state = "Queued"]
               ELSE UNCHANGED <<task, last>>
            /\ UNCHANGED <<exit, subs, inbox>>
       ELSE End(c, "failed") /\ UNCHANGED <<task, last>>
    /\ UNCHANGED <<cmd, reply, quitNow, pending, pmVars, cancelled>>

\* The last connections, and the event loop is entered.
Wait(c) ==
    /\ pc[c] = "replied" /\ c \notin quitNow /\ pc' = [pc EXCEPT ![c] = "waiting"]
    /\ subs' = [subs EXCEPT ![c] = @ \cup LateConnections(cmd[c])]
    /\ UNCHANGED <<cmd, reply, inbox, last, task, quitNow, exit, pending, pmVars, cancelled>>

Next1(c) == inbox[c][1]
Take(c, name) == pc[c] = "waiting" /\ c \notin quitNow /\ inbox[c] # <<>> /\ Next1(c).name = name
Done(c) == inbox' = [inbox EXCEPT ![c] = Tail(@)]

\* onTaskPropertiesChanged(); the connection is for the path of the own task.
OnTaskPropertiesChanged(c) ==
    /\ Take(c, "PropertiesChanged") /\ Done(c)
    /\ last' = [last EXCEPT ![c] = [state |-> Next1(c).state, sub |-> Next1(c).state \in Final]]
    /\ UNCHANGED <<pc, cmd, reply, subs, task, quitNow, exit, pending, pmVars, cancelled>>

\* onTaskRemoved() and the end of the command.
AnyPath(c, path) == TRUE
OwnPath(c, path) == path = c
OnTaskRemoved(c) ==
    /\ Take(c, "TaskRemoved")
    /\ IF OwnPath(c, Next1(c).path) /\ cmd[c] \in TaskKinds
       THEN /\ last' = [last EXCEPT ![c] = [state |-> Next1(c).state, sub |-> TRUE]]
            /\ task' = task \ {c}
            /\ End(c, IF Next1(c).state = "Succeed" THEN "ok" ELSE "failed")
       ELSE Done(c) /\ UNCHANGED <<last, task, pc, exit, subs>>
    /\ UNCHANGED <<cmd, reply, quitNow, pending, pmVars, cancelled>>

\* interaction(): a question about the own task is put to the user, who may take any time.
Interaction(c) ==
    /\ Take(c, "RequestInteraction") /\ Done(c)
    /\ pc' = IF OwnPath(c, Next1(c).path) THEN [pc EXCEPT ![c] = "prompt"] ELSE pc
    /\ UNCHANGED <<cmd, reply, subs, last, task, quitNow, exit, pending, pmVars, cancelled>>

\* The user answers, or the notifier fails, which says no: ReplyInteraction() reaches the job
\* that asks.
AnswerQuestion(c) ==
    /\ pc[c] = "prompt" /\ pc' = [pc EXCEPT ![c] = "waiting"]
    /\ \E answer \in {"running", "refused"} :
         phase' = IF queue # <<>> /\ phase = "asking" THEN answer ELSE phase
    /\ UNCHANGED <<cmd, reply, subs, inbox, last, task, quitNow, exit, pending, queue, jobs, verdict,
                   missed, crashes, cancelled>>

\* The notification expires, or a signal ends the event loop DBusNotifier::request() waits in:
\* it aborts.
Abort(c) ==
    /\ pc[c] = "prompt" /\ End(c, "aborted")
    /\ UNCHANGED <<cmd, reply, last, task, quitNow, pending, pmVars, cancelled>>

\* The lambdas on SearchFinished, PruneFinished and GenerateCacheFinished.
JobFinished(c) ==
    /\ \E name \in {"SearchFinished", "PruneFinished", "GenerateCacheFinished"} : Take(c, name)
    /\ IF Next1(c).path = c
       THEN End(c, IF Next1(c).state = "Succeed" \/ cmd[c] = "prune" THEN "ok" ELSE "failed")
       ELSE Done(c) /\ UNCHANGED <<pc, exit, subs>>
    /\ UNCHANGED <<cmd, reply, last, task, quitNow, pending, pmVars, cancelled>>

\* A signal asks the process to quit.  A terminal is read on until there is an answer.
Interrupt(c) ==
    /\ pc[c] \in {"called", "replied", "waiting", "prompt"} /\ c \notin quitNow
    /\ quitNow' = quitNow \cup {c}
    /\ UNCHANGED <<pc, cmd, reply, subs, inbox, last, task, exit, pending, pmVars, cancelled>>

\* The event loop returns, with 0 when it was entered before and with -1 otherwise, which is
\* what a command that waits for a job returns; one that waits for a task looks at lastState.
Quit(c) ==
    /\ pc[c] \in {"replied", "waiting"} /\ c \in quitNow
    /\ End(c, IF (IF cmd[c] \in TaskKinds THEN last[c].state = "Succeed" ELSE pc[c] = "waiting")
              THEN "ok" ELSE "failed")
    /\ CancelCurrentTask(c)
    /\ UNCHANGED <<cmd, reply, last, task, quitNow, pending, pmVars>>

(***************************************************************************)
(* The package manager, as its clients see it                              *)
(***************************************************************************)

Sent(name, path, state) == [name |-> name, path |-> path, state |-> state]

\* A broadcast reaches who is connected; PropertiesChanged only the owner of the task.
Broadcast(box, m) ==
    [c \in Clients |->
        IF m.name \in subs[c] /\ (m.name = "PropertiesChanged" => m.path = c)
        THEN Append(box[c], m) ELSE box[c]]

\* A method is handled, which for an installation may take a while: refused, or a task or job
\* is accepted, whether or not the client still waits for the reply.
PmHandle(c) ==
    LET answers(a) == reply' = IF reply[c] = Nothing THEN [reply EXCEPT ![c] = a] ELSE reply IN
    /\ c \in pending /\ pending' = pending \ {c}
    /\ \/ answers("refused") /\ UNCHANGED <<queue, phase, jobs>>
       \/ /\ answers("accepted")
          /\ IF cmd[c] \in TaskKinds
             THEN /\ queue' = Append(queue, c)
                  /\ phase' = IF queue = <<>> THEN "queued" ELSE phase
                  /\ UNCHANGED jobs
             ELSE jobs' = jobs \cup {c} /\ UNCHANGED <<queue, phase>>
    /\ UNCHANGED <<pc, cmd, subs, inbox, last, task, quitNow, exit, verdict, cancelled, missed,
                   crashes>>

\* The first task is started, unless it has been cancelled meanwhile; an installation may
\* ask before it goes on.
PmStart ==
    /\ queue # <<>> /\ phase = "queued" /\ queue[1] \notin cancelled
    /\ \/ phase' = "running" /\ inbox' = Broadcast(inbox, Sent("PropertiesChanged", queue[1], "Processing"))
       \/ /\ cmd[queue[1]] \in Asking /\ phase' = "asking"
          /\ inbox' = Broadcast(inbox, Sent("RequestInteraction", queue[1], Nothing))
    /\ UNCHANGED <<pc, cmd, reply, subs, last, task, quitNow, exit, pending, queue, jobs, verdict,
                   cancelled, missed, crashes>>

\* An upgrade whose parts are complete reports success before it makes the caches, which
\* may still fail.
PmPartsComplete ==
    /\ queue # <<>> /\ phase = "running" /\ cmd[queue[1]] = "upgrade" /\ queue[1] \notin cancelled
    /\ phase' = "late"
    /\ inbox' = Broadcast(inbox, Sent("PropertiesChanged", queue[1], "Succeed"))
    /\ UNCHANGED <<pc, cmd, reply, subs, last, task, quitNow, exit, pending, queue, jobs, verdict,
                   cancelled, missed, crashes>>

\* A task ends and is removed from the queue.
PmFinish(state) ==
    LET c == queue[1] IN
    /\ queue # <<>> /\ phase \in {"running", "late", "refused"}
    /\ phase = "refused" => state = "Canceled"
    /\ phase = "late" => state # "Canceled"
    /\ state = "Canceled" => phase = "refused" \/ c \in cancelled
    /\ verdict' = [verdict EXCEPT ![c] = state]
    /\ missed' = IF "TaskRemoved" \in subs[c] THEN missed ELSE missed \cup {c}
    /\ inbox' = Broadcast(Broadcast(inbox, Sent("PropertiesChanged", c, state)), Sent("TaskRemoved", c, state))
    /\ queue' = Tail(queue) /\ phase' = "queued"
    /\ UNCHANGED <<pc, cmd, reply, subs, last, task, quitNow, exit, pending, jobs, cancelled, crashes>>

\* A job ends, which may be before the client has the reply to its call.
SignalOf(k) == CASE k = "search" -> "SearchFinished" [] k = "prune" -> "PruneFinished"
                 [] k = "cache" -> "GenerateCacheFinished"
PmJobEnds(c, state) ==
    /\ c \in jobs /\ jobs' = jobs \ {c}
    /\ verdict' = [verdict EXCEPT ![c] = state]
    /\ missed' = IF SignalOf(cmd[c]) \in subs[c] THEN missed ELSE missed \cup {c}
    /\ inbox' = Broadcast(inbox, Sent(SignalOf(cmd[c]), c, state))
    /\ UNCHANGED <<pc, cmd, reply, subs, last, task, quitNow, exit, pending, queue, phase, cancelled,
                   crashes>>

\* The package manager crashes; a pending call fails, and nobody is told of the tasks.
PmCrash ==
    /\ crashes < MaxCrashes /\ crashes' = crashes + 1
    /\ pending' = {} /\ queue' = <<>> /\ phase' = "queued" /\ jobs' = {}
    /\ reply' = [c \in Clients |-> IF pc[c] = "called" /\ reply[c] = Nothing THEN "error" ELSE reply[c]]
    /\ UNCHANGED <<pc, cmd, subs, inbox, last, task, quitNow, exit, verdict, cancelled, missed>>

Handle(c) ==
    \/ Replied(c) \/ Wait(c) \/ OnTaskPropertiesChanged(c) \/ OnTaskRemoved(c) \/ Interaction(c)
    \/ JobFinished(c) \/ Quit(c)
Serve ==
    \/ PmStart
    \/ \E state \in Final : PmFinish(state)
    \/ \E c \in Clients, state \in {"Succeed", "Failed"} : PmJobEnds(c, state)

CliNext ==
    \/ \E c \in Clients : \/ InstallFromFile(c) \/ CliInstall(c) \/ Upgrade(c) \/ Uninstall(c)
                         \/ Search(c) \/ Prune(c) \/ GenerateCache(c)
    \/ \E c \in Clients : \/ Handle(c) \/ CallTimesOut(c) \/ AnswerQuestion(c) \/ Abort(c) \/ Interrupt(c)
                         \/ PmHandle(c)
    \/ PmPartsComplete \/ Serve \/ PmCrash

\* A process handles what has arrived and waits for a reply only so long; the package manager
\* works off its tasks.  Nobody has to answer a question.
CliFairness ==
    /\ \A c \in Clients : WF_cliVars(Handle(c)) /\ WF_cliVars(CallTimesOut(c))
    /\ WF_cliVars(Serve)

CliSpec == CliInit /\ [][CliNext]_cliVars /\ CliFairness
-----------------------------------------------------------------------------
\* A command that waited for the outcome reports it: 0 exactly when its own task
\* succeeded, whatever other tasks end meanwhile.  (Interrupted, it reports what it
\* believes, which for an upgrade may be a success that is taken back.)
ExitTellsOutcome ==
    \A c \in Clients \ quitNow :
        exit[c] \in {"ok", "failed"} /\ cmd[c] \in TaskKinds /\ reply[c] = "accepted" =>
            (exit[c] = "ok") = (verdict[c] = "Succeed")

\* Nobody walks away from a task without telling: a task whose client has left is asked to
\* stop (cancelCurrentTask()), or its client thinks that it is done.  Not so when waitForFinished()
\* has given up before the package manager answered, and so did not learn the name of its task,
\* or when DBusNotifier has aborted at the question.
NoTaskForgotten ==
    \A c \in ToSet(queue) :
        pc[c] = "ended" /\ reply[c] # "timeout" /\ exit[c] # "aborted" => c \in cancelled \/ last[c].sub

\* The package manager stands still: it has crashed, it waits for an answer, which nobody has
\* to give, or the first task was cancelled before it was started.
Stuck ==
    \/ crashes > 0
    \/ /\ queue # <<>>
       /\ \/ phase = "asking"
          \/ phase = "queued" /\ queue[1] \in cancelled

\* Every command comes to an end, unless from some time on the package manager stands still, or
\* the outcome was sent before a `search' was connected to it.
EveryCommandEnds ==
    \A c \in Clients :
        pc[c] = "called" ~> [](pc[c] = "ended" \/ Stuck \/ (c \in missed /\ cmd[c] = "search"))
=============================================================================
