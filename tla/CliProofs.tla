------------------------------ MODULE CliProofs ------------------------------
(***************************************************************************)
(* Theorems about Cli, for any number of ll-cli processes, any commands    *)
(* they run and any number of crashes of the package manager; and about    *)
(* Cache, for any number of runs that share a cache.                       *)
(***************************************************************************)
EXTENDS Cli, Cache, SequenceTheorems, TLAPS

JobSignals == {"SearchFinished", "PruneFinished", "GenerateCacheFinished"}
Signals == JobSignals \cup {"TaskRemoved", "RequestInteraction", "PropertiesChanged"}
Message == [name : Signals, path : Clients, state : Final \cup {Nothing, "Processing"}]
Belief == [state : Final \cup {"Unknown", "Queued", "Processing", Nothing}, sub : BOOLEAN]

PCs == {"idle", "called", "replied", "waiting", "prompt", "ended"}
Codes == {"ok", "failed", "aborted"}

TypeOK ==
    /\ pc \in [Clients -> PCs]
    /\ cmd \in [Clients -> TaskKinds \cup JobKinds \cup {Nothing}]
    /\ reply \in [Clients -> {Nothing, "accepted", "refused", "error", "timeout"}]
    /\ subs \in [Clients -> SUBSET Signals] /\ inbox \in [Clients -> Seq(Message)]
    /\ last \in [Clients -> Belief] /\ exit \in [Clients -> Codes \cup {Nothing}]
    /\ task \subseteq Clients /\ quitNow \subseteq Clients /\ jobs \subseteq Clients
    /\ pending \subseteq Clients
    /\ queue \in Seq(Clients) /\ phase \in {"queued", "running", "asking", "late", "refused"}
    /\ verdict \in [Clients -> Final \cup {Nothing}]
    /\ cancelled \subseteq Clients /\ missed \subseteq Clients /\ crashes \in Nat

\* A command of the kinds that lead to a task, handled by the package manager, whose client
\* was told or did not wait for it.
Handled(c) == c \notin pending /\ reply[c] \in {"accepted", "timeout"}
Task(c) == cmd[c] \in TaskKinds /\ Handled(c)
Job(c) == cmd[c] \in JobKinds /\ Handled(c)

\* A process is answered after it has called, holds its task while it waits for it, and has
\* an exit code when it has ended; a call that was not handled is one it waits for, or has
\* given up.
ProcInv ==
    \A c \in Clients :
        /\ pc[c] = "idle" => reply[c] = Nothing
        /\ pc[c] = "called" => cmd[c] \in TaskKinds \cup JobKinds
        /\ reply[c] = Nothing \/ c \in pending => verdict[c] = Nothing
        /\ pc[c] = "ended" <=> exit[c] # Nothing
        /\ pc[c] \in {"replied", "waiting", "prompt"} => reply[c] = "accepted"
        /\ pc[c] \in {"replied", "waiting", "prompt"} /\ cmd[c] \in TaskKinds => c \in task
        /\ c \in pending => cmd[c] \in TaskKinds \cup JobKinds /\ reply[c] \in {Nothing, "timeout"}
        /\ c \in pending /\ reply[c] = Nothing => pc[c] = "called"

\* Tasks in the queue are different, were accepted and are not decided.
QueueInv ==
    /\ \A i \in 1..Len(queue) : Task(queue[i]) /\ verdict[queue[i]] = Nothing
    /\ \A i, j \in 1..Len(queue) : queue[i] = queue[j] => i = j
    /\ \A c \in jobs : Job(c)

\* A signal that a task was removed, or that a job is done, tells the truth.
Told(m) ==
    /\ m.name = "TaskRemoved" => Task(m.path) /\ m.state \in Final /\ verdict[m.path] = m.state
    /\ m.name \in JobSignals => Job(m.path)
SignalInv == \A c \in Clients : \A m \in ToSet(inbox[c]) : Told(m)

\* Who has ended without being interrupted has the verdict of its task, which stands.
EndInv ==
    \A c \in Clients \ quitNow :
        exit[c] \in {"ok", "failed"} /\ Task(c) /\ reply[c] = "accepted" =>
            verdict[c] # Nothing /\ (exit[c] = "ok" <=> verdict[c] = "Succeed")

IInv == TypeOK /\ ProcInv /\ QueueInv /\ SignalInv /\ EndInv /\ NoTaskForgotten

-----------------------------------------------------------------------------
USE DEF PCs, Codes

\* The elements of a sequence.
LEMMA Elements ==
    ASSUME NEW S, NEW s \in Seq(S)
    PROVE  /\ ToSet(s) \subseteq S
           /\ \A x : x \in ToSet(s) <=> \E i \in 1..Len(s) : s[i] = x
  BY LenProperties, ElementOfSeq DEF ToSet

\* What follows the first element.
LEMMA TailElements ==
    ASSUME NEW S, NEW s \in Seq(S), s # <<>>
    PROVE  /\ Tail(s) \in Seq(S) /\ ToSet(Tail(s)) \subseteq ToSet(s)
           /\ Len(s) \in Nat \ {0} /\ Len(Tail(s)) = Len(s) - 1
           /\ \A i \in 1..Len(Tail(s)) : Tail(s)[i] = s[i + 1] /\ i + 1 \in 1..Len(s)
           /\ s[1] \in ToSet(s)
<1>1. Len(s) \in Nat \ {0} /\ 1 \in 1..Len(s)
  BY EmptySeq, LenProperties
<1>2. /\ Tail(s) \in Seq(S) /\ Len(Tail(s)) = Len(s) - 1
      /\ \A i \in 1..Len(Tail(s)) : Tail(s)[i] = s[i + 1]
  BY HeadTailProperties
<1>3. \A i \in 1..Len(Tail(s)) : i + 1 \in 1..Len(s)
  BY <1>1, <1>2
<1>4. /\ \A x : x \in ToSet(s) <=> \E i \in 1..Len(s) : s[i] = x
      /\ \A x : x \in ToSet(Tail(s)) <=> \E i \in 1..Len(Tail(s)) : Tail(s)[i] = x
  BY <1>2, Elements
<1>5. ToSet(Tail(s)) \subseteq ToSet(s) /\ s[1] \in ToSet(s)
  BY Zenon, <1>1, <1>2, <1>3, <1>4
<1> QED  BY <1>1, <1>2, <1>3, <1>5

\* An element is added.
LEMMA AppendElements ==
    ASSUME NEW S, NEW s \in Seq(S), NEW x \in S
    PROVE  Append(s, x) \in Seq(S) /\ ToSet(Append(s, x)) = ToSet(s) \cup {x}
<1>1. /\ Append(s, x) \in Seq(S) /\ Len(Append(s, x)) = Len(s) + 1 /\ Len(s) \in Nat
      /\ \A i \in 1..Len(s) : Append(s, x)[i] = s[i]
      /\ Append(s, x)[Len(s) + 1] = x
  BY AppendProperties, LenProperties
<1>2. \A i \in 1..Len(s) + 1 : i \in 1..Len(s) \/ i = Len(s) + 1
  BY <1>1
<1>3. 1..Len(s) \subseteq 1..Len(s) + 1 /\ Len(s) + 1 \in 1..Len(s) + 1
  BY <1>1
<1>4. /\ \A y : y \in ToSet(s) <=> \E i \in 1..Len(s) : s[i] = y
      /\ \A y : y \in ToSet(Append(s, x)) <=> \E i \in 1..Len(Append(s, x)) : Append(s, x)[i] = y
  BY <1>1, Elements
<1>5. \A y : y \in ToSet(Append(s, x)) <=> y \in ToSet(s) \/ y = x
  BY Zenon, <1>1, <1>2, <1>3, <1>4
<1> QED  BY <1>1, <1>5

\* A broadcast adds one signal to what its receivers have to handle.
LEMMA BroadcastFacts ==
    ASSUME TypeOK, NEW box \in [Clients -> Seq(Message)], NEW m \in Message
    PROVE  /\ Broadcast(box, m) \in [Clients -> Seq(Message)]
           /\ \A c \in Clients : ToSet(Broadcast(box, m)[c]) \subseteq ToSet(box[c]) \cup {m}
<1>1. ASSUME NEW c \in Clients
      PROVE  Append(box[c], m) \in Seq(Message) /\ ToSet(Append(box[c], m)) = ToSet(box[c]) \cup {m}
  BY AppendElements
<1> QED  BY <1>1 DEF Broadcast

\* Only one process moves, and signals are handled, not sent.
Alone(c) ==
    /\ pc' \in [Clients -> PCs]
    /\ exit' \in [Clients -> Codes \cup {Nothing}]
    /\ subs' \in [Clients -> SUBSET Signals] /\ inbox' \in [Clients -> Seq(Message)]
    /\ \A q \in Clients \ {c} : pc'[q] = pc[q] /\ exit'[q] = exit[q]
    /\ \A q \in Clients : ToSet(inbox'[q]) \subseteq ToSet(inbox[q])

\* The end of a process.
LEMMA EndFacts ==
    ASSUME TypeOK, NEW c \in Clients, NEW code \in Codes, End(c, code)
    PROVE  Alone(c) /\ pc'[c] = "ended" /\ exit'[c] = code
<1>1. <<>> \in Seq(Message) /\ ToSet(<<>>) = {}
  BY DEF ToSet
<1> QED  BY <1>1 DEF End, TypeOK, Alone

\* A signal is handled and the process goes on.
LEMMA DoneFacts ==
    ASSUME TypeOK, NEW c \in Clients, inbox[c] # <<>>, Done(c), UNCHANGED <<pc, exit, subs>>
    PROVE  Alone(c)
<1>1. inbox[c] \in Seq(Message)
  BY DEF TypeOK
<1>2. Tail(inbox[c]) \in Seq(Message) /\ ToSet(Tail(inbox[c])) \subseteq ToSet(inbox[c])
  BY <1>1, TailElements
<1> QED  BY <1>2 DEF Done, TypeOK, Alone

\* The first signal a process has to handle.
LEMMA FirstSignal ==
    ASSUME TypeOK, SignalInv, NEW c \in Clients, inbox[c] # <<>>
    PROVE  Next1(c) \in Message /\ Next1(c).path \in Clients /\ Told(Next1(c))
<1>1. inbox[c] \in Seq(Message)
  BY DEF TypeOK
<1>2. inbox[c][1] \in ToSet(inbox[c]) /\ ToSet(inbox[c]) \subseteq Message
  BY <1>1, TailElements, Elements
<1> QED  BY <1>2 DEF Next1, Message, SignalInv

\* The task at the front of the queue.
LEMMA FrontTask ==
    ASSUME TypeOK, queue # <<>>
    PROVE  /\ queue[1] \in Clients /\ 1 \in 1..Len(queue) /\ queue[1] \in ToSet(queue)
           /\ Tail(queue) \in Seq(Clients) /\ ToSet(Tail(queue)) \subseteq ToSet(queue)
           /\ \A i \in 1..Len(Tail(queue)) :
                 Tail(queue)[i] = queue[i + 1] /\ i + 1 \in 1..Len(queue) /\ i + 1 # 1
<1>1. queue \in Seq(Clients)
  BY DEF TypeOK
<1>2. Len(queue) \in Nat \ {0}
  BY <1>1, EmptySeq, LenProperties
<1>3. queue[1] \in Clients
  BY <1>1, <1>2, ElementOfSeq
<1>4. /\ Tail(queue) \in Seq(Clients) /\ ToSet(Tail(queue)) \subseteq ToSet(queue)
      /\ \A i \in 1..Len(Tail(queue)) : Tail(queue)[i] = queue[i + 1] /\ i + 1 \in 1..Len(queue)
      /\ queue[1] \in ToSet(queue)
  BY <1>1, TailElements
<1>5. \A i \in 1..Len(Tail(queue)) : i + 1 # 1
  BY <1>1, <1>4, LenProperties
<1> QED  BY <1>2, <1>3, <1>4, <1>5

-----------------------------------------------------------------------------
\* What was accepted and decided stays.
Stands ==
    \A c \in Clients : /\ Task(c) => Task(c)'
                       /\ Job(c) => Job(c)'
                       /\ verdict[c] # Nothing => verdict'[c] = verdict[c]

\* Signals stay true as long as what was accepted and decided stays.
LEMMA SignalFrame ==
    ASSUME TypeOK, SignalInv, Stands, NEW m,
           \A c \in Clients : ToSet(inbox'[c]) \subseteq ToSet(inbox[c]) \cup {m},
           Told(m)' \/ \A c \in Clients : ToSet(inbox'[c]) \subseteq ToSet(inbox[c])
    PROVE  SignalInv'
<1> SUFFICES ASSUME NEW c \in Clients, NEW x \in ToSet(inbox[c]) PROVE Told(x)'
  BY DEF SignalInv
<1>1. inbox[c] \in Seq(Message)
  BY DEF TypeOK
<1>2. x \in Message
  BY <1>1, Elements
<1>3. x.path \in Clients
  BY <1>2 DEF Message
<1>4. Told(x)
  BY DEF SignalInv
<1> QED  BY <1>3, <1>4 DEF Told, Stands, Final, Nothing

\* The queue stays, with what was accepted and what is not decided.
LEMMA QueueFrame ==
    ASSUME TypeOK, QueueInv, Stands, queue' = queue, jobs' \subseteq jobs, verdict' = verdict
    PROVE  QueueInv'
<1>1. queue \in Seq(Clients)
  BY DEF TypeOK
<1>2. \A i \in 1..Len(queue) : queue[i] \in Clients
  BY <1>1, ElementOfSeq
<1> QED  BY <1>2 DEF QueueInv, Stands, TypeOK

\* Members of the queue are clients whose task was accepted and is not decided.
LEMMA Queued ==
    ASSUME TypeOK, QueueInv, NEW c \in ToSet(queue)
    PROVE  c \in Clients /\ Task(c) /\ verdict[c] = Nothing
<1>1. queue \in Seq(Clients)
  BY DEF TypeOK
<1>2. PICK i \in 1..Len(queue) : queue[i] = c
  BY <1>1, Elements
<1>3. queue[i] \in Clients
  BY <1>1, ElementOfSeq
<1> QED  BY <1>2, <1>3 DEF QueueInv

\* A process that calls, or that ends before.
LEMMA CallsStep ==
    ASSUME IInv, NEW c \in Clients, NEW k \in TaskKinds \cup JobKinds,
           NEW on \in SUBSET Signals, NEW early \in SUBSET {"ok", "failed"}, Calls(c, k, on, early)
    PROVE  IInv'
<1>1. /\ pc[c] = "idle" /\ UNCHANGED <<reply, last, task, quitNow, pmVars, cancelled>>
      /\ cmd' = [cmd EXCEPT ![c] = k]
  BY DEF Calls
<1>2. reply[c] = Nothing /\ exit[c] = Nothing /\ c \notin pending /\ verdict[c] = Nothing
  BY <1>1 DEF IInv, ProcInv
<1>3. /\ Alone(c) /\ pc'[c] \in {"called", "ended"} /\ (pc'[c] = "ended" <=> exit'[c] # Nothing)
      /\ \/ pc'[c] = "called" /\ pending' = pending \cup {c}
         \/ pending' = pending
  <2>1. CASE /\ pc' = [pc EXCEPT ![c] = "called"] /\ subs' = [subs EXCEPT ![c] = @ \cup on]
             /\ pending' = pending \cup {c} /\ UNCHANGED <<exit, inbox>>
    BY <1>2, <2>1 DEF IInv, TypeOK, Alone
  <2>2. CASE \E code \in early : End(c, code) /\ UNCHANGED pending
    BY <2>2, EndFacts DEF IInv, Nothing
  <2> QED  BY <2>1, <2>2 DEF Calls
<1>4. TypeOK'
  BY <1>1, <1>3 DEF IInv, TypeOK, Alone, pmVars
<1>5. Stands
  BY <1>1, <1>2, <1>3 DEF Stands, Task, Job, Handled, pmVars, IInv, TypeOK, Nothing
<1>6. ProcInv'
  BY <1>1, <1>2, <1>3 DEF IInv, ProcInv, TypeOK, Alone, pmVars
<1>7. QueueInv' /\ SignalInv'
  BY <1>1, <1>3, <1>5, QueueFrame, SignalFrame DEF IInv, pmVars, Alone
<1>8. EndInv'
  BY <1>1, <1>2, <1>3 DEF IInv, EndInv, TypeOK, Alone, Task, Handled, pmVars, Nothing
<1>9. NoTaskForgotten'
  BY <1>1, <1>2, <1>3, Queued DEF IInv, NoTaskForgotten, Alone, Task, Handled, pmVars, Nothing
<1> QED  BY <1>4, <1>6, <1>7, <1>8, <1>9 DEF IInv

\* The reply arrives.
LEMMA RepliedStep ==
    ASSUME IInv, NEW c \in Clients, Replied(c)
    PROVE  IInv'
<1>1. pc[c] = "called" /\ reply[c] # Nothing /\ UNCHANGED <<cmd, reply, quitNow, pending, pmVars, cancelled>>
  BY DEF Replied
<1>2. Stands
  BY <1>1 DEF Stands, Task, Job, Handled, pmVars
<1>3. exit[c] = Nothing
  BY <1>1 DEF IInv, ProcInv
<1>4. CASE reply[c] = "accepted"
  <2>1. /\ pc' = [pc EXCEPT ![c] = "replied"] /\ UNCHANGED <<exit, subs, inbox>>
        /\ task \subseteq task' /\ task' \subseteq Clients /\ (cmd[c] \in TaskKinds => c \in task')
        /\ last' \in [Clients -> Belief] /\ \A q \in Clients : last'[q].sub = last[q].sub
    <3>1. pc' = [pc EXCEPT ![c] = "replied"] /\ UNCHANGED <<exit, subs, inbox>>
      BY <1>4 DEF Replied
    <3>2. /\ task \subseteq task' /\ task' \subseteq Clients /\ (cmd[c] \in TaskKinds => c \in task')
      BY <1>4 DEF Replied, IInv, TypeOK
    <3>3. last' = last \/ last' = [last EXCEPT ![c].state = "Queued"]
      BY <1>4 DEF Replied
    <3>4. \A q \in Clients : last[q] \in Belief
      BY DEF IInv, TypeOK
    <3>5. last' \in [Clients -> Belief] /\ \A q \in Clients : last'[q].sub = last[q].sub
      <4>1. [last[c] EXCEPT !.state = "Queued"] \in Belief
            /\ [last[c] EXCEPT !.state = "Queued"].sub = last[c].sub
        BY <3>4 DEF Belief
      <4>2. \/ last' = last
            \/ last' = [last EXCEPT ![c] = [last[c] EXCEPT !.state = "Queued"]]
        BY <3>3
      <4> QED  BY <4>1, <4>2 DEF IInv, TypeOK
    <3> QED  BY <3>1, <3>2, <3>5
  <2>2. TypeOK'
    BY <1>1, <2>1 DEF IInv, TypeOK, pmVars
  <2>3. ProcInv'
    BY <1>1, <1>4, <2>1 DEF IInv, ProcInv, TypeOK, pmVars
  <2>4. QueueInv' /\ SignalInv'
    BY <1>1, <1>2, <2>1, QueueFrame, SignalFrame DEF IInv, pmVars
  <2>5. EndInv'
    BY <1>1, <2>1 DEF IInv, EndInv, TypeOK, Task, Handled, pmVars
  <2>6. NoTaskForgotten'
    BY <1>1, <2>1, Queued DEF IInv, NoTaskForgotten, TypeOK, pmVars
  <2> QED  BY <2>2, <2>3, <2>4, <2>5, <2>6 DEF IInv
<1>5. CASE reply[c] # "accepted"
  <2>1. End(c, "failed") /\ UNCHANGED <<task, last>>
    BY <1>5 DEF Replied
  <2>2. Alone(c) /\ pc'[c] = "ended" /\ exit'[c] = "failed"
    BY <2>1, EndFacts DEF IInv
  <2>3. TypeOK'
    BY <1>1, <2>1, <2>2 DEF IInv, TypeOK, Alone, pmVars
  <2>4. ProcInv'
    BY <1>1, <2>1, <2>2 DEF IInv, ProcInv, TypeOK, Alone, Nothing, pmVars
  <2>5. QueueInv' /\ SignalInv'
    BY <1>1, <1>2, <2>2, QueueFrame, SignalFrame DEF IInv, pmVars, Alone
  <2>6. EndInv'
    <3> SUFFICES ASSUME NEW q \in Clients \ quitNow, exit'[q] \in {"ok", "failed"}, Task(q),
                        reply[q] = "accepted"
                 PROVE  verdict[q] # Nothing /\ (exit'[q] = "ok" <=> verdict[q] = "Succeed")
      BY <1>1 DEF EndInv, Task, Handled, pmVars
    <3>1. q # c /\ exit'[q] = exit[q]
      BY <1>5, <2>2 DEF Alone
    <3> QED  BY <3>1 DEF IInv, EndInv
  <2>7. NoTaskForgotten'
    BY <1>1, <1>5, <2>1, <2>2, Queued DEF IInv, NoTaskForgotten, Alone, Task, Handled, pmVars
  <2> QED  BY <2>3, <2>4, <2>5, <2>6, <2>7 DEF IInv
<1> QED  BY <1>4, <1>5

\* The event loop is entered.
LEMMA WaitStep ==
    ASSUME IInv, NEW c \in Clients, Wait(c)
    PROVE  IInv'
<1>1. /\ pc[c] = "replied" /\ pc' = [pc EXCEPT ![c] = "waiting"]
      /\ subs' \in [Clients -> SUBSET Signals]
      /\ UNCHANGED <<cmd, reply, inbox, last, task, quitNow, exit, pending, pmVars, cancelled>>
  BY DEF Wait, LateConnections, IInv, TypeOK, Signals, JobSignals
<1>2. Stands
  BY <1>1 DEF Stands, Task, Job, Handled, pmVars
<1>3. TypeOK'
  BY <1>1 DEF IInv, TypeOK, pmVars
<1>4. ProcInv'
  BY <1>1 DEF IInv, ProcInv, TypeOK, pmVars
<1>5. QueueInv' /\ SignalInv'
  BY <1>1, <1>2, QueueFrame, SignalFrame DEF IInv, pmVars
<1>6. EndInv'
  BY <1>1 DEF IInv, EndInv, TypeOK, Task, Handled, pmVars
<1>7. NoTaskForgotten'
  BY <1>1, Queued DEF IInv, NoTaskForgotten, TypeOK, pmVars
<1> QED  BY <1>3, <1>4, <1>5, <1>6, <1>7 DEF IInv

\* A signal is handled and the process waits on: a change of state, a question, or the end
\* of what others have asked for.
LEMMA HandledStep ==
    ASSUME IInv, NEW c \in Clients, pc[c] = "waiting", inbox[c] # <<>>, Done(c),
           last' \in [Clients -> Belief], \A q \in Clients \ {c} : last'[q] = last[q],
           phase' \in {"queued", "running", "asking", "late", "refused"},
           UNCHANGED <<pc, cmd, reply, subs, task, quitNow, exit, pending, queue, jobs, verdict, missed, crashes,
                       cancelled>>
    PROVE  IInv'
<1>1. Alone(c)
  BY DoneFacts DEF IInv
<1>2. Stands
  BY DEF Stands, Task, Job, Handled
<1>3. TypeOK'
  BY <1>1 DEF IInv, TypeOK, Alone
<1>4. ProcInv'
  BY DEF IInv, ProcInv
<1>5. QueueInv' /\ SignalInv'
  BY <1>1, <1>2, QueueFrame, SignalFrame DEF IInv, Alone
<1>6. EndInv'
  BY DEF IInv, EndInv, Task, Handled
<1>7. NoTaskForgotten'
  BY Queued DEF IInv, NoTaskForgotten
<1> QED  BY <1>3, <1>4, <1>5, <1>6, <1>7 DEF IInv

\* A question is put to the user, or answered.
LEMMA PromptStep ==
    ASSUME IInv, NEW c \in Clients, NEW x \in {"waiting", "prompt"}, pc[c] \in {"waiting", "prompt"},
           pc' = [pc EXCEPT ![c] = x], (Done(c) /\ inbox[c] # <<>>) \/ inbox' = inbox,
           phase' \in {"queued", "running", "asking", "late", "refused"},
           UNCHANGED <<cmd, reply, subs, last, task, quitNow, exit, pending, queue, jobs, verdict, missed,
                       crashes, cancelled>>
    PROVE  IInv'
<1>1. /\ inbox' \in [Clients -> Seq(Message)]
      /\ \A q \in Clients : ToSet(inbox'[q]) \subseteq ToSet(inbox[q])
  <2>1. CASE Done(c) /\ inbox[c] # <<>>
    <3>1. inbox[c] \in Seq(Message)
      BY DEF IInv, TypeOK
    <3>2. Tail(inbox[c]) \in Seq(Message) /\ ToSet(Tail(inbox[c])) \subseteq ToSet(inbox[c])
      BY <2>1, <3>1, TailElements
    <3> QED  BY <2>1, <3>2 DEF Done, IInv, TypeOK
  <2>2. CASE inbox' = inbox
    BY <2>2 DEF IInv, TypeOK
  <2> QED  BY <2>1, <2>2
<1>2. Stands
  BY DEF Stands, Task, Job, Handled
<1>3. TypeOK'
  BY <1>1 DEF IInv, TypeOK
<1>4. ProcInv'
  BY DEF IInv, ProcInv, TypeOK
<1>5. QueueInv' /\ SignalInv'
  BY <1>1, <1>2, QueueFrame, SignalFrame DEF IInv
<1>6. EndInv'
  BY DEF IInv, EndInv, Task, Handled
<1>7. NoTaskForgotten'
  BY Queued DEF IInv, NoTaskForgotten, TypeOK
<1> QED  BY <1>3, <1>4, <1>5, <1>6, <1>7 DEF IInv

\* The process that has waited ends, and its task is not in the queue or was told.
LEMMA LeavingStep ==
    ASSUME IInv, NEW c \in Clients, NEW code \in Codes, End(c, code),
           pc[c] \in {"replied", "waiting", "prompt"},
           last' \in [Clients -> Belief], \A q \in Clients \ {c} : last'[q] = last[q],
           task' \subseteq Clients, task \ {c} \subseteq task',
           cancelled \subseteq cancelled', cancelled' \subseteq Clients,
           c \in ToSet(queue) /\ code # "aborted" => c \in cancelled' \/ last'[c].sub,
           c \notin quitNow /\ Task(c) /\ code # "aborted" => verdict[c] # Nothing /\ (code = "ok" <=> verdict[c] = "Succeed"),
           UNCHANGED <<cmd, reply, quitNow, pending, pmVars>>
    PROVE  IInv'
<1>1. Alone(c) /\ pc'[c] = "ended" /\ exit'[c] = code /\ code # Nothing
  BY EndFacts DEF IInv, Nothing
<1>2. Stands
  BY DEF Stands, Task, Job, Handled, pmVars
<1>3. TypeOK'
  BY <1>1 DEF IInv, TypeOK, Alone, pmVars
<1>4. ProcInv'
  BY ZenonT(60), <1>1 DEF IInv, ProcInv, Alone, pmVars
<1>5. QueueInv' /\ SignalInv'
  BY <1>1, <1>2, QueueFrame, SignalFrame DEF IInv, Alone, pmVars
<1>6. EndInv'
  <2> SUFFICES ASSUME NEW q \in Clients \ quitNow, exit'[q] \in {"ok", "failed"}, Task(q),
                      reply[q] = "accepted"
               PROVE  verdict[q] # Nothing /\ (exit'[q] = "ok" <=> verdict[q] = "Succeed")
    BY DEF EndInv, Task, Handled, pmVars
  <2>1. CASE q = c
    BY <1>1, <2>1
  <2>2. CASE q # c
    <3>1. exit'[q] = exit[q]
      BY <1>1, <2>2 DEF Alone
    <3> QED  BY <3>1 DEF IInv, EndInv
  <2> QED  BY <2>1, <2>2
<1>7. NoTaskForgotten'
  BY <1>1, Queued DEF IInv, NoTaskForgotten, Alone, pmVars
<1> QED  BY <1>3, <1>4, <1>5, <1>6, <1>7 DEF IInv

\* A task is removed: the own one, or another.
LEMMA TaskRemovedStep ==
    ASSUME IInv, NEW c \in Clients, OnTaskRemoved(c)
    PROVE  IInv'
<1>1. /\ pc[c] = "waiting" /\ inbox[c] # <<>> /\ Next1(c).name = "TaskRemoved"
      /\ UNCHANGED <<cmd, reply, quitNow, pending, pmVars, cancelled>>
  BY DEF OnTaskRemoved, Take
<1>2. Next1(c) \in Message /\ Told(Next1(c))
  BY <1>1, FirstSignal DEF IInv
<1>3. CASE Next1(c).path = c /\ cmd[c] \in TaskKinds
  <2> DEFINE code == IF Next1(c).state = "Succeed" THEN "ok" ELSE "failed"
  <2>1. /\ last' = [last EXCEPT ![c] = [state |-> Next1(c).state, sub |-> TRUE]]
        /\ task' = task \ {c} /\ End(c, code)
    BY <1>3 DEF OnTaskRemoved, OwnPath
  <2>2. [state |-> Next1(c).state, sub |-> TRUE] \in Belief
    BY <1>2 DEF Message, Belief
  <2>3. last' \in [Clients -> Belief] /\ \A q \in Clients \ {c} : last'[q] = last[q]
    BY <2>1, <2>2 DEF IInv, TypeOK
  <2>4. Next1(c).state \in Final /\ verdict[c] = Next1(c).state
    BY <1>1, <1>2, <1>3 DEF Told
  <2>5. verdict[c] # Nothing /\ (code = "ok" <=> verdict[c] = "Succeed") /\ code \in {"ok", "failed"}
    BY <2>4 DEF Final, Nothing
  <2>6. c \notin ToSet(queue)
    BY <2>5, Queued DEF IInv
  <2> HIDE DEF code
  <2>7. task' \subseteq Clients /\ task \ {c} \subseteq task' /\ cancelled \subseteq cancelled'
        /\ cancelled' \subseteq Clients
    BY <1>1, <2>1 DEF IInv, TypeOK
  <2> QED  BY <1>1, <2>1, <2>3, <2>5, <2>6, <2>7, LeavingStep
<1>4. CASE ~(Next1(c).path = c /\ cmd[c] \in TaskKinds)
  <2>1. Done(c) /\ UNCHANGED <<last, task, pc, exit, subs>>
    BY <1>4 DEF OnTaskRemoved, OwnPath
  <2> QED  BY <1>1, <2>1, HandledStep DEF pmVars, IInv, TypeOK
<1> QED  BY <1>3, <1>4

\* A job has ended: the own one, or another.
LEMMA JobFinishedStep ==
    ASSUME IInv, NEW c \in Clients, JobFinished(c)
    PROVE  IInv'
<1>1. /\ pc[c] = "waiting" /\ inbox[c] # <<>> /\ Next1(c).name \in JobSignals
      /\ UNCHANGED <<cmd, reply, last, task, quitNow, pending, pmVars, cancelled>>
  BY DEF JobFinished, Take, JobSignals
<1>2. Told(Next1(c))
  BY <1>1, FirstSignal DEF IInv
<1>3. CASE Next1(c).path = c
  <2> DEFINE code == IF Next1(c).state = "Succeed" \/ cmd[c] = "prune" THEN "ok" ELSE "failed"
  <2>1. End(c, code) /\ code \in {"ok", "failed"}
    BY <1>3 DEF JobFinished
  <2>2. ~Task(c)
    BY <1>1, <1>2, <1>3 DEF Told, Job, Task, Handled, JobKinds, TaskKinds, Asking
  <2>3. c \notin ToSet(queue)
    BY <2>2, Queued DEF IInv
  <2> HIDE DEF code
  <2>4. /\ last' \in [Clients -> Belief] /\ \A q \in Clients \ {c} : last'[q] = last[q]
        /\ task' \subseteq Clients /\ task \ {c} \subseteq task' /\ cancelled \subseteq cancelled'
        /\ cancelled' \subseteq Clients
    BY <1>1 DEF IInv, TypeOK
  <2> QED  BY <1>1, <2>1, <2>2, <2>3, <2>4, LeavingStep
<1>4. CASE Next1(c).path # c
  <2>1. Done(c) /\ UNCHANGED <<pc, exit, subs>>
    BY <1>4 DEF JobFinished
  <2> QED  BY <1>1, <2>1, HandledStep DEF pmVars, IInv, TypeOK
<1> QED  BY <1>3, <1>4

\* An interrupted process leaves, and cancels its task.
LEMMA QuitStep ==
    ASSUME IInv, NEW c \in Clients, Quit(c)
    PROVE  IInv'
<1> DEFINE code == IF (IF cmd[c] \in TaskKinds THEN last[c].state = "Succeed" ELSE pc[c] = "waiting")
                   THEN "ok" ELSE "failed"
<1>1. /\ pc[c] \in {"replied", "waiting"} /\ c \in quitNow /\ End(c, code) /\ code \in {"ok", "failed"}
      /\ CancelCurrentTask(c) /\ UNCHANGED <<cmd, reply, last, task, quitNow, pending, pmVars>>
  BY DEF Quit
<1> HIDE DEF code
<1>2. c \in ToSet(queue) => c \in task
  BY <1>1, Queued DEF IInv, ProcInv, Task, Handled
<1>3. /\ cancelled \subseteq cancelled' /\ cancelled' \subseteq Clients
      /\ c \in ToSet(queue) => c \in cancelled' \/ last'[c].sub
  BY <1>1, <1>2 DEF CancelCurrentTask, IInv, TypeOK
<1>4. /\ last' \in [Clients -> Belief] /\ \A q \in Clients \ {c} : last'[q] = last[q]
      /\ task' \subseteq Clients /\ task \ {c} \subseteq task'
  BY <1>1 DEF IInv, TypeOK
<1> QED  BY <1>1, <1>3, <1>4, LeavingStep

\* DBusNotifier aborts.
LEMMA AbortStep ==
    ASSUME IInv, NEW c \in Clients, Abort(c)
    PROVE  IInv'
<1>1. /\ pc[c] = "prompt" /\ End(c, "aborted")
      /\ UNCHANGED <<cmd, reply, last, task, quitNow, pending, pmVars, cancelled>>
  BY DEF Abort
<1>2. /\ last' \in [Clients -> Belief] /\ \A q \in Clients \ {c} : last'[q] = last[q]
      /\ task' \subseteq Clients /\ task \ {c} \subseteq task'
      /\ cancelled \subseteq cancelled' /\ cancelled' \subseteq Clients
  BY <1>1 DEF IInv, TypeOK
<1> QED  BY <1>1, <1>2, LeavingStep

\* The call times out.
LEMMA TimeoutStep ==
    ASSUME IInv, NEW c \in Clients, CallTimesOut(c)
    PROVE  IInv'
<1>1. /\ pc[c] = "called" /\ reply[c] = Nothing /\ reply' = [reply EXCEPT ![c] = "timeout"]
      /\ UNCHANGED <<pc, cmd, subs, inbox, last, task, quitNow, exit, pending, pmVars, cancelled>>
  BY DEF CallTimesOut
<1>2. Stands
  BY <1>1 DEF Stands, Task, Job, Handled, IInv, TypeOK, Nothing, pmVars
<1>3. TypeOK'
  BY <1>1 DEF IInv, TypeOK, pmVars
<1>4. ProcInv'
  BY <1>1 DEF IInv, ProcInv, TypeOK, Nothing, pmVars
<1>5. QueueInv' /\ SignalInv'
  BY <1>1, <1>2, QueueFrame, SignalFrame DEF IInv, pmVars
<1>6. EndInv'
  BY <1>1 DEF IInv, EndInv, Task, Handled, TypeOK, pmVars
<1>7. NoTaskForgotten'
  BY <1>1, Queued DEF IInv, NoTaskForgotten, TypeOK, Nothing, pmVars
<1> QED  BY <1>3, <1>4, <1>5, <1>6, <1>7 DEF IInv

\* The package manager answers.
LEMMA PmHandleStep ==
    ASSUME IInv, NEW c \in Clients, PmHandle(c)
    PROVE  IInv'
<1>1. /\ c \in pending /\ pending' = pending \ {c}
      /\ UNCHANGED <<pc, cmd, subs, inbox, last, task, quitNow, exit, verdict, cancelled, missed, crashes>>
  BY DEF PmHandle
<1>0. /\ verdict[c] = Nothing /\ reply[c] \in {Nothing, "timeout"} /\ (reply[c] = Nothing => pc[c] = "called")
      /\ cmd[c] \in TaskKinds \cup JobKinds
  BY <1>1 DEF IInv, ProcInv
<1>2. PICK a \in {"accepted", "refused"} :
         /\ reply' = IF reply[c] = Nothing THEN [reply EXCEPT ![c] = a] ELSE reply
         /\ \/ UNCHANGED <<queue, phase, jobs>>
            \/ /\ cmd[c] \in TaskKinds /\ queue' = Append(queue, c) /\ a = "accepted"
               /\ phase' \in {"queued", phase} /\ UNCHANGED jobs
            \/ /\ cmd[c] \notin TaskKinds /\ jobs' = jobs \cup {c} /\ UNCHANGED <<queue, phase>>
               /\ a = "accepted"
  BY DEF PmHandle
<1>r. /\ reply' \in [Clients -> {Nothing, "accepted", "refused", "error", "timeout"}]
      /\ reply'[c] \in {"timeout", a} /\ (reply'[c] = "timeout" <=> reply[c] = "timeout")
      /\ \A q \in Clients \ {c} : reply'[q] = reply[q] /\ (q \in pending' <=> q \in pending)
      /\ c \notin pending'
  BY <1>0, <1>1, <1>2 DEF IInv, TypeOK, Nothing
<1>3. Stands
  BY <1>1, <1>r DEF Stands, Task, Job, Handled
<1>4. ProcInv'
  <2> SUFFICES ASSUME NEW q \in Clients
               PROVE  /\ pc[q] = "idle" => reply'[q] = Nothing
                      /\ pc[q] = "called" => cmd[q] \in TaskKinds \cup JobKinds
                      /\ reply'[q] = Nothing \/ q \in pending' => verdict[q] = Nothing
                      /\ pc[q] = "ended" <=> exit[q] # Nothing
                      /\ pc[q] \in {"replied", "waiting", "prompt"} => reply'[q] = "accepted"
                      /\ pc[q] \in {"replied", "waiting", "prompt"} /\ cmd[q] \in TaskKinds => q \in task
                      /\ q \in pending' => cmd[q] \in TaskKinds \cup JobKinds /\ reply'[q] \in {Nothing, "timeout"}
                      /\ q \in pending' /\ reply'[q] = Nothing => pc[q] = "called"
    BY <1>1 DEF ProcInv
  <2>1. CASE q = c
    BY <1>0, <1>1, <1>r, <2>1 DEF IInv, ProcInv, Nothing
  <2>2. CASE q # c
    BY <1>r, <2>2 DEF IInv, ProcInv
  <2> QED  BY <2>1, <2>2
<1>5. SignalInv'
  BY <1>1, <1>3, SignalFrame DEF IInv
<1>7. EndInv'
  <2> SUFFICES ASSUME NEW q \in Clients \ quitNow, exit[q] \in {"ok", "failed"}, Task(q)', reply'[q] = "accepted"
               PROVE  verdict[q] # Nothing /\ (exit[q] = "ok" <=> verdict[q] = "Succeed")
    BY <1>1 DEF EndInv
  <2>1. q # c
    <3>1. q = c => reply[c] = Nothing /\ pc[c] = "called"
      BY <1>0, <1>r
    <3>2. q = c => exit[c] = Nothing
      BY <3>1 DEF IInv, ProcInv
    <3> QED  BY <3>2 DEF Nothing
  <2>2. Task(q) /\ reply[q] = "accepted"
    BY <1>1, <1>r, <2>1 DEF Task, Handled
  <2> QED  BY <2>2 DEF IInv, EndInv
<1>8. queue \in Seq(Clients) /\ c \notin ToSet(queue) /\ c \notin jobs
  BY <1>1, Queued DEF IInv, TypeOK, QueueInv, Task, Job, Handled
<1>o. \A q \in ToSet(queue) : pc[q] = "ended" /\ reply'[q] # "timeout" /\ exit[q] # "aborted"
                               => q \in cancelled \/ last[q].sub
  <2>1. \A q \in ToSet(queue) : q \in Clients \ {c}
    BY <1>8, Queued DEF IInv
  <2> QED  BY <1>r, <2>1 DEF IInv, NoTaskForgotten
<1>9. CASE UNCHANGED <<queue, phase, jobs>>
  <2>1. TypeOK'
    BY <1>1, <1>r, <1>9 DEF IInv, TypeOK
  <2>2. QueueInv'
    BY <1>1, <1>3, <1>9, QueueFrame DEF IInv
  <2>3. NoTaskForgotten'
    BY <1>1, <1>9, <1>o DEF NoTaskForgotten
  <2> QED  BY <1>4, <1>5, <1>7, <2>1, <2>2, <2>3 DEF IInv
<1>10. CASE /\ cmd[c] \notin TaskKinds /\ a = "accepted"
            /\ jobs' = jobs \cup {c} /\ UNCHANGED <<queue, phase>>
  <2>1. TypeOK'
    BY <1>1, <1>r, <1>10 DEF IInv, TypeOK
  <2>3. QueueInv'
    <3>1. \A i \in 1..Len(queue) : queue[i] \in Clients
      BY <1>8, ElementOfSeq
    <3>2. Job(c)'
      BY <1>0, <1>1, <1>r, <1>10 DEF Job, Handled
    <3> QED  BY <1>1, <1>3, <1>10, <3>1, <3>2 DEF IInv, QueueInv, Stands, TypeOK
  <2>4. NoTaskForgotten'
    BY <1>1, <1>10, <1>o DEF NoTaskForgotten
  <2> QED  BY <1>4, <1>5, <1>7, <2>1, <2>3, <2>4 DEF IInv
<1>11. CASE /\ cmd[c] \in TaskKinds /\ a = "accepted" /\ queue' = Append(queue, c)
            /\ phase' \in {"queued", phase} /\ jobs' = jobs
  <2>1. Append(queue, c) \in Seq(Clients) /\ ToSet(queue') = ToSet(queue) \cup {c}
    BY <1>8, <1>11, AppendElements
  <2>2. TypeOK'
    BY <1>1, <1>r, <1>11, <2>1 DEF IInv, TypeOK
  <2>3. Task(c)' /\ verdict[c] = Nothing
    BY <1>0, <1>1, <1>r, <1>11 DEF Task, Handled
  <2>4. QueueInv'
    <3>1. /\ Len(queue) \in Nat /\ Len(queue') = Len(queue) + 1 /\ queue'[Len(queue) + 1] = c
          /\ \A i \in 1..Len(queue) : queue'[i] = queue[i] /\ queue[i] \in Clients /\ queue[i] # c
      BY <1>8, <1>11, AppendProperties, LenProperties, ElementOfSeq, Elements
    <3>2. \A i \in 1..Len(queue') : i \in 1..Len(queue) \/ i = Len(queue) + 1
      BY <3>1
    <3>3. \A q \in jobs : q \in Clients /\ Job(q)'
      BY <1>3 DEF IInv, QueueInv, Stands, TypeOK
    <3>4. \A i \in 1..Len(queue) : Task(queue[i]) /\ verdict[queue[i]] = Nothing
      BY DEF IInv, QueueInv
    <3>5. \A q \in Clients : (Task(q) => Task(q)') /\ verdict'[q] = verdict[q]
      BY <1>1, <1>3 DEF Stands
    <3>7. \A i \in 1..Len(queue') : (Task(queue[i]) /\ verdict[queue[i]] = Nothing)'
      BY <1>1, <2>3, <3>1, <3>2, <3>4, <3>5 DEF Task, Handled
    <3>6. \A i, j \in 1..Len(queue') : queue'[i] = queue'[j] => i = j
      BY <3>1, <3>2 DEF IInv, QueueInv
    <3> QED  BY <1>11, <3>3, <3>7, <3>6 DEF QueueInv
  <2>5. NoTaskForgotten'
    <3>1. pc[c] = "ended" => reply'[c] = "timeout"
      BY <1>0, <1>r
    <3> QED  BY <1>1, <1>o, <2>1, <3>1 DEF NoTaskForgotten
  <2> QED  BY <1>4, <1>5, <1>7, <2>2, <2>4, <2>5 DEF IInv
<1> QED
  BY <1>2, <1>9, <1>10, <1>11

\* A signal about the state of a task is sent.
LEMMA SentStep ==
    ASSUME IInv, NEW m \in Message, m.name \in {"PropertiesChanged", "RequestInteraction"},
           inbox' = Broadcast(inbox, m), phase' \in {"queued", "running", "asking", "late", "refused"},
           UNCHANGED <<pc, cmd, reply, subs, last, task, quitNow, exit, pending, queue, jobs, verdict, cancelled,
                       missed, crashes>>
    PROVE  IInv'
<1>1. inbox' \in [Clients -> Seq(Message)]
      /\ \A c \in Clients : ToSet(inbox'[c]) \subseteq ToSet(inbox[c]) \cup {m}
  BY BroadcastFacts DEF IInv, TypeOK
<1>2. Stands
  BY DEF Stands, Task, Job, Handled
<1>3. TypeOK'
  BY <1>1 DEF IInv, TypeOK
<1>4. Told(m)'
  BY DEF Told, JobSignals
<1>5. SignalInv' /\ QueueInv'
  BY <1>1, <1>2, <1>4, SignalFrame, QueueFrame DEF IInv
<1>6. ProcInv' /\ EndInv' /\ NoTaskForgotten'
  BY DEF IInv, ProcInv, EndInv, NoTaskForgotten, Task, Handled
<1> QED  BY <1>3, <1>5, <1>6 DEF IInv

\* A task or job that is not decided yet is decided, and everybody connected is told.
LEMMA DecidedStep ==
    ASSUME IInv, NEW c \in Clients, NEW state \in Final, NEW m \in Message,
           m.path = c, m.state = state, verdict' = [verdict EXCEPT ![c] = state],
           m.name = "TaskRemoved" => Task(c), m.name \in JobSignals => Job(c),
           inbox' \in [Clients -> Seq(Message)],
           \A q \in Clients : \A x \in ToSet(inbox'[q]) :
              x \in ToSet(inbox[q]) \/ x = m \/ x.name = "PropertiesChanged",
           reply[c] # Nothing, c \notin pending, Task(c) => verdict[c] = Nothing /\ c \notin ToSet(queue'),
           queue' \in Seq(Clients), ToSet(queue') \subseteq ToSet(queue),
           \A i, j \in 1..Len(queue') : queue'[i] = queue'[j] => i = j,
           jobs' \subseteq jobs, phase' \in {"queued", phase}, missed' \subseteq Clients,
           UNCHANGED <<pc, cmd, reply, subs, last, task, quitNow, exit, pending, cancelled, crashes>>
    PROVE  IInv'
<1>1. TypeOK'
  BY DEF IInv, TypeOK
<1>2. ProcInv' /\ NoTaskForgotten'
  BY DEF IInv, ProcInv, NoTaskForgotten
<1>3. \A q \in Clients : Task(q)' = Task(q) /\ Job(q)' = Job(q)
  BY DEF Task, Job, Handled
<1>4. verdict'[c] = state /\ \A q \in Clients \ {c} : verdict'[q] = verdict[q]
  BY DEF IInv, TypeOK
<1>5. EndInv'
  <2> SUFFICES ASSUME NEW q \in Clients \ quitNow, exit[q] \in {"ok", "failed"}, Task(q), reply[q] = "accepted"
               PROVE  verdict'[q] # Nothing /\ (exit[q] = "ok" <=> verdict'[q] = "Succeed")
    BY <1>3 DEF EndInv
  <2>1. verdict[q] # Nothing /\ (exit[q] = "ok" <=> verdict[q] = "Succeed")
    BY DEF IInv, EndInv
  <2>2. q # c
    BY <2>1
  <2> QED  BY <1>4, <2>1, <2>2
<1>6. SignalInv'
  <2> SUFFICES ASSUME NEW q \in Clients, NEW x \in ToSet(inbox'[q]) PROVE Told(x)'
    BY DEF SignalInv
  <2>1. CASE x \in ToSet(inbox[q])
    <3>1. inbox[q] \in Seq(Message)
      BY DEF IInv, TypeOK
    <3>2. x \in Message
      BY <2>1, <3>1, Elements
    <3>3. x.path \in Clients /\ Told(x)
      BY <2>1, <3>2 DEF Message, IInv, SignalInv
    <3>4. x.name = "TaskRemoved" => x.path # c
      BY <3>3 DEF Told, Final, Nothing
    <3> QED  BY <1>3, <1>4, <3>3, <3>4 DEF Told
  <2>2. CASE x = m
    BY <1>3, <1>4, <2>2 DEF Told
  <2>3. CASE x.name = "PropertiesChanged"
    BY <2>3 DEF Told, JobSignals
  <2> QED  BY <2>1, <2>2, <2>3
<1>7. QueueInv'
  <2>1. ASSUME NEW i \in 1..Len(queue') PROVE (Task(queue[i]) /\ verdict[queue[i]] = Nothing)'
    <3>1. queue'[i] \in ToSet(queue')
      BY Elements
    <3>2. queue'[i] \in Clients /\ Task(queue'[i]) /\ verdict[queue'[i]] = Nothing
      BY <3>1, Queued DEF IInv
    <3>3. queue'[i] # c
      BY <3>1, <3>2
    <3> QED  BY <1>4, <3>2, <3>3 DEF Task, Handled
  <2>2. \A q \in jobs' : Job(q)'
    BY <1>3 DEF IInv, QueueInv, TypeOK
  <2> QED  BY <2>1, <2>2 DEF QueueInv
<1> QED  BY <1>1, <1>2, <1>5, <1>6, <1>7 DEF IInv

\* A task ends and leaves the queue.
LEMMA FinishStep ==
    ASSUME IInv, NEW state \in Final, PmFinish(state)
    PROVE  IInv'
<1> DEFINE c == queue[1]
           p == Sent("PropertiesChanged", c, state)
           m == Sent("TaskRemoved", c, state)
<1>1. /\ queue # <<>> /\ verdict' = [verdict EXCEPT ![c] = state] /\ missed' \in {missed, missed \cup {c}}
      /\ inbox' = Broadcast(Broadcast(inbox, p), m) /\ queue' = Tail(queue) /\ phase' = "queued"
      /\ UNCHANGED <<pc, cmd, reply, subs, last, task, quitNow, exit, pending, jobs, cancelled, crashes>>
  BY DEF PmFinish
<1>2. /\ c \in Clients /\ 1 \in 1..Len(queue) /\ c \in ToSet(queue)
      /\ queue' \in Seq(Clients) /\ ToSet(queue') \subseteq ToSet(queue)
      /\ \A i \in 1..Len(queue') : queue'[i] = queue[i + 1] /\ i + 1 \in 1..Len(queue) /\ i + 1 # 1
  BY <1>1, FrontTask DEF IInv
<1>3. /\ p \in Message /\ m \in Message /\ p.name = "PropertiesChanged" /\ m.name = "TaskRemoved"
      /\ m.path = c /\ m.state = state
  BY <1>2 DEF Sent, Message, Signals
<1> HIDE DEF p, m
<1>4. /\ Broadcast(inbox, p) \in [Clients -> Seq(Message)]
      /\ \A q \in Clients : ToSet(Broadcast(inbox, p)[q]) \subseteq ToSet(inbox[q]) \cup {p}
  BY <1>3, BroadcastFacts DEF IInv, TypeOK
<1> DEFINE box == Broadcast(inbox, p)
<1> HIDE DEF box
<1>5. /\ inbox' \in [Clients -> Seq(Message)]
      /\ \A q \in Clients : ToSet(inbox'[q]) \subseteq ToSet(box[q]) \cup {m}
  BY <1>1, <1>3, <1>4, BroadcastFacts DEF IInv, box
<1>6. \A q \in Clients : \A x \in ToSet(inbox'[q]) :
         x \in ToSet(inbox[q]) \/ x = m \/ x.name = "PropertiesChanged"
  BY <1>3, <1>4, <1>5 DEF box
<1>7. Task(c) /\ verdict[c] = Nothing
  BY <1>2, Queued DEF IInv
<1>8. /\ \A i, j \in 1..Len(queue') : queue'[i] = queue'[j] => i = j
      /\ \A i \in 1..Len(queue') : queue'[i] # c
  <2>1. Len(queue') \in Nat
    BY <1>2, LenProperties
  <2>2. \A i, j \in 1..Len(queue) : queue[i] = queue[j] => i = j
    BY DEF IInv, QueueInv
  <2>3. \A i, j \in 1..Len(queue') : i + 1 = j + 1 => i = j
    BY <2>1
  <2> QED  BY <1>2, <2>2, <2>3
<1>9. c \notin ToSet(queue')
  BY <1>2, <1>8, Elements
<1>10. m.name \notin JobSignals /\ reply[c] # Nothing /\ c \notin pending
  BY <1>3, <1>7 DEF JobSignals, Task, Handled, Nothing
<1>11. missed' \subseteq Clients /\ phase' \in {"queued", phase} /\ jobs' \subseteq jobs
  BY <1>1, <1>2 DEF IInv, TypeOK
<1> HIDE DEF c
<1> QED  BY <1>1, <1>2, <1>3, <1>5, <1>6, <1>7, <1>8, <1>9, <1>10, <1>11, DecidedStep

\* A job ends.
LEMMA JobEndsStep ==
    ASSUME IInv, NEW c \in Clients, NEW state \in {"Succeed", "Failed"}, PmJobEnds(c, state)
    PROVE  IInv'
<1> DEFINE m == Sent(SignalOf(cmd[c]), c, state)
<1>1. /\ c \in jobs /\ jobs' = jobs \ {c} /\ verdict' = [verdict EXCEPT ![c] = state]
      /\ missed' \in {missed, missed \cup {c}} /\ inbox' = Broadcast(inbox, m)
      /\ UNCHANGED <<pc, cmd, reply, subs, last, task, quitNow, exit, pending, queue, phase, cancelled, crashes>>
  BY DEF PmJobEnds
<1>2. Job(c) /\ ~Task(c)
  BY <1>1 DEF IInv, QueueInv, Job, Task, Handled, JobKinds, TaskKinds, Asking
<1>3. /\ m \in Message /\ m.name \in JobSignals /\ m.name # "TaskRemoved" /\ m.path = c
      /\ m.state = state
  BY <1>2 DEF Job, Handled, JobKinds, SignalOf, Sent, Message, Signals, JobSignals, Final
<1> HIDE DEF m
<1>4. /\ inbox' \in [Clients -> Seq(Message)]
      /\ \A q \in Clients : ToSet(inbox'[q]) \subseteq ToSet(inbox[q]) \cup {m}
  BY <1>1, <1>3, BroadcastFacts DEF IInv, TypeOK
<1>5. /\ queue' \in Seq(Clients) /\ ToSet(queue') \subseteq ToSet(queue)
      /\ \A i, j \in 1..Len(queue') : queue'[i] = queue'[j] => i = j
      /\ missed' \subseteq Clients /\ phase' \in {"queued", phase} /\ jobs' \subseteq jobs
      /\ state \in Final /\ reply[c] # Nothing /\ c \notin pending
  BY <1>1, <1>2 DEF IInv, TypeOK, QueueInv, Final, Job, Handled, Nothing
<1>6. \A q \in Clients : \A x \in ToSet(inbox'[q]) :
         x \in ToSet(inbox[q]) \/ x = m \/ x.name = "PropertiesChanged"
  BY <1>4
<1> QED  BY <1>1, <1>2, <1>3, <1>4, <1>5, <1>6, DecidedStep

\* The package manager crashes.
LEMMA CrashStep ==
    ASSUME IInv, PmCrash
    PROVE  IInv'
<1>1. /\ pending' = {} /\ queue' = <<>> /\ phase' = "queued" /\ jobs' = {} /\ crashes' = crashes + 1
      /\ UNCHANGED <<pc, cmd, subs, inbox, last, task, quitNow, exit, verdict, cancelled, missed>>
      /\ reply' = [c \in Clients |-> IF pc[c] = "called" /\ reply[c] = Nothing THEN "error" ELSE reply[c]]
  BY DEF PmCrash
<1>2. <<>> \in Seq(Clients) /\ ToSet(<<>>) = {} /\ Len(<<>>) = 0
  BY DEF ToSet
<1>3. TypeOK'
  BY <1>1, <1>2 DEF IInv, TypeOK
<1>4. Stands
  BY <1>1 DEF Stands, Task, Job, Handled, Nothing
<1>9. \A c \in Clients : Task(c)' /\ reply'[c] = "accepted" => Task(c) /\ reply[c] = "accepted"
  <2>1. \A c \in Clients : reply'[c] = "accepted" => reply[c] = "accepted"
    BY <1>1
  <2>2. \A c \in Clients : reply[c] = "accepted" => c \notin pending
    BY DEF IInv, ProcInv, Nothing
  <2> QED  BY <1>1, <2>1, <2>2 DEF Task, Handled
<1>5. ProcInv'
  BY <1>1 DEF IInv, ProcInv, Nothing
<1>6. SignalInv'
  BY <1>1, <1>4, SignalFrame DEF IInv
<1>7. QueueInv' /\ NoTaskForgotten'
  BY <1>1, <1>2 DEF QueueInv, NoTaskForgotten
<1>8. EndInv'
  BY <1>1, <1>9 DEF IInv, EndInv
<1> QED  BY <1>3, <1>5, <1>6, <1>7, <1>8 DEF IInv

-----------------------------------------------------------------------------
\* Every step keeps the invariant.
LEMMA NextStep == IInv /\ [CliNext]_cliVars => IInv'
<1> SUFFICES ASSUME IInv, [CliNext]_cliVars PROVE IInv'
  OBVIOUS
<1>1. ASSUME NEW c \in Clients,
             \/ InstallFromFile(c) \/ CliInstall(c) \/ Upgrade(c) \/ Uninstall(c)
             \/ Search(c) \/ Prune(c) \/ GenerateCache(c)
      PROVE  IInv'
  <2>1. \E k \in TaskKinds \cup JobKinds, on \in SUBSET Signals, early \in SUBSET {"ok", "failed"} :
            Calls(c, k, on, early)
    BY <1>1 DEF InstallFromFile, CliInstall, Upgrade, Uninstall, Search, Prune, GenerateCache,
       TaskKinds,
       JobKinds, Asking, Signals, JobSignals
  <2> QED  BY <2>1, CallsStep
<1>2. ASSUME NEW c \in Clients, OnTaskPropertiesChanged(c) PROVE IInv'
  <2>1. /\ pc[c] = "waiting" /\ inbox[c] # <<>> /\ Done(c)
        /\ last' = [last EXCEPT ![c] = [state |-> Next1(c).state, sub |-> Next1(c).state \in Final]]
        /\ UNCHANGED <<pc, cmd, reply, subs, task, quitNow, exit, pending, pmVars, cancelled>>
    BY <1>2 DEF OnTaskPropertiesChanged, Take
  <2>2. Next1(c) \in Message
    BY <2>1, FirstSignal DEF IInv
  <2>3. [state |-> Next1(c).state, sub |-> Next1(c).state \in Final] \in Belief
    BY <2>2 DEF Message, Belief
  <2>4. last' \in [Clients -> Belief] /\ \A q \in Clients \ {c} : last'[q] = last[q]
    BY <2>1, <2>3 DEF IInv, TypeOK
  <2> QED  BY <2>1, <2>4, HandledStep DEF pmVars, IInv, TypeOK
<1>3. ASSUME NEW c \in Clients, Interaction(c) \/ AnswerQuestion(c) PROVE IInv'
  <2>1. /\ pc[c] \in {"waiting", "prompt"} /\ ((Done(c) /\ inbox[c] # <<>>) \/ inbox' = inbox)
        /\ \E x \in {"waiting", "prompt"} : pc' = [pc EXCEPT ![c] = x]
        /\ phase' \in {"running", "refused", phase}
        /\ UNCHANGED <<cmd, reply, subs, last, task, quitNow, exit, pending, queue, jobs, verdict, missed,
                       crashes, cancelled>>
    BY <1>3 DEF Interaction, AnswerQuestion, Take, pmVars, IInv, TypeOK
  <2>2. phase' \in {"queued", "running", "asking", "late", "refused"}
    BY <2>1 DEF IInv, TypeOK
  <2> QED  BY <2>1, <2>2, PromptStep
<1>4. ASSUME NEW c \in Clients, Interrupt(c) PROVE IInv'
  <2>1. /\ quitNow' = quitNow \cup {c}
        /\ UNCHANGED <<pc, cmd, reply, subs, inbox, last, task, exit, pending, pmVars, cancelled>>
    BY <1>4 DEF Interrupt
  <2>2. TypeOK'
    BY <2>1 DEF IInv, TypeOK, pmVars
  <2>3. ProcInv' /\ EndInv' /\ NoTaskForgotten'
    BY <2>1 DEF IInv, ProcInv, EndInv, NoTaskForgotten, Task, Handled, pmVars
  <2>4. Stands
    BY <2>1 DEF Stands, Task, Job, Handled, pmVars
  <2>5. QueueInv' /\ SignalInv'
    BY <2>1, <2>4, QueueFrame, SignalFrame DEF IInv, pmVars
  <2> QED  BY <2>2, <2>3, <2>5 DEF IInv
<1>5. ASSUME PmStart \/ PmPartsComplete PROVE IInv'
  <2>1. /\ queue # <<>>
        /\ UNCHANGED <<pc, cmd, reply, subs, last, task, quitNow, exit, pending, queue, jobs, verdict, cancelled,
                       missed, crashes>>
        /\ phase' \in {"running", "asking", "late"}
        /\ \E n \in {"PropertiesChanged", "RequestInteraction"}, st \in {"Processing", "Succeed", Nothing} :
              inbox' = Broadcast(inbox, Sent(n, queue[1], st))
    BY <1>5 DEF PmStart, PmPartsComplete
  <2>2. queue[1] \in Clients
    BY <2>1, FrontTask DEF IInv
  <2>3. \A n \in {"PropertiesChanged", "RequestInteraction"}, st \in {"Processing", "Succeed", Nothing} :
           Sent(n, queue[1], st) \in Message /\ Sent(n, queue[1], st).name = n
    BY <2>2 DEF Sent, Message, Signals, Final
  <2> QED  BY <2>1, <2>3, SentStep
<1>6. CASE UNCHANGED cliVars
  BY <1>6 DEF cliVars, IInv, TypeOK, ProcInv, QueueInv, SignalInv, Told, EndInv, NoTaskForgotten,
     Task, Job, Handled
<1> QED
  BY <1>1, <1>2, <1>3, <1>4, <1>5, <1>6, RepliedStep, WaitStep, TaskRemovedStep, JobFinishedStep,
     QuitStep, AbortStep, TimeoutStep,
     PmHandleStep, FinishStep, JobEndsStep, CrashStep DEF CliNext, Handle, Serve

\* The inductive invariant holds in every reachable state.
THEOREM Invariance == CliSpec => []IInv
<1>1. CliInit => IInv
  <2> SUFFICES ASSUME CliInit PROVE IInv
    OBVIOUS
  <2>1. <<>> \in Seq(Message) /\ <<>> \in Seq(Clients) /\ ToSet(<<>>) = {} /\ Len(<<>>) = 0
    BY DEF ToSet
  <2>2. TypeOK
    BY <2>1 DEF CliInit, TypeOK, Fresh, Belief, Signals
  <2>3. ProcInv /\ QueueInv /\ SignalInv /\ EndInv /\ NoTaskForgotten
    BY <2>1 DEF CliInit, ProcInv, QueueInv, SignalInv, EndInv, NoTaskForgotten
  <2> QED  BY <2>2, <2>3 DEF IInv
<1> QED  BY <1>1, NextStep, PTL DEF CliSpec

\* Type correctness of the clients and of the package manager as they see it.
THEOREM TypeCorrect == CliSpec => []TypeOK
<1>1. IInv => TypeOK
  BY DEF IInv
<1> QED  BY <1>1, Invariance, PTL

\* onTaskRemoved(): a process that was not interrupted ends with 0 exactly when its own task
\* succeeded, however many tasks and jobs of others end meanwhile, and whatever crashes.
THEOREM OutcomeIsTold == CliSpec => []ExitTellsOutcome
<1>1. IInv => ExitTellsOutcome
  BY DEF IInv, ProcInv, EndInv, ExitTellsOutcome, Task, Handled, Nothing
<1> QED  BY <1>1, Invariance, PTL

\* cancelCurrentTask(): a task whose client has left is asked to stop, or the client believes
\* that it is done.
THEOREM TasksAreCancelled == CliSpec => []NoTaskForgotten
<1>1. IInv => NoTaskForgotten
  BY DEF IInv
<1> QED  BY <1>1, Invariance, PTL

-----------------------------------------------------------------------------
(***************************************************************************)
(* The cache of the dynamic linker.                                        *)
(***************************************************************************)
Conf == Layerings \cup {Absent}

CacheTypes == [dir : BOOLEAN, conf : Conf, ld : Conf]
JobTypes == [step : {"idle", "dir", "conf", "ran", "failed"}, conf : Conf,
             for : Runners \cup {"install", Absent}]

CacheTypeOK ==
    /\ now \in Layerings /\ changes \in Nat /\ deaths \in Nat /\ half \in BOOLEAN
    /\ cache \in CacheTypes /\ job \in JobTypes
    /\ generator \in Seq(Runners)
    /\ rpc \in [Runners -> {"idle", "wait", "found", "made", "failed"}]
    /\ mine \in [Runners -> Conf]

\* Between ld.so.conf and ldconfig the file is the one that this generation wrote: no other
\* generation, and no removal, comes between.
OneWriter == deaths = 0 /\ job.step = "conf" => cache.conf = job.conf /\ job.conf # Absent

CacheInv == CacheTypeOK /\ OneWriter /\ CacheWhole

\* A run of `ll-cli run' and a change of the layers touch neither the cache nor the job.
LEMMA CacheUntouched ==
    ASSUME CacheInv, CacheTypeOK', UNCHANGED <<cache, job, deaths, half>>
    PROVE  CacheInv'
  BY DEF CacheInv, OneWriter, CacheWhole

\* A generation begins.
LEMMA BeginFacts ==
    ASSUME CacheTypeOK, NEW who \in Runners \cup {"install"}, Begin(who)
    PROVE  cache' \in CacheTypes /\ job' \in JobTypes /\ job'.step = "dir"
<1>1. cache \in CacheTypes
  BY DEF CacheTypeOK, CacheTypes
<1>2. cache' = [cache EXCEPT !.dir = TRUE] /\ job' = [step |-> "dir", conf |-> Absent, for |-> who]
  BY DEF Begin
<1>3. cache' \in CacheTypes
  BY <1>1, <1>2 DEF CacheTypes
<1>4. job' \in JobTypes /\ job'.step = "dir"
  BY <1>2 DEF JobTypes, Conf
<1> QED  BY <1>3, <1>4

\* A generation fails before it begins.
LEMMA FailedFacts ==
    ASSUME NEW who \in Runners \cup {"install"}, Failed(who)
    PROVE  job' \in JobTypes /\ job'.step = "failed"
  BY DEF Failed, Idle, JobTypes, Conf

\* What remove_all() leaves.
LEMMA RemoveFacts ==
    ASSUME CacheTypeOK, RemoveAll
    PROVE  cache' \in CacheTypes /\ half' \in BOOLEAN /\ (~half' => cache' = NoCache)
<1>1. CASE cache' = NoCache /\ half' = FALSE
  BY <1>1 DEF NoCache, CacheTypes, Conf
<1>2. ASSUME NEW conf \in {cache.conf, Absent}, NEW ld \in {cache.ld, Absent}, half' = TRUE,
             cache' = [cache EXCEPT !.conf = conf, !.ld = ld]
      PROVE  cache' \in CacheTypes /\ half' \in BOOLEAN /\ (~half' => cache' = NoCache)
  BY <1>2 DEF CacheTypeOK, CacheTypes, Conf
<1> QED  BY <1>1, <1>2 DEF RemoveAll

\* Every step keeps the variables of Cache in their types.
LEMMA CacheTypeStep == CacheTypeOK /\ [CacheNext]_cacheVars => CacheTypeOK'
<1> SUFFICES ASSUME CacheTypeOK, [CacheNext]_cacheVars PROVE CacheTypeOK'
  OBVIOUS
<1> USE DEF CacheTypeOK
<1>1. CASE Change
  BY <1>1 DEF Change
<1>2. CASE TryGenerateCache
  BY <1>2, BeginFacts DEF TryGenerateCache
<1>3. CASE NextGeneration
  <2>1. generator \in Seq(Runners) /\ generator # <<>> /\ generator' = Tail(generator)
    BY <1>3 DEF NextGeneration
  <2>2. Head(generator) \in Runners /\ generator' \in Seq(Runners)
    BY <2>1, HeadTailProperties
  <2> QED  BY <1>3, <2>2, BeginFacts, FailedFacts DEF NextGeneration
<1>4. CASE WriteConf
  BY <1>4 DEF CacheTypes, JobTypes, Conf, WriteConf
<1>5. CASE RunLdconfig
  BY <1>5 DEF CacheTypes, JobTypes, Conf, RunLdconfig
<1>6. CASE GenerateFails
  BY <1>6, RemoveFacts DEF JobTypes, Conf, GenerateFails, RolledBack, Failed, Idle
<1>7. CASE GenerateCacheFinished
  BY <1>7 DEF CacheTypes, JobTypes, Conf, GenerateCacheFinished, Idle
<1>8. CASE RemoveCache
  BY <1>8, RemoveFacts DEF RemoveCache
<1>9. CASE Death
  BY <1>9 DEF CacheTypes, JobTypes, Conf, Death, Idle
<1>10. ASSUME NEW r \in Runners, EnsureCache(r) PROVE CacheTypeOK'
  <2>1. generator' \in Seq(Runners)
    BY <1>10, AppendProperties DEF EnsureCache
  <2> QED  BY <1>10, <2>1 DEF EnsureCache, Conf
<1>11. ASSUME NEW r \in Runners, RunEnds(r) PROVE CacheTypeOK'
  BY <1>11 DEF RunEnds, Conf
<1>12. CASE UNCHANGED cacheVars
  BY <1>12 DEF cacheVars
<1> QED
  BY <1>1, <1>2, <1>3, <1>4, <1>5, <1>6, <1>7, <1>8, <1>9, <1>10, <1>11, <1>12 DEF CacheNext

\* Every step keeps the invariant of the cache.
LEMMA CacheStep == CacheInv /\ [CacheNext]_cacheVars => CacheInv'
<1> SUFFICES ASSUME CacheInv, [CacheNext]_cacheVars PROVE CacheInv'
  OBVIOUS
<1>1. CacheTypeOK /\ CacheTypeOK'
  BY CacheTypeStep DEF CacheInv
<1>2. ASSUME TryGenerateCache PROVE CacheInv'
  <2>1. CASE Begin("install")
    BY <1>1, <1>2, <2>1, BeginFacts DEF CacheInv, OneWriter, CacheWhole
  <2>2. CASE UNCHANGED <<job, cache>>
    BY <1>1, <1>2, <2>2, CacheUntouched DEF TryGenerateCache
  <2> QED  BY <1>2, <2>1, <2>2 DEF TryGenerateCache
<1>3. ASSUME NextGeneration PROVE CacheInv'
  <2>1. job = Idle /\ deaths' = deaths /\ half' = half /\ Head(generator) \in Runners
    BY <1>1, <1>3, HeadTailProperties DEF NextGeneration, CacheTypeOK
  <2>2. CASE Begin(Head(generator))
    BY <1>1, <2>1, <2>2, BeginFacts DEF CacheInv, OneWriter, CacheWhole
  <2>3. CASE Failed(Head(generator)) /\ UNCHANGED cache
    BY <1>1, <2>1, <2>3, FailedFacts DEF Idle, CacheInv, OneWriter, CacheWhole
  <2> QED  BY <1>3, <2>2, <2>3 DEF NextGeneration
<1>4. ASSUME WriteConf PROVE CacheInv'
  BY <1>1, <1>4, LayeringsAssumption DEF WriteConf, CacheInv, CacheTypeOK, CacheTypes, JobTypes, OneWriter, CacheWhole
<1>5. ASSUME RunLdconfig PROVE CacheInv'
  BY <1>1, <1>5 DEF RunLdconfig, CacheInv, CacheTypeOK, CacheTypes, JobTypes, OneWriter, CacheWhole
<1>6. ASSUME GenerateFails PROVE CacheInv'
  BY <1>1, <1>6, RemoveFacts DEF GenerateFails, RolledBack, NoCache, Failed, Idle, CacheInv, OneWriter,
     CacheWhole
<1>7. ASSUME GenerateCacheFinished PROVE CacheInv'
  BY <1>1, <1>7 DEF GenerateCacheFinished, Idle, CacheInv, OneWriter, CacheWhole
<1>8. ASSUME RemoveCache PROVE CacheInv'
  BY <1>1, <1>8, RemoveFacts DEF RemoveCache, NoCache, Idle, CacheInv, OneWriter, CacheWhole
<1>9. ASSUME Death PROVE CacheInv'
  BY <1>1, <1>9 DEF Death, CacheInv, CacheTypeOK, OneWriter, CacheWhole
<1>10. ASSUME UNCHANGED <<cache, job, deaths, half>> PROVE CacheInv'
  BY <1>1, <1>10, CacheUntouched
<1>11. \/ TryGenerateCache \/ NextGeneration \/ WriteConf \/ RunLdconfig \/ GenerateFails
       \/ GenerateCacheFinished \/ RemoveCache \/ Death
       \/ UNCHANGED <<cache, job, deaths, half>>
  BY DEF CacheNext, Change, EnsureCache, RunEnds, cacheVars
<1> QED
  BY <1>2, <1>3, <1>4, <1>5, <1>6, <1>7, <1>8, <1>9, <1>10, <1>11

\* The inductive invariant of the cache holds in every reachable state.
THEOREM CacheInvariance == CacheSpec => []CacheInv
<1>1. CacheInit => CacheInv
  <2> SUFFICES ASSUME CacheInit PROVE CacheInv
    OBVIOUS
  <2>1. cache \in CacheTypes /\ job \in JobTypes
    BY DEF CacheInit, NoCache, Idle, CacheTypes, JobTypes, Conf
  <2>2. CacheTypeOK
    BY <2>1, EmptySeq DEF CacheInit, CacheTypeOK, Conf
  <2> QED  BY <2>2 DEF CacheInit, NoCache, Idle, CacheInv, OneWriter, CacheWhole
<1> QED  BY <1>1, CacheStep, PTL DEF CacheSpec

\* generateCache(), its transaction and removeCache(): as long as the package manager has not
\* died and its removals end, a cache nobody works on has the ld.so.cache of its ld.so.conf,
\* for any number of runs, of sets of layers and of changes between them.
THEOREM CachesAreWhole == CacheSpec => []CacheWhole
<1>1. CacheInv => CacheWhole
  BY DEF CacheInv
<1> QED  BY <1>1, CacheInvariance, PTL
=============================================================================
