---------------------------- MODULE LLInitProofs ----------------------------
(***************************************************************************)
(* ll-init for every set of processes, of clients and of signals: it takes *)
(* nobody with it, it keeps the application's exit code, and no client is  *)
(* left without an event.                                                  *)
(***************************************************************************)
EXTENDS LLInit, SequenceTheorems, TLAPS

ProcRecords == [st : {None, "live", "zombie", "gone"}, parent : Procs \cup {Init1},
                status : Statuses]

TypeOK ==
    /\ proc \in [Procs -> ProcRecords]
    /\ pending \subseteq {"CHLD", "in", "out"}
    /\ ready \in Seq(Fds) /\ batch \in Seq(Fds)
    /\ backlog \in Seq(Clients)
    /\ answer \in [Clients -> {"no", "waiting", "started", "refused", "closed", "cut"}]
    /\ pc \in {"wait", "batch", "hung", "exited"}
    /\ i \in Nat /\ ret \in Nat
    /\ waitPid \in {App, All} /\ waitStatus \in Statuses
    /\ timer \in BOOLEAN /\ done \in BOOLEAN /\ childExitCode \in Nat
    /\ told \subseteq Procs /\ sent \in 0..MaxSignals
    /\ lost \subseteq {"sig", "sock", "early", "crowd"}

\* The end is decided only when nobody is there, and whoever starts a process calls it off.
DoneMeansEmpty == (pc = "exited" => done) /\ (done => ~ShouldWait(proc))

\* The timer runs, and its events exist, only after the watch of the application has ended.
TimerAfterWatch ==
    /\ timer \/ done => waitPid = All
    /\ "timer" \in ToSet(ready) \cup ToSet(batch) => waitPid = All

\* When the watch ended with the application, its status was the one taken.
CodeTaken ==
    waitPid = All /\ "early" \notin lost =>
        proc[App].st = "gone" /\ childExitCode = Code(proc[App].status)

\* The loop stays inside the batch, and the only client waiting has its event there or in
\* the ready list.
ClientHasEvent ==
    /\ pc = "batch" => 1 <= i /\ ret <= Len(batch)
    /\ lost \cap {"sock", "crowd"} = {} =>
        /\ Len(backlog) <= 1
        /\ backlog # <<>> => \/ "sock" \in ToSet(ready)
                             \/ pc = "batch" /\ \E j \in i..ret : batch[j] = "sock"

IInv == TypeOK /\ DoneMeansEmpty /\ TimerAfterWatch /\ CodeTaken /\ ClientHasEvent

-----------------------------------------------------------------------------
\* What Edge() does to the ready list.
LEMMA EdgeFacts ==
    ASSUME ready \in Seq(Fds), NEW fd \in Fds
    PROVE  /\ Edge(fd) \in Seq(Fds)
           /\ ToSet(Edge(fd)) = ToSet(ready) \cup {fd}
<1>1. CASE fd \in ToSet(ready)
  BY <1>1 DEF Edge
<1>2. CASE fd \notin ToSet(ready)
  <2>1. Edge(fd) = Append(ready, fd)
    BY <1>2 DEF Edge
  <2>2. /\ Append(ready, fd) \in Seq(Fds)
        /\ Len(Append(ready, fd)) = Len(ready) + 1
        /\ \A j \in 1..Len(ready) : Append(ready, fd)[j] = ready[j]
        /\ Append(ready, fd)[Len(ready) + 1] = fd
        /\ Len(ready) \in Nat
    BY AppendProperties, LenProperties
  <2>3. DOMAIN Append(ready, fd) = 1..(Len(ready) + 1) /\ DOMAIN ready = 1..Len(ready)
    BY <2>2, LenProperties
  <2>4. ASSUME NEW x PROVE x \in ToSet(Append(ready, fd)) <=> x \in ToSet(ready) \cup {fd}
    BY <2>2, <2>3 DEF ToSet
  <2> QED
    BY <2>1, <2>2, <2>4
<1> QED
  BY <1>1, <1>2

\* The exit code of a status is a number.
LEMMA CodeNat == \A s \in Statuses : Code(s) \in Nat
  BY DEF Statuses, Code

\* main() before the loop.
LEMMA InitIInv == Init => IInv
<1> SUFFICES ASSUME Init PROVE IInv
  OBVIOUS
<1>1. TypeOK
  <2>1. Zero \in Statuses
    BY DEF Zero, Statuses
  <2>2. proc \in [Procs -> ProcRecords]
    BY <2>1 DEF Init, ProcRecords
  <2>3. ready \in Seq(Fds) /\ batch \in Seq(Fds) /\ backlog \in Seq(Clients)
    BY DEF Init
  <2>4. sent \in 0..MaxSignals
    BY LLInitAssumption DEF Init
  <2>5. answer \in [Clients -> {"no", "waiting", "started", "refused", "closed", "cut"}]
    BY DEF Init
  <2> QED
    BY <2>1, <2>2, <2>3, <2>4, <2>5 DEF Init, TypeOK
<1>2. DoneMeansEmpty /\ CodeTaken /\ ClientHasEvent
  BY LLInitAssumption DEF Init, DoneMeansEmpty, CodeTaken, ClientHasEvent, Procs
<1>3. TimerAfterWatch
  BY LLInitAssumption DEF Init, TimerAfterWatch, ToSet
<1> QED
  BY <1>1, <1>2, <1>3 DEF IInv

\* Every step keeps it; one step per action, and under it one per conjunct it can disturb.
LEMMA NextIInv == IInv /\ [Next]_vars => IInv'
<1> SUFFICES ASSUME IInv, [Next]_vars PROVE IInv'
  OBVIOUS
<1> USE DEF IInv
<1>z. Zero \in Statuses
  BY DEF Zero, Statuses
<1>a. App \in Procs /\ Others \subseteq Procs /\ All # App
  BY LLInitAssumption DEF Procs
<1>1. ASSUME NEW p \in Procs, NEW q \in Others, Fork(p, q) PROVE IInv'
  <2>1. TypeOK'
    BY <1>1, <1>z, <1>a DEF Fork, TypeOK, ProcRecords, loop
  <2>2. DoneMeansEmpty' /\ TimerAfterWatch' /\ ClientHasEvent'
    BY <1>1, <1>a DEF Fork, DoneMeansEmpty, TimerAfterWatch, ClientHasEvent, ShouldWait, loop
  <2>3. CodeTaken'
    BY <1>1, <1>a DEF Fork, CodeTaken, TypeOK, loop, None
  <2> QED
    BY <2>1, <2>2, <2>3
<1>2. ASSUME NEW p \in Procs, NEW s \in Statuses, End(p, s) PROVE IInv'
  <2> DEFINE orphans == {q \in Procs : proc[q].parent = p /\ proc[q].st \in {"live", "zombie"}}
  <2>1. /\ \A q \in Procs : proc'[q] = IF q = p THEN [proc[p] EXCEPT !.st = "zombie", !.status = s]
                              ELSE IF q \in orphans THEN [proc[q] EXCEPT !.parent = Init1]
                              ELSE proc[q]
        /\ proc' = [q \in Procs |-> proc'[q]]
        /\ pc # "exited" /\ proc[p].st = "live"
        /\ pending' \in {pending, pending \cup {"CHLD"}}
        /\ ready' \in {ready, Edge("sig")}
        /\ UNCHANGED <<backlog, answer, loop, told, sent, lost>>
    BY <1>2 DEF End
  <2>2. ready' \in Seq(Fds) /\ ToSet(ready') \subseteq ToSet(ready) \cup {"sig"}
        /\ ToSet(ready) \subseteq ToSet(ready')
    BY <2>1, EdgeFacts DEF TypeOK, Fds
  <2>3. TypeOK'
    <3>1. \A q \in Procs : proc[q] \in ProcRecords
      BY DEF TypeOK
    <3>2. \A q \in Procs : proc'[q] \in ProcRecords
      BY ZenonT(60), <2>1, <3>1 DEF ProcRecords
    <3>3. proc' \in [Procs -> ProcRecords]
      BY <2>1, <3>2
    <3> HIDE DEF orphans
    <3> QED
      BY <3>3, <2>1, <2>2 DEF TypeOK, loop
  <2>4. DoneMeansEmpty'
    BY <2>1 DEF DoneMeansEmpty, ShouldWait, loop
  <2>5. TimerAfterWatch' /\ ClientHasEvent'
    BY <2>1, <2>2 DEF TimerAfterWatch, ClientHasEvent, loop
  <2>6. CodeTaken'
    BY <2>1, <1>a DEF CodeTaken, loop
  <2> QED
    BY <2>3, <2>4, <2>5, <2>6
<1>3. ASSUME NEW q \in Procs, ParentReaps(q) PROVE IInv'
  <2>1. TypeOK'
    BY <1>3 DEF ParentReaps, TypeOK, ProcRecords, loop
  <2>2. DoneMeansEmpty' /\ TimerAfterWatch' /\ ClientHasEvent'
    BY <1>3 DEF ParentReaps, DoneMeansEmpty, TimerAfterWatch, ClientHasEvent, ShouldWait, TypeOK, loop
  <2>3. CodeTaken'
    BY <1>3, <1>a DEF ParentReaps, CodeTaken, TypeOK, ProcRecords, loop
  <2> QED
    BY <2>1, <2>2, <2>3
<1>4. ASSUME NEW sig \in {"in", "out"}, Signal(sig) PROVE IInv'
  <2>1. ready' \in Seq(Fds) /\ ToSet(ready') = ToSet(ready) \cup {"sig"}
    BY <1>4, EdgeFacts DEF Signal, TypeOK, Fds
  <2>2. TypeOK'
    BY <1>4, <2>1, LLInitAssumption DEF Signal, TypeOK, loop
  <2>3. DoneMeansEmpty' /\ TimerAfterWatch' /\ ClientHasEvent' /\ CodeTaken'
    BY <1>4, <2>1 DEF Signal, DoneMeansEmpty, TimerAfterWatch, ClientHasEvent, CodeTaken, loop
  <2> QED
    BY <2>2, <2>3
<1>5. CASE Tick
  <2>1. ready' \in Seq(Fds) /\ ToSet(ready') = ToSet(ready) \cup {"timer"}
    BY <1>5, EdgeFacts DEF Tick, TypeOK, Fds
  <2>2. TypeOK'
    BY <1>5, <2>1 DEF Tick, TypeOK, loop, kernel
  <2>3. DoneMeansEmpty' /\ TimerAfterWatch' /\ ClientHasEvent' /\ CodeTaken'
    BY <1>5, <2>1 DEF Tick, DoneMeansEmpty, TimerAfterWatch, ClientHasEvent, CodeTaken, loop, kernel
  <2> QED
    BY <2>2, <2>3
<1>6. ASSUME NEW c \in Clients, Connect(c) PROVE IInv'
  <2>1. ready' \in Seq(Fds) /\ ToSet(ready') = ToSet(ready) \cup {"sock"}
    BY <1>6, EdgeFacts DEF Connect, TypeOK, Fds
  <2>2. backlog' \in Seq(Clients) /\ Len(backlog') = Len(backlog) + 1
    BY <1>6 DEF Connect, TypeOK
  <2>3. TypeOK'
    BY <1>6, <2>1, <2>2 DEF Connect, TypeOK, loop
  <2>4. DoneMeansEmpty' /\ TimerAfterWatch' /\ CodeTaken'
    BY <1>6, <2>1 DEF Connect, DoneMeansEmpty, TimerAfterWatch, CodeTaken, loop
  <2>5. ClientHasEvent'
    BY <1>6, <2>1, <2>2 DEF Connect, ClientHasEvent, TypeOK, loop
  <2> QED
    BY <2>3, <2>4, <2>5
<1>7. CASE EpollWait
  <2>1. Len(ready) \in Nat /\ ToSet(ready) = {ready[j] : j \in 1..Len(ready)}
    BY DEF TypeOK, ToSet
  <2>2. ToSet(ready') = {}
    BY <1>7 DEF EpollWait, ToSet
  <2>3. TypeOK'
    BY <1>7, <2>1 DEF EpollWait, TypeOK, kernel
  <2>4. DoneMeansEmpty' /\ CodeTaken'
    BY <1>7 DEF EpollWait, DoneMeansEmpty, CodeTaken, kernel
  <2>5. TimerAfterWatch'
    BY <1>7, <2>2 DEF EpollWait, TimerAfterWatch, kernel
  <2>6. ClientHasEvent'
    BY <1>7, <2>1 DEF EpollWait, ClientHasEvent, kernel
  <2> QED
    BY <2>3, <2>4, <2>5, <2>6
<1>8. CASE SigEvent
  <2>1. /\ AtEvent("sig") /\ HandleSigevent /\ i' = i + 1
        /\ UNCHANGED <<ready, backlog, answer, pc, batch, ret, sent>>
        /\ IF waitPid = App
           THEN /\ waitPid' = All
                /\ childExitCode' = Code(waitStatus')
                /\ done' = (done \/ ~ShouldWait(proc'))
                /\ timer' = TRUE
                /\ lost' = IF App \in Reaped THEN lost ELSE lost \cup {"early"}
           ELSE UNCHANGED <<waitPid, childExitCode, done, timer, lost>>
    BY <1>8 DEF SigEvent, SigEventThen
  <2>2. /\ proc' \in [Procs -> ProcRecords]
        /\ \A p \in Procs : proc'[p] = IF p \in Reaped THEN [proc[p] EXCEPT !.st = "gone"] ELSE proc[p]
        /\ Reaped \subseteq Procs
        /\ \A p \in Reaped : proc[p].st = "zombie"
    BY ZenonT(60), <2>1 DEF HandleSigevent, TypeOK, ProcRecords, Reaped, Ended, In
  <2>3. waitStatus' \in Statuses /\ told' \subseteq Procs /\ pending' = {}
        /\ (App \in Reaped /\ waitPid = App => waitStatus' = proc[App].status)
    BY <2>1, <2>2 DEF HandleSigevent, StatusOfChild, ForwardedTo, In, TypeOK, ProcRecords
  <2>4. TypeOK'
    <3>1. CASE waitPid = App
      BY <2>1, <2>2, <2>3, <3>1, CodeNat DEF TypeOK
    <3>2. CASE waitPid # App
      BY <2>1, <2>2, <2>3, <3>2 DEF TypeOK
    <3> QED
      BY <3>1, <3>2
  <2>5. DoneMeansEmpty'
    <3>1. ~ShouldWait(proc) => ~ShouldWait(proc')
      BY <2>2 DEF ShouldWait
    <3>2. pc # "exited"
      BY <2>1 DEF AtEvent
    <3> QED
      BY <2>1, <3>1, <3>2 DEF DoneMeansEmpty, TypeOK
  <2>6. TimerAfterWatch'
    BY <2>1, <1>a DEF TimerAfterWatch, TypeOK
  <2>7. CodeTaken'
    BY <2>1, <2>2, <2>3, <1>a DEF CodeTaken, TypeOK, ProcRecords
  <2>8. ClientHasEvent'
    <3>1. lost' \cap {"sock", "crowd"} = lost \cap {"sock", "crowd"}
      BY <2>1
    <3>2. \A j \in i..ret : batch[j] = "sock" => j \in i'..ret'
      BY <2>1 DEF AtEvent, TypeOK
    <3> QED
      BY <2>1, <3>1, <3>2 DEF ClientHasEvent, AtEvent, TypeOK
  <2> QED
    BY <2>4, <2>5, <2>6, <2>7, <2>8
<1>9. CASE TimerEvent
  <2>1. Len(batch) \in Nat /\ \A j \in 1..Len(batch) : batch[j] \in Fds
    BY DEF TypeOK
  <2>2. TypeOK'
    <3>1. lost' \subseteq {"sig", "sock", "early", "crowd"}
      <4>1. \A j \in (i + 1)..Len(batch) : batch[j] \in Fds
        BY <2>1 DEF TypeOK
      <4>2. lost' = lost \cup ({batch[j] : j \in (i + 1)..Len(batch)} \ {"timer"})
        BY <1>9 DEF TimerEvent
      <4> QED
        BY <4>1, <4>2 DEF TypeOK, Fds
    <3>2. ret' \in Nat /\ i' \in Nat
      BY <1>9 DEF TimerEvent, TypeOK
    <3>3. done' \in BOOLEAN
      BY <1>9 DEF TimerEvent, TypeOK
    <3> QED
      BY <1>9, <3>1, <3>2, <3>3 DEF TimerEvent, TypeOK, kernel
  <2>3. waitPid = All
    <3>1. "timer" \in ToSet(batch)
      BY <1>9, <2>1 DEF TimerEvent, AtEvent, TypeOK, ToSet, ClientHasEvent
    <3> QED
      BY <3>1 DEF TimerAfterWatch
  <2>4. DoneMeansEmpty' /\ TimerAfterWatch'
    BY <1>9, <2>3 DEF TimerEvent, AtEvent, DoneMeansEmpty, TimerAfterWatch, kernel
  <2>5. CodeTaken'
    BY <1>9 DEF TimerEvent, CodeTaken, kernel
  <2>6. ClientHasEvent'
    <3>1. ASSUME NEW j \in i..ret, batch[j] = "sock" PROVE "sock" \in lost'
      <4>1. j \in (i + 1)..Len(batch)
        BY <1>9, <3>1, <2>1 DEF TimerEvent, AtEvent, TypeOK, ClientHasEvent
      <4> QED
        BY <4>1, <3>1, <1>9 DEF TimerEvent
    <3>2. lost' \cap {"sock", "crowd"} = {} => lost \cap {"sock", "crowd"} = {}
      BY <1>9 DEF TimerEvent
    <3>3. 1 <= i' /\ ret' <= Len(batch')
      BY <1>9, <2>1 DEF TimerEvent, AtEvent, TypeOK, ClientHasEvent
    <3> QED
      BY <1>9, <3>1, <3>2, <3>3 DEF TimerEvent, ClientHasEvent, kernel
  <2> QED
    BY <2>2, <2>4, <2>5, <2>6
<1>10. CASE ClientEvent
  <2>1. /\ AtEvent("sock") /\ i' = i + 1
        /\ UNCHANGED <<pending, ready, pc, batch, ret, waitPid, waitStatus, timer,
                       childExitCode, told, sent, lost>>
    BY <1>10 DEF ClientEvent, ClientEventThen
  <2>2. /\ backlog' \in Seq(Clients)
        /\ answer' \in [Clients -> {"no", "waiting", "started", "refused", "closed", "cut"}]
        /\ \/ backlog = <<>> /\ backlog' = <<>>
           \/ backlog # <<>> /\ Len(backlog') = Len(backlog) - 1
    <3>1. CASE backlog # <<>>
      <4>1. backlog' = Tail(backlog) /\ \E c \in Clients, w \in {"started", "refused", "closed"} :
                                          answer' = [answer EXCEPT ![c] = w]
        BY <1>10, <3>1 DEF ClientEvent, ClientEventThen, Served
      <4>2. Tail(backlog) \in Seq(Clients) /\ Len(Tail(backlog)) = Len(backlog) - 1
        BY <3>1, HeadTailProperties DEF TypeOK
      <4> QED
        BY <3>1, <4>1, <4>2 DEF TypeOK
    <3>2. CASE backlog = <<>>
      <4>1. UNCHANGED <<backlog, answer>>
        BY <1>10, <3>2 DEF ClientEvent, ClientEventThen, Served
      <4>2. backlog' \in Seq(Clients)
            /\ answer' \in [Clients -> {"no", "waiting", "started", "refused", "closed", "cut"}]
        BY <4>1 DEF TypeOK
      <4> QED
        BY <3>2, <4>1, <4>2
    <3> QED
      BY <3>1, <3>2
  <2>3. \/ proc' = proc /\ (done' => done)
        \/ ~done' /\ \E q \in In(None) : proc' = DelegateRun(q)
    BY <1>10 DEF ClientEvent, ClientEventThen, Served
  <2>t. done' \in BOOLEAN
    BY <1>10 DEF ClientEvent, ClientEventThen, Served, TypeOK
  <2>4. /\ proc' \in [Procs -> ProcRecords]
        /\ \A p \in Procs : proc[p].st # None => proc'[p] = proc[p]
    <3>1. ASSUME NEW q \in In(None), proc' = DelegateRun(q)
          PROVE  /\ proc' \in [Procs -> ProcRecords]
                 /\ \A p \in Procs : proc[p].st # None => proc'[p] = proc[p]
      BY <3>1, <1>z DEF In, DelegateRun, TypeOK, ProcRecords
    <3> QED
      BY <2>3, <3>1 DEF TypeOK
  <2>5. TypeOK'
    BY <2>1, <2>2, <2>4, <2>t DEF TypeOK
  <2>6. DoneMeansEmpty' /\ TimerAfterWatch'
    BY <2>1, <2>3 DEF AtEvent, DoneMeansEmpty, TimerAfterWatch
  <2>7. CodeTaken'
    BY <2>1, <2>4, <1>a DEF CodeTaken, None
  <2>8. ClientHasEvent'
    BY <2>1, <2>2 DEF ClientHasEvent, AtEvent, TypeOK
  <2> QED
    BY <2>5, <2>6, <2>7, <2>8
<1>11. CASE EndBatch
  <2>1. TypeOK'
    <3>1. answer' \in [Clients -> {"no", "waiting", "started", "refused", "closed", "cut"}]
      BY <1>11 DEF EndBatch, TypeOK
    <3>2. backlog' \in {backlog, <<>>} /\ batch' = <<>> /\ pc' \in {"wait", "exited"}
      BY <1>11 DEF EndBatch
    <3>3. backlog' \in Seq(Clients) /\ batch' \in Seq(Fds)
      BY <3>2, EmptySeq DEF TypeOK
    <3>4. UNCHANGED <<proc, pending, ready, waitPid, waitStatus, timer, done, childExitCode,
                      told, sent, lost>> /\ i' = 1 /\ ret' = 0
      BY <1>11 DEF EndBatch
    <3> QED
      BY <3>1, <3>2, <3>3, <3>4 DEF TypeOK
  <2>2. DoneMeansEmpty' /\ CodeTaken'
    BY <1>11 DEF EndBatch, DoneMeansEmpty, CodeTaken
  <2>3. TimerAfterWatch'
    <3>1. ToSet(batch') = {}
      BY <1>11 DEF EndBatch, ToSet
    <3> QED
      BY <1>11, <3>1 DEF EndBatch, TimerAfterWatch
  <2>4. ClientHasEvent'
    <3>1. ~ \E j \in i..ret : batch[j] = "sock"
      BY <1>11 DEF EndBatch, TypeOK
    <3> QED
      BY <1>11, <3>1 DEF EndBatch, ClientHasEvent
  <2> QED
    BY <2>1, <2>2, <2>3, <2>4
<1>12. ASSUME NEW c \in Clients, Cut(c) PROVE IInv'
  <2>1. answer' \in [Clients -> {"no", "waiting", "started", "refused", "closed", "cut"}]
    BY <1>12 DEF Cut, TypeOK
  <2>2. TypeOK'
    BY <1>12, <2>1 DEF Cut, TypeOK, loop
  <2>3. DoneMeansEmpty' /\ TimerAfterWatch' /\ ClientHasEvent' /\ CodeTaken'
    BY <1>12 DEF Cut, DoneMeansEmpty, TimerAfterWatch, ClientHasEvent, CodeTaken, loop
  <2> QED
    BY <2>2, <2>3
<1>13. CASE ClientHangs
  <2>1. backlog # <<>> /\ backlog' = Tail(backlog) /\ pc' = "hung" /\ pc = "batch"
        /\ UNCHANGED <<proc, pending, ready, answer, batch, i, ret, waitPid, waitStatus, timer, done,
                       childExitCode, told, sent, lost>>
    BY <1>13 DEF ClientHangs, AtEvent
  <2>2. backlog' \in Seq(Clients) /\ Len(backlog') = Len(backlog) - 1
    BY <2>1, HeadTailProperties DEF TypeOK
  <2>3. TypeOK'
    BY <2>1, <2>2 DEF TypeOK
  <2>4. DoneMeansEmpty' /\ TimerAfterWatch' /\ CodeTaken'
    BY <2>1 DEF DoneMeansEmpty, TimerAfterWatch, CodeTaken
  <2>5. ClientHasEvent'
    BY <2>1, <2>2 DEF ClientHasEvent, TypeOK
  <2> QED
    BY <2>3, <2>4, <2>5
<1>14. CASE UNCHANGED vars
  BY <1>14 DEF vars, TypeOK, DoneMeansEmpty, TimerAfterWatch, CodeTaken, ClientHasEvent
<1> QED
  BY <1>1, <1>2, <1>3, <1>4, <1>5, <1>6, <1>7, <1>8, <1>9, <1>10, <1>11, <1>12, <1>13, <1>14, <1>a, <1>z DEF Next

\* The parts of the invariant hold together in every reachable state.
THEOREM Invariance == Spec => []IInv
  BY InitIInv, NextIInv, PTL DEF Spec

\* Type correctness of ll-init.
THEOREM TypeCorrect == Spec => []TypeOK
<1>1. IInv => TypeOK
  BY DEF IInv
<1> QED
  BY <1>1, Invariance, PTL

\* ll-init never ends while a process of the container lives, whatever was forked or
\* started for a client in the batch in which the end was decided.
THEOREM NobodyIsKilled == Spec => []NobodyKilled
<1>1. IInv => NobodyKilled
  BY DEF IInv, DoneMeansEmpty, NobodyKilled, ShouldWait, In
<1> QED
  BY <1>1, Invariance, PTL

\* If the application's own end is the first thing ll-init hears of, its exit code is the
\* container's, however many processes end with it.
THEOREM ExitCodeIsKept == Spec => []ExitCodeKept
<1>1. IInv => ExitCodeKept
  BY DEF IInv, DoneMeansEmpty, TimerAfterWatch, CodeTaken, ExitCodeKept
<1> QED
  BY <1>1, Invariance, PTL

\* A client waits without an event only where an edge was shared or dropped.
THEOREM ClientsAreWoken == Spec => []NoClientStranded
<1>1. IInv => NoClientStranded
  BY DEF IInv, ClientHasEvent, NoClientStranded
<1> QED
  BY <1>1, Invariance, PTL
=============================================================================
