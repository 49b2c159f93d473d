----------------------- MODULE PackageTaskQueueProofs -----------------------
(***************************************************************************)
(* PackageTaskQueue for any number of tasks of any kinds, with and without *)
(* questions to the user: the order of the queue, one job at a time when   *)
(* nobody is asked, and what becomes of cancelled and of failed tasks.     *)
(***************************************************************************)
EXTENDS PackageTaskQueue, SequenceTheorems, TLAPS

\* What is assumed of the requests.  Every method gives its task one reference, except
\* Update(), which gives it one for every package of the request and one upgrade for
\* every reference that is different.  `ll-cli upgrade' sends no empty request and names
\* each application once, so there is at least one reference and, in an update, an upgrade
\* for each.  (Another client of the D-Bus interface might do otherwise.)
Counted == \A t \in Task : /\ Refs[t] # 0
                           /\ Kind[t] = "update" => Refs[t] = Upgrades[t]

TypeOK ==
    /\ task \in [Task -> TaskRecord]
    /\ queue \in Seq(Task) /\ added \in Seq(Task)
    /\ starts \in Nat
    /\ frames \in Seq(Frame)
    /\ stale \in BOOLEAN /\ broken \in BOOLEAN
    /\ removed \in Seq([task : Task, state : State])
    /\ cutAt \in [Task -> Points \cup {"none", "queue"}]

-----------------------------------------------------------------------------
(* The queue and the stack.                                                *)

\* No task is added twice.
AddedOnce == \A i, j \in 1..Len(added) : added[i] = added[j] => i = j

\* A job runs for a task that was added; if the task is still registered, it is the front
\* one and its job the top of the stack.  Below the top every job waits for its user, and
\* only jobs that need a consent do.
Stack ==
    /\ \A i \in 1..Len(frames) :
         /\ frames[i].task \in ToSet(added)
         /\ InQueue(frames[i].task) => frames[i].task = queue[1] /\ Top.task = queue[1]
         /\ Asking(frames[i]) \/ (i = Len(frames) /\ InQueue(frames[i].task))
         /\ Asking(frames[i]) => frames[i].task \in Asks

QueueInv == ServedInOrder /\ AddedOnce /\ Stack

-----------------------------------------------------------------------------
(* The tasks.                                                              *)

\* What holds of every task, whatever its job does.
GoodTask(t, k) ==
    /\ Kind[t] # "update" => k.parts = 0
    /\ k.sub = "AllDone" => k.state \in Terminal
    /\ k.state = "Failed" => k.sub = "AllDone"
    /\ k.state = "Queued" => k.sub = "Unknown" /\ k.parts = 0

TaskInv ==
    \A t \in Task : /\ GoodTask(t, task[t])
                    /\ t \notin ToSet(added) => task[t] = FreshTask /\ cutAt[t] = "none"

\* A registered task whose job has not been called waits, or was cancelled waiting.
Waiting ==
    \A t \in Task :
        InQueue(t) /\ (\A i \in 1..Len(frames) : frames[i].task # t) =>
            \/ task[t].state = "Queued" /\ cutAt[t] = "none"
            \/ task[t].state = "Canceled" /\ task[t].sub = "AllDone" /\ cutAt[t] = "queue"

Early == {"queue", "ask", "answered"}
Fetching == {"fetch", "depList", "depFetch"}

\* Which jobs come to which points, and how they go on after a rollback.
PointOfKind(f) ==
    /\ f.pc \in {"ask", "answered"} => f.task \in Asks
    /\ f.pc \in {"list", "fetch", "installed"} => Kind[f.task] \in {"install", "module", "update"}
    /\ f.pc \in {"depList", "depFetch"} =>
         Kind[f.task] \in {"install", "module", "update", "layer"} \/ f.task \in OnlyApp
    /\ f.pc \in {"import", "hooks"} => Kind[f.task] \in {"layer", "uab"}
    /\ f.pc = "part" => Kind[f.task] = "update"
    /\ f.pc = "undo" => \/ f.then \in {"return", "failed"} /\ Kind[f.task] \in {"install", "module", "uninstall"}
                        \/ f.then = "part" /\ Kind[f.task] = "update"
                        \/ f.then = "hooks" /\ Kind[f.task] \in {"layer", "uab"}

\* An update has completed the parts it has no upgrade left for.
PartsOf(f, k) ==
    Kind[f.task] = "update" =>
        /\ f.pc \in {"called", "begin"} => k.parts = 0 /\ f.ups = Upgrades[f.task]
        /\ f.pc \in {"list", "installed"} \cup Fetching => k.parts + f.ups + 1 = Upgrades[f.task]
        /\ f.pc = "part" => k.sub = "AllDone" \/ k.parts + f.ups = Upgrades[f.task]
        /\ f.pc = "undo" => k.parts + f.ups = Upgrades[f.task]
        /\ k.parts = Refs[f.task] => k.state \in {"Succeed", "Failed"} /\ f.pc \in {"part", "undo"}

\* The state of the task of the job on top.
StateOf(f, k, cut) ==
    /\ f.pc = "called" => k.state = "Queued"
    /\ f.pc = "begin" /\ f.task \notin Asks => k.state = "Queued"
    /\ f.pc \in {"ask", "answered", "begin"} =>
         k.state = "Queued" \/ (k.state = "Canceled" /\ k.sub = "AllDone")
    /\ f.pc \notin {"called", "ask", "answered", "begin"} => k.state # "Queued"
    /\ f.pc \in {"list"} \cup Fetching /\ f.task \notin OnlyApp => k.state \in {"Processing", "Canceled"}
    /\ f.pc = "list" /\ k.state = "Canceled" => cut # "none"
    /\ f.pc \in Fetching /\ k.state = "Canceled" /\ cut = "none" => k.sub = "AllDone"
    /\ k.sub = "PackageManagerDone" => Kind[f.task] = "update" /\ f.pc \in {"part", "list", "undo"}
    /\ f.pc = "undo" /\ f.then = "return" => k.state \in Terminal
    /\ f.pc = "undo" /\ f.then = "hooks" /\ Kind[f.task] = "layer" => k.state \in Terminal
    /\ f.pc = "hooks" /\ Kind[f.task] = "layer" => k.state \in Terminal
    /\ k.state = "Failed" /\ f.task \notin OnlyApp =>
         \/ f.pc \in {"installed", "part"}
         \/ f.pc = "undo" /\ f.then = "return"

\* A job whose task was cancelled early does not begin; one that was cancelled while it
\* fetched only winds up.
CutOf(f, k, cut) ==
    /\ cut \in Early => /\ k.state = "Canceled" /\ k.sub = "AllDone"
                        /\ f.pc \in {"ask", "answered", "begin"}
    /\ cut \in Fetching /\ f.task \notin OnlyApp =>
         /\ k.sub = "AllDone" /\ k.state \in {"Canceled", "Failed"}
         /\ f.pc \in Fetching \cup {"installed", "part", "undo"}
         /\ f.pc = "undo" => f.then = "return"

Good(f, k, cut) == PointOfKind(f) /\ PartsOf(f, k) /\ StateOf(f, k, cut) /\ CutOf(f, k, cut)

TopInv == frames # <<>> /\ InQueue(Top.task) => Good(Top, TopTask, cutAt[Top.task])

\* How a task ends.
GoodEnd(t, state, cut) ==
    /\ state \in Terminal
    /\ cut \in Early => state = "Canceled"
    /\ cut \in Fetching /\ t \notin OnlyApp => state # "Succeed"

EndsInv == \A i \in 1..Len(removed) : GoodEnd(removed[i].task, removed[i].state, cutAt[removed[i].task])

IInv == TypeOK /\ QueueInv /\ TaskInv /\ Waiting /\ TopInv /\ EndsInv

-----------------------------------------------------------------------------
(* Sequences.                                                              *)

\* The top of a nonempty stack, and what is below it.
LEMMA FrontFacts ==
    ASSUME NEW S, NEW s \in Seq(S), s # <<>>
    PROVE  /\ Len(s) \in Nat \ {0}
           /\ Last(s) = s[Len(s)] /\ Last(s) \in S
           /\ Front(s) \in Seq(S)
           /\ Len(Front(s)) = Len(s) - 1
           /\ \A i \in 1..Len(s) - 1 : Front(s)[i] = s[i]
<1>1. Len(s) \in Nat \ {0}
  BY EmptySeq
<1>2. \A i \in 1 .. Len(s) - 1 : s[i] \in S
  BY <1>1, ElementOfSeq
<1> DEFINE g == Front(s)
<1>3. /\ g \in Seq(S) /\ Len(g) = IF 1 <= Len(s) - 1 THEN (Len(s) - 1) - 1 + 1 ELSE 0
      /\ \A i \in 1 .. (Len(s) - 1) - 1 + 1 : g[i] = s[1 + i - 1]
  BY <1>1, <1>2, SubSeqProperties DEF Front
<1>4. Last(s) = s[Len(s)] /\ s[Len(s)] \in S
  BY <1>1, ElementOfSeq DEF Last
<1> HIDE DEF g
<1>5. Len(g) = Len(s) - 1
  <2>1. \A n \in Nat \ {0} : (IF 1 <= n - 1 THEN (n - 1) - 1 + 1 ELSE 0) = n - 1
    OBVIOUS
  <2> QED
    BY <1>1, <1>3, <2>1, Zenon
<1>6. ASSUME NEW i \in 1..Len(s) - 1 PROVE g[i] = s[i]
  BY <1>1, <1>3
<1> QED
  BY <1>1, <1>3, <1>4, <1>5, <1>6 DEF g

\* Replacing the top of a stack.
LEMMA ReplaceTop ==
    ASSUME NEW S, NEW s \in Seq(S), s # <<>>, NEW f \in S
    PROVE  /\ Append(Front(s), f) \in Seq(S)
           /\ Append(Front(s), f) # <<>>
           /\ Len(Append(Front(s), f)) = Len(s)
           /\ \A i \in 1..Len(s) - 1 : Append(Front(s), f)[i] = s[i]
           /\ Append(Front(s), f)[Len(s)] = f
           /\ Last(Append(Front(s), f)) = f
<1> DEFINE g == Front(s)
<1>1. /\ g \in Seq(S) /\ Len(g) = Len(s) - 1 /\ Len(s) \in Nat \ {0}
      /\ \A i \in 1..Len(s) - 1 : g[i] = s[i]
  BY FrontFacts
<1> HIDE DEF g
<1>2. /\ Append(g, f) \in Seq(S) /\ Append(g, f) # <<>> /\ Len(Append(g, f)) = Len(g) + 1
      /\ \A i \in 1..Len(g) : Append(g, f)[i] = g[i]
      /\ Append(g, f)[Len(g) + 1] = f
  BY <1>1, AppendProperties
<1>3. Last(Append(g, f)) = f
  BY <1>1, <1>2 DEF Last
<1> QED
  BY <1>1, <1>2, <1>3 DEF g

\* Erasing the element found first is taking the tail when it is the front one.
LEMMA EraseFront ==
    ASSUME NEW S, NEW s \in Seq(S), s # <<>>, NEW e, e = s[1]
    PROVE  RemoveFirst(s, e) = Tail(s)
<1>1. Len(s) \in Nat \ {0}
  BY EmptySeq
<1> DEFINE I == {i \in 1..Len(s) : s[i] = e}
<1>2. 1 \in I /\ \A y \in I : 1 <= y /\ y \in Nat
  BY <1>1
<1>3. Min(I) = 1
  BY <1>2 DEF Min
<1>4. SelectInSeq(s, LAMBDA v : v = e) = IF I # {} THEN Min(I) ELSE 0
  BY DEF SelectInSeq
<1>5. RemoveFirst(s, e) = RemoveAt(s, SelectInSeq(s, LAMBDA v : v = e))
  <2>1. \E i \in 1..Len(s) : s[i] = e
    BY <1>1
  <2> QED
    BY <2>1, Zenon DEF RemoveFirst
<1>6. RemoveFirst(s, e) = SubSeq(s, 1, 0) \o SubSeq(s, 2, Len(s))
  <2>1. SelectInSeq(s, LAMBDA v : v = e) = 1
    BY <1>2, <1>3, <1>4
  <2>2. RemoveFirst(s, e) = RemoveAt(s, 1)
    BY <1>5, <2>1
  <2>3. RemoveAt(s, 1) = SubSeq(s, 1, 1 - 1) \o SubSeq(s, 1 + 1, Len(s))
    BY DEF RemoveAt
  <2> QED
    BY <2>2, <2>3
<1>7. SubSeq(s, 1, 0) = <<>>
  BY SubSeqEmpty
<1>8. SubSeq(s, 2, Len(s)) = Tail(s) /\ Tail(s) \in Seq(S)
  BY TailIsSubSeq, HeadTailProperties
<1> QED
  BY <1>6, <1>7, <1>8, ConcatEmptySeq

\* The elements of a sequence.
LEMMA Elements ==
    ASSUME NEW S, NEW s \in Seq(S)
    PROVE  \A x : x \in ToSet(s) <=> \E i \in 1..Len(s) : s[i] = x
BY LenProperties DEF ToSet

\* Moving the head of one sequence to the end of another keeps their concatenation.
LEMMA MoveHead ==
    ASSUME NEW S, NEW r \in Seq(S), NEW q \in Seq(S), q # <<>>
    PROVE  Append(r, q[1]) \o Tail(q) = r \o q
<1>1. Len(q) \in Nat \ {0} /\ Len(r) \in Nat /\ q[1] \in S
  BY EmptySeq, LenProperties, ElementOfSeq
<1>2. /\ Append(r, q[1]) \in Seq(S) /\ Len(Append(r, q[1])) = Len(r) + 1
      /\ \A i \in 1..Len(r) : Append(r, q[1])[i] = r[i]
      /\ Append(r, q[1])[Len(r) + 1] = q[1]
  BY <1>1, AppendProperties
<1>3. /\ Tail(q) \in Seq(S) /\ Len(Tail(q)) = Len(q) - 1
      /\ \A i \in 1 .. Len(Tail(q)) : Tail(q)[i] = q[i + 1]
  BY HeadTailProperties
<1> DEFINE a == Append(r, q[1])  b == Tail(q)
<1> HIDE DEF a, b
<1>4. /\ a \o b \in Seq(S) /\ Len(a \o b) = Len(a) + Len(b)
      /\ \A i \in 1 .. Len(a) + Len(b) : (a \o b)[i] = IF i <= Len(a) THEN a[i] ELSE b[i - Len(a)]
  BY <1>2, <1>3, ConcatProperties DEF a, b
<1>5. /\ r \o q \in Seq(S) /\ Len(r \o q) = Len(r) + Len(q)
      /\ \A i \in 1 .. Len(r) + Len(q) : (r \o q)[i] = IF i <= Len(r) THEN r[i] ELSE q[i - Len(r)]
  BY ConcatProperties
<1>6. Len(a \o b) = Len(r \o q)
  BY <1>1, <1>2, <1>3, <1>4, <1>5 DEF a, b
<1>7. ASSUME NEW i \in 1..Len(r \o q) PROVE (a \o b)[i] = (r \o q)[i]
  <2>1. i \in 1..(Len(r) + Len(q)) /\ i \in 1..(Len(a) + Len(b))
    BY <1>4, <1>5, <1>6
  <2>2. Len(a) = Len(r) + 1 /\ Len(b) = Len(q) - 1
    BY <1>2, <1>3 DEF a, b
  <2>3. CASE i <= Len(r)
    BY <1>1, <1>2, <1>4, <1>5, <2>1, <2>2, <2>3 DEF a
  <2>4. CASE i = Len(r) + 1
    BY <1>1, <1>2, <1>4, <1>5, <2>1, <2>2, <2>4 DEF a
  <2>5. CASE i > Len(r) + 1
    <3>1. i - Len(a) \in 1..Len(b) /\ (i - Len(a)) + 1 = i - Len(r)
      BY <1>1, <2>1, <2>2, <2>5
    <3>2. b[i - Len(a)] = q[i - Len(r)]
      BY <1>3, <3>1 DEF b
    <3> QED
      BY <1>1, <1>4, <1>5, <2>1, <2>2, <2>5, <3>2
  <2> QED
    BY <1>1, <2>1, <2>3, <2>4, <2>5
<1> QED
  BY <1>4, <1>5, <1>6, <1>7, SeqEqual DEF a, b

-----------------------------------------------------------------------------
(* What the calls of PackageTask do to a task.                             *)

\* updateState(): the parts are counted first, and completing them all means success.
LEMMA UpdateStateFacts ==
    ASSUME NEW k \in TaskRecord, NEW refs \in Nat, NEW new \in State
    PROVE  LET u == UpdateState(k, refs, new)
               parts == IF new = "PartCompleted" THEN k.parts + 1 ELSE k.parts
           IN  /\ u \in TaskRecord
               /\ u.parts = parts
               /\ u.state = (IF parts = refs THEN "Succeed" ELSE new)
               /\ u.sub = (IF parts = refs \/ new \in Terminal THEN "AllDone" ELSE k.sub)
               /\ u.flag = k.flag
<1> DEFINE parts == IF new = "PartCompleted" THEN k.parts + 1 ELSE k.parts
           state == IF parts = refs THEN "Succeed" ELSE new
           sub == IF state \in Terminal THEN "AllDone" ELSE k.sub
<1>1. parts \in Nat /\ state \in State /\ sub \in SubState
  BY DEF TaskRecord, State, SubState
<1>2. sub = IF parts = refs \/ new \in Terminal THEN "AllDone" ELSE k.sub
  BY DEF Terminal
<1>3. UpdateState(k, refs, new) = [k EXCEPT !.parts = parts, !.state = state, !.sub = sub]
  BY DEF UpdateState
<1> HIDE DEF parts, state, sub
<1>4. LET u == UpdateState(k, refs, new)
      IN  u \in TaskRecord /\ u.parts = parts /\ u.state = state /\ u.sub = sub /\ u.flag = k.flag
  BY <1>1, <1>3 DEF TaskRecord
<1> QED
  BY <1>2, <1>4 DEF parts, state

\* reportError() marks the task failed and done, and leaves its parts alone.
LEMMA ReportErrorFacts ==
    ASSUME NEW k \in TaskRecord
    PROVE  /\ ReportError(k) \in TaskRecord
           /\ ReportError(k).state = "Failed" /\ ReportError(k).sub = "AllDone"
           /\ ReportError(k).parts = k.parts /\ ReportError(k).flag = k.flag
BY DEF ReportError, TaskRecord, State, SubState

\* updateSubState() changes nothing but the sub-state.
LEMMA UpdateSubStateFacts ==
    ASSUME NEW k \in TaskRecord, NEW sub \in SubState
    PROVE  LET u == UpdateSubState(k, sub)
           IN  /\ u \in TaskRecord
               /\ u.state = k.state /\ u.sub = sub /\ u.parts = k.parts /\ u.flag = k.flag
BY DEF UpdateSubState, TaskRecord

\* Cancel() of a cancelled task does nothing; any other task becomes done.
LEMMA CancelFacts ==
    ASSUME NEW k \in TaskRecord, NEW refs \in Nat
    PROVE  /\ Cancel(k, refs) \in TaskRecord
           /\ Cancel(k, refs).parts = k.parts
           /\ k.state = "Canceled" => Cancel(k, refs) = k
           /\ k.state # "Canceled" =>
                /\ Cancel(k, refs).state = (IF k.parts = refs THEN "Succeed" ELSE "Canceled")
                /\ Cancel(k, refs).sub = "AllDone"
<1>1. "Canceled" \in State /\ "Canceled" # "PartCompleted" /\ "Canceled" \in Terminal
  BY DEF State, Terminal
<1> DEFINE u == UpdateState(k, refs, "Canceled")
<1>2. /\ u \in TaskRecord /\ u.parts = k.parts
      /\ u.state = (IF k.parts = refs THEN "Succeed" ELSE "Canceled")
      /\ u.sub = "AllDone"
  BY <1>1, UpdateStateFacts
<1> HIDE DEF u
<1>3. Cancel(k, refs) = IF k.state = "Canceled" THEN k ELSE [u EXCEPT !.flag = TRUE]
  BY DEF Cancel, u
<1> QED
  BY <1>2, <1>3 DEF TaskRecord

-----------------------------------------------------------------------------
(* The job on top: every step it takes leads to a good point or ends its   *)
(* task well.                                                              *)

\* The task record k may replace the one of the job on top.
Kept(k) ==
    /\ k \in TaskRecord
    /\ GoodTask(Top.task, k)
    /\ Top.task \notin OnlyApp /\ TopTask.state = "Failed" => k.state # "Succeed"

\* The job on top goes on.
Moves ==
    \E f \in Frame, k \in TaskRecord :
        /\ f.task = Top.task
        /\ Kept(k)
        /\ Good(f, k, cutAt[Top.task])
        /\ Goto(f, k)

\* The job on top returns.
Ends ==
    \E k \in TaskRecord :
        /\ Kept(k)
        /\ GoodEnd(Top.task, k.state, cutAt[Top.task])
        /\ Return(k)

\* There is a job on top, its task is registered, and both are as the invariant says.
OnTop ==
    /\ Top \in Frame /\ Top.task \in Task
    /\ TopTask \in TaskRecord
    /\ GoodTask(Top.task, TopTask)
    /\ Good(Top, TopTask, cutAt[Top.task])
    /\ TopKind \in Kinds
    /\ Refs[Top.task] \in Nat \ {0} /\ Upgrades[Top.task] \in Nat
    /\ TopKind = "update" => Refs[Top.task] = Upgrades[Top.task]
    /\ Top.task \in OnlyApp => TopKind = "uab"
    /\ Top.task \in Asks => TopKind \in {"install", "layer", "uab"}

USE DEF Early, Fetching, Terminal

\* Putting a step of the job together.
LEMMA MovesBy ==
    ASSUME NEW f \in Frame, NEW k \in TaskRecord, f.task = Top.task, Kept(k),
           Good(f, k, cutAt[Top.task]), Goto(f, k)
    PROVE  Moves
BY DEF Moves

\* Putting the end of the job together.
LEMMA EndsBy ==
    ASSUME NEW k \in TaskRecord, Kept(k), GoodEnd(Top.task, k.state, cutAt[Top.task]), Return(k)
    PROVE  Ends
BY DEF Ends

\* What updateState() makes of a task that has not completed all its parts.
LEMMA UpdatedFacts ==
    ASSUME OnTop, NEW new \in State \ {"PartCompleted"}, TopTask.parts # Refs[Top.task]
    PROVE  /\ UpdatedState(new) \in TaskRecord
           /\ UpdatedState(new).parts = TopTask.parts
           /\ UpdatedState(new).state = new
           /\ UpdatedState(new).sub = (IF new \in Terminal THEN "AllDone" ELSE TopTask.sub)
BY UpdateStateFacts DEF UpdatedState, OnTop

\* A job that has begun may report an error whenever it likes.
LEMMA ErrorKept ==
    ASSUME OnTop, NEW k \in TaskRecord, k.parts = TopTask.parts
    PROVE  /\ ReportError(k) \in TaskRecord /\ Kept(ReportError(k))
           /\ ReportError(k).state = "Failed" /\ ReportError(k).sub = "AllDone"
           /\ ReportError(k).parts = TopTask.parts
BY ReportErrorFacts DEF Kept, OnTop, GoodTask

\* A job that has begun may also return with an error.
LEMMA ErrorEnds ==
    ASSUME OnTop, NEW k \in TaskRecord, k.parts = TopTask.parts, cutAt[Top.task] \notin Early,
           Return(ReportError(k))
    PROVE  Ends
BY ErrorKept, EndsBy DEF GoodEnd

\* A job that rolls back before it returns.
LEMMA UnwindStep ==
    ASSUME OnTop, NEW k \in TaskRecord, Kept(k), Unwind(k), k.sub = "AllDone",
           TopKind \in {"install", "module", "uninstall"}, cutAt[Top.task] \notin Early,
           cutAt[Top.task] \in Fetching => k.state # "Succeed"
    PROVE  Moves \/ Ends
<1>1. k.state \in Terminal /\ Top.task \notin OnlyApp
  BY DEF Kept, GoodTask, OnTop
<1>2. CASE Return(k)
  BY <1>1, <1>2, EndsBy DEF GoodEnd
<1> DEFINE f == [Top EXCEPT !.pc = "undo", !.then = "return"]
<1>3. CASE Goto(f, k)
  <2>1. f \in Frame /\ f.task = Top.task /\ f.pc = "undo" /\ f.then = "return"
    BY DEF OnTop, Frame, Points, WaitPoints
  <2> HIDE DEF f
  <2>2. Good(f, k, cutAt[Top.task])
    BY <1>1, <2>1 DEF OnTop, Good, PointOfKind, PartsOf, StateOf, CutOf, GoodTask, TopKind
  <2> QED
    BY <1>3, <2>1, <2>2, MovesBy
<1> QED
  BY <1>2, <1>3 DEF Unwind

\* The job is called: it asks its user or begins.
LEMMA AskStep ==
    ASSUME OnTop, Ask
    PROVE  Moves
<1> DEFINE f == [Top EXCEPT !.pc = IF Top.task \in Asks THEN "ask" ELSE "begin"]
<1>1. /\ f \in Frame /\ f.task = Top.task /\ f.ups = Top.ups
      /\ f.pc = IF Top.task \in Asks THEN "ask" ELSE "begin"
  BY DEF OnTop, Frame, Points, WaitPoints
<1>2. Top.pc = "called" /\ Goto(f, TopTask) /\ TopTask \in TaskRecord /\ Kept(TopTask)
  BY DEF Ask, At, Top, OnTop, Kept
<1> HIDE DEF f
<1>3. Good(f, TopTask, cutAt[Top.task])
  BY <1>1, <1>2 DEF OnTop, Good, PointOfKind, PartsOf, StateOf, CutOf, GoodTask
<1> QED
  BY <1>1, <1>2, <1>3, MovesBy

\* A job that finds its task done returns at once.
LEMMA BeginRefusedStep ==
    ASSUME OnTop, BeginRefused
    PROVE  Ends
<1>1. Top.pc = "begin" /\ Return(TopTask) /\ TopTask \in TaskRecord /\ Kept(TopTask)
  BY DEF BeginRefused, At, Top, OnTop, Kept
<1>2. GoodEnd(Top.task, TopTask.state, cutAt[Top.task])
  BY <1>1 DEF OnTop, Good, StateOf, CutOf, GoodTask, GoodEnd, BeginRefused, IsTaskDone
<1> QED
  BY <1>1, <1>2, EndsBy

\* A task that waits has completed nothing, and one that was cancelled waiting is done.
LEMMA BeginFacts ==
    ASSUME OnTop, At("begin"), ~IsTaskDone(TopTask) \/ TopKind \in {"module", "update"}
    PROVE  /\ Top.pc = "begin" /\ TopTask.state = "Queued" /\ TopTask.sub = "Unknown"
           /\ TopTask.parts # Refs[Top.task] /\ cutAt[Top.task] \notin Early
           /\ Top.task \in OnlyApp \/ cutAt[Top.task] \notin Fetching
<1>1. Top.pc = "begin"
  BY DEF At, Top
<1>2. TopTask.state = "Queued" /\ TopTask.sub = "Unknown" /\ TopTask.parts = 0
  BY <1>1 DEF OnTop, Good, StateOf, GoodTask, IsTaskDone
<1>3. /\ cutAt[Top.task] \notin Early
      /\ Top.task \in OnlyApp \/ cutAt[Top.task] \notin Fetching
  BY <1>1, <1>2 DEF OnTop, Good, CutOf
<1> QED
  BY <1>1, <1>2, <1>3 DEF OnTop

\* Install() begins, or does not find the application of its module.
LEMMA BeginInstallStep ==
    ASSUME OnTop, BeginInstall
    PROVE  Moves \/ Ends
<1>1. TopKind \in {"install", "module"} /\ (~IsTaskDone(TopTask) \/ TopKind \in {"module", "update"})
  BY DEF BeginInstall
<1>2. /\ Top.pc = "begin" /\ TopTask.state = "Queued" /\ TopTask.sub = "Unknown"
      /\ TopTask.parts # Refs[Top.task] /\ cutAt[Top.task] \notin Early
      /\ Top.task \in OnlyApp \/ cutAt[Top.task] \notin Fetching
  BY <1>1, BeginFacts DEF BeginInstall
<1> DEFINE f == [Top EXCEPT !.pc = "list"]
           k == UpdatedState("Processing")
<1>3. CASE Goto(f, k)
  <2>1. f \in Frame /\ f.task = Top.task /\ f.ups = Top.ups /\ f.pc = "list"
    BY DEF OnTop, Frame, Points, WaitPoints
  <2>2. k \in TaskRecord /\ k.parts = TopTask.parts /\ k.state = "Processing" /\ k.sub = TopTask.sub
    BY <1>2, UpdatedFacts DEF State
  <2> HIDE DEF f, k
  <2>3. Kept(k)
    BY <1>2, <2>2 DEF Kept, OnTop, GoodTask
  <2>4. Good(f, k, cutAt[Top.task])
    BY <1>1, <1>2, <2>1, <2>2 DEF OnTop, Good, PointOfKind, PartsOf, StateOf, CutOf, GoodTask, TopKind
  <2> QED
    BY <1>3, <2>1, <2>2, <2>3, <2>4, MovesBy
<1>4. CASE TopKind = "module" /\ Return(ReportError(TopTask))
  <2> DEFINE e == ReportError(TopTask)
  <2>1. e \in TaskRecord /\ e.state = "Failed" /\ e.sub = "AllDone" /\ e.parts = TopTask.parts
    BY ReportErrorFacts DEF OnTop
  <2> HIDE DEF e
  <2>2. Kept(e) /\ GoodEnd(Top.task, e.state, cutAt[Top.task])
    BY <1>2, <2>1 DEF Kept, OnTop, GoodTask, GoodEnd
  <2> QED
    BY <1>4, <2>1, <2>2, EndsBy DEF e
<1> QED
  BY <1>3, <1>4 DEF BeginInstall

\* Update() takes the next upgrade, or returns after the last.
LEMMA NextUpgradeStep ==
    ASSUME OnTop, NextUpgrade
    PROVE  Moves \/ Ends
<1>1. /\ TopKind = "update"
      /\ \/ Top.pc = "begin"
         \/ Top.pc = "part"
  BY DEF NextUpgrade, At, Top, OnTop, Good, PointOfKind, TopKind
<1>2. cutAt[Top.task] \notin Early
  BY <1>1 DEF OnTop, Good, CutOf, StateOf, GoodTask
<1>3. CASE Top.ups = 0 \/ TopTask.sub = "AllDone"
  <2>1. Return(TopTask)
    BY <1>3 DEF NextUpgrade
  <2>2. Kept(TopTask) /\ TopTask \in TaskRecord
    BY DEF Kept, OnTop
  <2>3. GoodEnd(Top.task, TopTask.state, cutAt[Top.task])
    BY <1>1, <1>2, <1>3 DEF OnTop, Good, PointOfKind, PartsOf, StateOf, CutOf, GoodTask, GoodEnd, TopKind,
      TaskRecord
  <2> QED
    BY <2>1, <2>2, <2>3, EndsBy
<1>4. CASE ~(Top.ups = 0 \/ TopTask.sub = "AllDone")
  <2> DEFINE f == [Top EXCEPT !.pc = "list", !.ups = @ - 1]
             k == UpdatedState("Processing")
  <2>1. Goto(f, k)
    BY <1>4 DEF NextUpgrade
  <2>2. Top.ups \in Nat \ {0} /\ Top.ups - 1 \in Nat
    BY <1>4 DEF OnTop, Frame
  <2>3. f \in Frame /\ f.task = Top.task /\ f.ups = Top.ups - 1 /\ f.pc = "list"
    BY <2>2 DEF OnTop, Frame, Points, WaitPoints
  <2>4. TopTask.parts # Refs[Top.task]
    BY <1>1, <1>4, <2>2 DEF OnTop, Good, PartsOf, TopKind, TaskRecord
  <2>5. k \in TaskRecord /\ k.parts = TopTask.parts /\ k.state = "Processing" /\ k.sub = TopTask.sub
    BY <2>4, UpdatedFacts DEF State
  <2> HIDE DEF f, k
  <2>6. Kept(k)
    BY <1>1, <1>4, <2>5 DEF Kept, OnTop, GoodTask
  <2>7. Good(f, k, cutAt[Top.task])
    BY <1>1, <1>2, <1>4, <2>2, <2>3, <2>4, <2>5 DEF OnTop, Good, PointOfKind, PartsOf, StateOf, CutOf, GoodTask, TaskRecord, TopKind
  <2> QED
    BY <2>1, <2>3, <2>5, <2>6, <2>7, MovesBy
<1> QED
  BY <1>3, <1>4

\* Uninstall() from its beginning to its end.
LEMMA UninstallStep ==
    ASSUME OnTop, UninstallJob
    PROVE  Moves \/ Ends
<1>1. /\ TopKind = "uninstall" /\ Top.pc = "begin" /\ TopTask.state = "Queued"
      /\ TopTask.parts = 0 /\ TopTask.parts # Refs[Top.task] /\ cutAt[Top.task] \notin Early \cup Fetching
  BY BeginFacts DEF UninstallJob, OnTop, GoodTask, TopKind
<1> DEFINE p == UpdatedState("Processing")
           u == UpdateSubState(p, "Uninstall")
           k == UpdateState(u, Refs[Top.task], "Succeed")
<1>2. p \in TaskRecord /\ p.parts = TopTask.parts /\ p.state = "Processing" /\ p.sub = TopTask.sub
  BY <1>1, UpdatedFacts DEF State
<1> HIDE DEF p
<1>3. CASE Return(k)
  <2>1. u \in TaskRecord /\ u.parts = 0
    BY <1>1, <1>2, UpdateSubStateFacts DEF SubState
  <2> HIDE DEF u
  <2>2. k \in TaskRecord /\ k.parts = 0 /\ k.state = "Succeed" /\ k.sub = "AllDone"
    <3>1. Refs[Top.task] \in Nat /\ "Succeed" \in State /\ "Succeed" # "PartCompleted"
      BY DEF OnTop, State
    <3> QED
      BY <2>1, <3>1, UpdateStateFacts
  <2> HIDE DEF k
  <2>3. Kept(k) /\ GoodEnd(Top.task, k.state, cutAt[Top.task])
    BY <1>1, <2>2 DEF Kept, GoodTask, GoodEnd
  <2> QED
    BY <1>3, <2>2, <2>3, EndsBy
<1>4. CASE Unwind(ReportError(p))
  BY <1>1, <1>2, <1>4, ErrorKept, UnwindStep
<1> QED
  BY <1>3, <1>4 DEF UninstallJob, p, u, k

\* A layer or bundle installer begins.
LEMMA BeginFileStep ==
    ASSUME OnTop, BeginFile
    PROVE  Moves \/ Ends
<1>1. /\ TopKind \in {"layer", "uab"} /\ Top.pc = "begin" /\ TopTask.state = "Queued"
      /\ TopTask.parts = 0 /\ TopTask.parts # Refs[Top.task] /\ cutAt[Top.task] \notin Early
      /\ Top.task \in OnlyApp \/ cutAt[Top.task] \notin Fetching
  BY BeginFacts DEF BeginFile, OnTop, GoodTask, TopKind
<1> DEFINE p == UpdatedState("Processing")
           k == UpdateSubState(p, "PreAction")
<1>2. p \in TaskRecord /\ p.parts = TopTask.parts /\ p.state = "Processing"
  BY <1>1, UpdatedFacts DEF State
<1> HIDE DEF p
<1>3. k \in TaskRecord /\ k.parts = 0 /\ k.state = "Processing" /\ k.sub = "PreAction"
  BY <1>1, <1>2, UpdateSubStateFacts DEF SubState
<1> HIDE DEF k
<1>4. Kept(k)
  BY <1>1, <1>3 DEF Kept, GoodTask
<1>5. CASE Return(ReportError(k))
  BY <1>1, <1>3, <1>5, ErrorEnds
<1>6. ASSUME NEW dep \in {"runtime", "base"}, TopKind = "layer" \/ Top.task \in OnlyApp,
             Goto([Top EXCEPT !.pc = "depList", !.dep = dep], k)
      PROVE  Moves
  <2> DEFINE f == [Top EXCEPT !.pc = "depList", !.dep = dep]
  <2>1. f \in Frame /\ f.task = Top.task /\ f.pc = "depList"
    BY DEF OnTop, Frame, Points, WaitPoints
  <2> HIDE DEF f
  <2>2. Good(f, k, cutAt[Top.task])
    BY <1>1, <1>3, <1>6, <2>1 DEF OnTop, Good, PointOfKind, PartsOf, StateOf, CutOf, GoodTask, TopKind
  <2> QED
    BY <1>3, <1>4, <1>6, <2>1, <2>2, MovesBy DEF f
<1>7. CASE Goto([Top EXCEPT !.pc = "import"], k)
  <2> DEFINE f == [Top EXCEPT !.pc = "import"]
  <2>1. f \in Frame /\ f.task = Top.task /\ f.pc = "import"
    BY DEF OnTop, Frame, Points, WaitPoints
  <2> HIDE DEF f
  <2>2. Good(f, k, cutAt[Top.task])
    BY <1>1, <1>3, <2>1 DEF OnTop, Good, PointOfKind, PartsOf, StateOf, CutOf, GoodTask, TopKind
  <2> QED
    BY <1>3, <1>4, <1>7, <2>1, <2>2, MovesBy DEF f
<1> QED
  BY <1>5, <1>6, <1>7 DEF BeginFile, k, p

\* The remote does not answer.
LEMMA ListFailsStep ==
    ASSUME OnTop, ListFails
    PROVE  Moves \/ Ends
<1>1. Top.pc = "list" /\ cutAt[Top.task] \notin Early \cup Fetching /\ Top.task \notin OnlyApp
  BY DEF ListFails, At, Top, OnTop, Good, PointOfKind, CutOf, TopKind
<1> DEFINE e == ReportError(TopTask)
           f == [Top EXCEPT !.pc = "part"]
<1>2. /\ e \in TaskRecord /\ Kept(e) /\ e.state = "Failed" /\ e.sub = "AllDone"
      /\ e.parts = TopTask.parts
  BY ErrorKept DEF OnTop
<1>3. CASE TopKind = "update"
  <2>1. f \in Frame /\ f.task = Top.task /\ f.pc = "part" /\ f.ups = Top.ups
    BY DEF OnTop, Frame, Points, WaitPoints
  <2>2. Goto(f, e)
    BY <1>3 DEF ListFails
  <2> HIDE DEF e, f
  <2>3. Good(f, e, cutAt[Top.task])
    BY <1>1, <1>2, <1>3, <2>1 DEF OnTop, Good, PointOfKind, PartsOf, StateOf, CutOf, GoodTask, TopKind
  <2> QED
    BY <1>2, <2>1, <2>2, <2>3, MovesBy
<1>4. CASE TopKind # "update"
  BY <1>1, <1>4, ErrorEnds DEF ListFails, OnTop
<1> QED
  BY <1>3, <1>4

\* The remote answers and the first module is fetched.
LEMMA ListAnswersStep ==
    ASSUME OnTop, ListAnswers
    PROVE  Moves
<1>1. /\ Top.pc = "list" /\ cutAt[Top.task] \notin Early \cup Fetching /\ Top.task \notin OnlyApp
      /\ TopTask.state \in {"Processing", "Canceled"} /\ TopTask.parts # Refs[Top.task]
      /\ TopTask.state = "Canceled" => cutAt[Top.task] # "none"
  BY DEF ListAnswers, At, Top, OnTop, Good, PointOfKind, PartsOf, StateOf, CutOf, GoodTask, TopKind
<1> DEFINE k == UpdateSubState(TopTask, "InstallApplication")
<1>2. /\ k \in TaskRecord /\ k.parts = TopTask.parts /\ k.state = TopTask.state
      /\ k.sub = "InstallApplication"
  BY UpdateSubStateFacts DEF SubState, OnTop
<1> HIDE DEF k
<1>3. Kept(k)
  BY <1>1, <1>2 DEF Kept, OnTop, GoodTask
<1>4. ASSUME Goto([Top EXCEPT !.pc = "installed"], k)
      PROVE  Moves
  <2> DEFINE f == [Top EXCEPT !.pc = "installed"]
  <2>1. f \in Frame /\ f.task = Top.task /\ f.pc = "installed" /\ f.ups = Top.ups
    BY DEF OnTop, Frame, Points, WaitPoints
  <2> HIDE DEF f
  <2>2. Good(f, k, cutAt[Top.task])
    BY <1>1, <1>2, <2>1 DEF OnTop, Good, PointOfKind, PartsOf, StateOf, CutOf, GoodTask, TopKind
  <2> QED
    BY <1>2, <1>3, <1>4, <2>1, <2>2, MovesBy DEF f
<1>5. ASSUME NEW n \in Nat, Goto([Top EXCEPT !.pc = "fetch", !.mods = n, !.doomed = k.flag], k)
      PROVE  Moves
  <2> DEFINE f == [Top EXCEPT !.pc = "fetch", !.mods = n, !.doomed = k.flag]
  <2>1. f \in Frame
    BY <1>2 DEF TaskRecord, OnTop, Frame, Points, WaitPoints
  <2>2. f.task = Top.task /\ f.pc = "fetch" /\ f.ups = Top.ups
    BY DEF OnTop, Frame, Points, WaitPoints
  <2> HIDE DEF f
  <2>3. Good(f, k, cutAt[Top.task])
    BY <1>1, <1>2, <2>2 DEF OnTop, Good, PointOfKind, PartsOf, StateOf, CutOf, GoodTask, TopKind
  <2> QED
    BY <1>2, <1>3, <1>5, <2>1, <2>2, <2>3, MovesBy DEF f
<1>6. PICK n \in 0..MaxModules :
        IF n = 0
        THEN Goto([Top EXCEPT !.pc = "installed"], k)
        ELSE Goto([Top EXCEPT !.pc = "fetch", !.mods = n, !.doomed = k.flag], k)
  BY DEF ListAnswers, k
<1>7. n \in Nat
  BY TaskAssumption
<1> QED
  BY <1>4, <1>5, <1>6, <1>7

-----------------------------------------------------------------------------
(* While the job fetches.                                                  *)

\* A task record a fetching job may go on with: a cancellation has made it AllDone, the
\* tasks excepted whose job does not look.
Fetched(k) ==
    /\ k.parts = TopTask.parts
    /\ k.state # "Queued" /\ k.sub # "PackageManagerDone"
    /\ Top.task \notin OnlyApp => k.state \in {"Processing", "Canceled", "Failed"}
    /\ k.state = "Canceled" /\ cutAt[Top.task] = "none" => k.sub = "AllDone"
    /\ cutAt[Top.task] \in Fetching /\ Top.task \notin OnlyApp =>
         k.sub = "AllDone" /\ k.state \in {"Canceled", "Failed"}

\* The records FetchEnds and its like go on with.
LEMMA FetchedFacts ==
    ASSUME OnTop, Top.pc \in Fetching
    PROVE  /\ cutAt[Top.task] \notin Early
           /\ TopTask.parts # Refs[Top.task]
           /\ Kept(TopTask) /\ Fetched(TopTask)
           /\ ReportError(TopTask) \in TaskRecord
           /\ Kept(ReportError(TopTask)) /\ Fetched(ReportError(TopTask))
           /\ UpdatedState("Failed") \in TaskRecord
           /\ Kept(UpdatedState("Failed")) /\ Fetched(UpdatedState("Failed"))
<1>1. cutAt[Top.task] \notin Early /\ TopTask.parts # Refs[Top.task]
  BY DEF OnTop, Good, PointOfKind, PartsOf, StateOf, CutOf, GoodTask, TopKind
<1>2. Kept(TopTask)
  BY DEF Kept, OnTop
<1>3. Fetched(TopTask)
  BY DEF Fetched, OnTop, Good, PointOfKind, PartsOf, StateOf, CutOf, GoodTask, TopKind
<1>4. /\ ReportError(TopTask) \in TaskRecord /\ Kept(ReportError(TopTask))
      /\ ReportError(TopTask).state = "Failed" /\ ReportError(TopTask).sub = "AllDone"
      /\ ReportError(TopTask).parts = TopTask.parts
  BY ErrorKept DEF OnTop
<1>5. Fetched(ReportError(TopTask))
  BY <1>4 DEF Fetched
<1> DEFINE u == UpdatedState("Failed")
<1>6. u \in TaskRecord /\ u.parts = TopTask.parts /\ u.state = "Failed" /\ u.sub = "AllDone"
  BY <1>1, UpdatedFacts DEF State
<1> HIDE DEF u
<1>7. Kept(u) /\ Fetched(u)
  BY <1>6 DEF Kept, Fetched, GoodTask, OnTop
<1> QED
  BY <1>1, <1>2, <1>3, <1>4, <1>5, <1>6, <1>7 DEF u

\* After one module: the next, or the end of InstallRef().
LEMMA AfterModuleStep ==
    ASSUME OnTop, Top.pc \in Fetching, TopKind \in {"install", "module", "update"},
           NEW k \in TaskRecord, Kept(k), Fetched(k), AfterModule(k)
    PROVE  Moves
<1>1. Top.task \notin OnlyApp /\ cutAt[Top.task] \notin Early
  BY FetchedFacts DEF OnTop
<1>2. CASE Top.mods <= 1 \/ IsTaskDone(k)
  <2> DEFINE f == [Top EXCEPT !.pc = "installed", !.mods = 0]
  <2>1. f \in Frame /\ f.task = Top.task /\ f.pc = "installed" /\ f.ups = Top.ups
    BY DEF OnTop, Frame, Points, WaitPoints
  <2>2. Goto(f, k)
    BY <1>2 DEF AfterModule
  <2> HIDE DEF f
  <2>3. Good(f, k, cutAt[Top.task])
    BY <1>1, <2>1 DEF Fetched, OnTop, Good, PointOfKind, PartsOf, StateOf, CutOf, GoodTask, TopKind
  <2> QED
    BY <2>1, <2>2, <2>3, MovesBy
<1>3. CASE ~(Top.mods <= 1 \/ IsTaskDone(k))
  <2> DEFINE f == [Top EXCEPT !.pc = "fetch", !.mods = @ - 1, !.doomed = k.flag]
  <2>1. Top.mods - 1 \in Nat /\ k.flag \in BOOLEAN
    BY <1>3 DEF OnTop, Frame, TaskRecord
  <2>2. f \in Frame
    BY <2>1 DEF OnTop, Frame, Points, WaitPoints
  <2>3. f.task = Top.task /\ f.pc = "fetch" /\ f.ups = Top.ups
    BY DEF OnTop, Frame, Points, WaitPoints
  <2>4. Goto(f, k)
    BY <1>3 DEF AfterModule
  <2> HIDE DEF f
  <2>5. Good(f, k, cutAt[Top.task])
    BY <1>1, <1>3, <2>3 DEF Fetched, IsTaskDone, Kept, OnTop, Good, PointOfKind, PartsOf, StateOf, CutOf, GoodTask, TopKind
  <2> QED
    BY <2>2, <2>3, <2>4, <2>5, MovesBy
<1> QED
  BY <1>2, <1>3

\* After pullDependency(), whatever it returned.
LEMMA AfterDependenciesStep ==
    ASSUME OnTop, Top.pc \in {"depList", "depFetch"},
           NEW k \in TaskRecord, Kept(k), Fetched(k), AfterDependencies(k)
    PROVE  Moves \/ Ends
<1>1. cutAt[Top.task] \notin Early
  BY FetchedFacts
<1>2. \/ TopKind \in {"install", "module", "update"}
      \/ TopKind = "layer" /\ Top.task \notin OnlyApp
      \/ TopKind = "uab" /\ Top.task \in OnlyApp
  BY DEF OnTop, Good, PointOfKind, TopKind
<1>3. CASE TopKind \in {"install", "module", "update"}
  BY <1>3, AfterModuleStep DEF AfterDependencies
<1>4. CASE TopKind = "layer" /\ IsTaskDone(k)
  <2>1. Return(k)
    BY <1>4 DEF AfterDependencies
  <2>2. GoodEnd(Top.task, k.state, cutAt[Top.task])
    BY <1>1, <1>4 DEF GoodEnd, Kept, Fetched, GoodTask, IsTaskDone
  <2> QED
    BY <2>1, <2>2, EndsBy
<1>5. CASE \/ TopKind = "layer" /\ ~IsTaskDone(k)
           \/ TopKind = "uab"
  <2> DEFINE f == [Top EXCEPT !.pc = "import"]
  <2>1. f \in Frame /\ f.task = Top.task /\ f.pc = "import"
    BY DEF OnTop, Frame, Points, WaitPoints
  <2>2. Goto(f, k)
    BY <1>5 DEF AfterDependencies
  <2> HIDE DEF f
  <2>3. Good(f, k, cutAt[Top.task])
    BY <1>1, <1>2, <1>5, <2>1 DEF Kept, Fetched, IsTaskDone, OnTop, Good, PointOfKind, PartsOf, StateOf, CutOf, GoodTask, TopKind
  <2> QED
    BY <2>1, <2>2, <2>3, MovesBy
<1> QED
  BY <1>2, <1>3, <1>4, <1>5

\* The job looks for a dependency.
LEMMA DepListStep ==
    ASSUME OnTop, Top.pc \in Fetching, NEW dep \in {"runtime", "base"},
           TopKind \in {"install", "module", "update", "layer"} \/ Top.task \in OnlyApp,
           Goto([Top EXCEPT !.pc = "depList", !.dep = dep], TopTask)
    PROVE  Moves
<1> DEFINE f == [Top EXCEPT !.pc = "depList", !.dep = dep]
<1>1. f \in Frame /\ f.task = Top.task /\ f.pc = "depList" /\ f.ups = Top.ups
  BY DEF OnTop, Frame, Points, WaitPoints
<1> HIDE DEF f
<1>2. Good(f, TopTask, cutAt[Top.task])
  BY <1>1 DEF OnTop, Good, PointOfKind, PartsOf, StateOf, CutOf, GoodTask, TopKind
<1> QED
  BY <1>1, <1>2, FetchedFacts, MovesBy DEF f, OnTop

\* After one dependency: the next, or the end of pullDependency().
LEMMA NextDependencyStep ==
    ASSUME OnTop, Top.pc \in {"depList", "depFetch"}, NextDependency(TopTask)
    PROVE  Moves \/ Ends
<1>1. TopKind \in {"install", "module", "update", "layer"} \/ Top.task \in OnlyApp
  BY DEF OnTop, Good, PointOfKind, TopKind
<1>2. Kept(TopTask) /\ Fetched(TopTask) /\ TopTask \in TaskRecord
  BY FetchedFacts DEF OnTop
<1> QED
  BY <1>1, <1>2, DepListStep, AfterDependenciesStep DEF NextDependency

\* The pull of a module ends.
LEMMA FetchStep ==
    ASSUME OnTop, FetchFails \/ FetchEnds
    PROVE  Moves
<1>1. Top.pc = "fetch" /\ TopKind \in {"install", "module", "update"}
  BY DEF FetchFails, FetchEnds, At, Top, OnTop, Good, PointOfKind, TopKind
<1>2. CASE FetchFails
  <2> DEFINE f == [Top EXCEPT !.pc = "installed", !.mods = 0]
             e == ReportError(TopTask)
  <2>1. f \in Frame /\ f.task = Top.task /\ f.pc = "installed" /\ f.ups = Top.ups
    BY DEF OnTop, Frame, Points, WaitPoints
  <2>2. Goto(f, e)
    BY <1>2 DEF FetchFails
  <2>3. Kept(e) /\ Fetched(e) /\ e \in TaskRecord /\ cutAt[Top.task] \notin Early
    BY <1>1, FetchedFacts
  <2> HIDE DEF f, e
  <2>4. Good(f, e, cutAt[Top.task])
    BY <1>1, <2>1, <2>3 DEF Fetched, OnTop, Good, PointOfKind, PartsOf, StateOf, CutOf, GoodTask, TopKind
  <2> QED
    BY <2>1, <2>2, <2>3, <2>4, MovesBy
<1>3. CASE FetchEnds
  <2>1. \/ AfterModule(TopTask)
        \/ AfterModule(UpdatedState("Failed"))
        \/ \E dep \in {"runtime", "base"} : Goto([Top EXCEPT !.pc = "depList", !.dep = dep], TopTask)
    BY <1>3 DEF FetchEnds
  <2>2. /\ TopTask \in TaskRecord /\ Kept(TopTask) /\ Fetched(TopTask)
        /\ UpdatedState("Failed") \in TaskRecord
        /\ Kept(UpdatedState("Failed")) /\ Fetched(UpdatedState("Failed"))
    BY <1>1, FetchedFacts DEF OnTop
  <2> QED
    BY <1>1, <2>1, <2>2, AfterModuleStep, DepListStep
<1> QED
  BY <1>2, <1>3

\* Every step of pullDependency().
LEMMA DependencyStep ==
    ASSUME OnTop,
           \/ DependencyUnknown
           \/ DependencyPresent
           \/ DependencyMissing
           \/ DepFetchFails
           \/ DepFetchEnds
    PROVE  Moves \/ Ends
<1>1. Top.pc \in {"depList", "depFetch"}
  BY DEF DependencyUnknown, DependencyPresent, DependencyMissing, DepFetchFails, DepFetchEnds, At, Top
<1>2. /\ TopTask \in TaskRecord /\ Kept(TopTask) /\ Fetched(TopTask)
      /\ UpdatedState("Failed") \in TaskRecord
      /\ Kept(UpdatedState("Failed")) /\ Fetched(UpdatedState("Failed"))
      /\ ReportError(TopTask) \in TaskRecord
      /\ Kept(ReportError(TopTask)) /\ Fetched(ReportError(TopTask))
  BY <1>1, FetchedFacts DEF OnTop
<1>3. CASE DependencyUnknown
  BY <1>1, <1>2, <1>3, AfterDependenciesStep DEF DependencyUnknown
<1>4. CASE DependencyPresent
  BY <1>1, <1>4, NextDependencyStep DEF DependencyPresent
<1>5. CASE DependencyMissing
  <2>1. CASE IsTaskDone(TopTask)
    BY <1>1, <1>2, <1>5, <2>1, AfterDependenciesStep DEF DependencyMissing
  <2>2. CASE ~IsTaskDone(TopTask)
    <3> DEFINE f == [Top EXCEPT !.pc = "depFetch", !.doomed = TopTask.flag]
               sub == IF Top.dep = "runtime" THEN "InstallRuntime" ELSE "InstallBase"
               k == UpdateSubState(TopTask, sub)
    <3>1. Goto(f, k)
      BY <1>5, <2>2 DEF DependencyMissing
    <3>2. f \in Frame
      BY DEF TaskRecord, OnTop, Frame, Points, WaitPoints
    <3>3. f.task = Top.task /\ f.pc = "depFetch" /\ f.ups = Top.ups
      BY DEF OnTop, Frame, Points, WaitPoints
    <3>4. sub \in SubState /\ sub # "AllDone" /\ sub # "PackageManagerDone" /\ sub # "Unknown"
      BY DEF SubState
    <3> HIDE DEF f, sub
    <3>5. k \in TaskRecord /\ k.parts = TopTask.parts /\ k.state = TopTask.state /\ k.sub = sub
      BY <3>4, UpdateSubStateFacts DEF OnTop
    <3> HIDE DEF k
    <3>6. TopTask.state # "Failed" /\ TopTask.state # "Queued" /\ TopTask.sub # "AllDone"
      BY <1>1, <2>2 DEF OnTop, Good, StateOf, GoodTask, IsTaskDone
    <3>7. Kept(k)
      BY <3>4, <3>5, <3>6 DEF Kept, OnTop, GoodTask
    <3>8. Good(f, k, cutAt[Top.task])
      BY <1>1, <3>3, <3>4, <3>5, <3>6 DEF OnTop, Good, PointOfKind, PartsOf, StateOf, CutOf, GoodTask, TopKind
    <3> QED
      BY <3>1, <3>2, <3>3, <3>5, <3>7, <3>8, MovesBy
  <2> QED
    BY <2>1, <2>2
<1>6. CASE DepFetchFails
  BY <1>1, <1>2, <1>6, AfterDependenciesStep DEF DepFetchFails
<1>7. CASE DepFetchEnds
  BY <1>1, <1>2, <1>7, AfterDependenciesStep, NextDependencyStep DEF DepFetchEnds
<1> QED
  BY <1>3, <1>4, <1>5, <1>6, <1>7

-----------------------------------------------------------------------------
(* After the fetching.                                                     *)

\* Install() after InstallRef().
LEMMA InstalledStep ==
    ASSUME OnTop, Installed
    PROVE  Moves \/ Ends
<1>1. /\ Top.pc = "installed" /\ TopKind \in {"install", "module"} /\ Top.task \notin OnlyApp
      /\ TopTask.parts = 0 /\ Refs[Top.task] # 0 /\ cutAt[Top.task] \notin Early
      /\ TopTask.sub # "PackageManagerDone" /\ TopTask.state # "Queued"
  BY DEF Installed, At, Top, OnTop, Good, PointOfKind, PartsOf, StateOf, CutOf, GoodTask, TopKind
<1>2. CASE IsTaskDone(TopTask)
  <2>1. Unwind(TopTask) /\ TopTask.sub = "AllDone" /\ Kept(TopTask) /\ TopTask \in TaskRecord
    BY <1>1, <1>2 DEF Installed, IsTaskDone, Kept, OnTop
  <2>2. cutAt[Top.task] \in Fetching => TopTask.state # "Succeed"
    BY <1>1 DEF OnTop, Good, CutOf
  <2> QED
    BY <1>1, <2>1, <2>2, UnwindStep
<1>3. CASE ~IsTaskDone(TopTask)
  <2>1. cutAt[Top.task] \notin Fetching /\ TopTask.state # "Failed"
    BY <1>1, <1>3 DEF OnTop, Good, CutOf, GoodTask, IsTaskDone
  <2> DEFINE k == UpdateSubState(TopTask, "PostAction")
             r == UpdateState(k, Refs[Top.task], "Succeed")
             f == [Top EXCEPT !.pc = "undo", !.then = "failed"]
  <2>2. k \in TaskRecord /\ k.parts = 0 /\ k.state = TopTask.state /\ k.sub = "PostAction"
    BY <1>1, UpdateSubStateFacts DEF OnTop, SubState
  <2> HIDE DEF k
  <2>3. CASE Return(r)
    <3>1. Refs[Top.task] \in Nat /\ "Succeed" \in State /\ "Succeed" # "PartCompleted"
      BY DEF OnTop, State
    <3>2. r \in TaskRecord /\ r.parts = 0 /\ r.state = "Succeed" /\ r.sub = "AllDone"
      BY <2>2, <3>1, UpdateStateFacts
    <3> HIDE DEF r
    <3>3. Kept(r) /\ GoodEnd(Top.task, r.state, cutAt[Top.task])
      BY <1>1, <2>1, <3>2 DEF Kept, GoodTask, GoodEnd
    <3> QED
      BY <2>3, <3>2, <3>3, EndsBy
  <2>4. CASE Unwind(ReportError(k))
    BY <1>1, <2>1, <2>2, <2>4, ErrorKept, UnwindStep
  <2>5. CASE Goto(f, k)
    <3>1. f \in Frame /\ f.task = Top.task /\ f.pc = "undo" /\ f.then = "failed"
      BY DEF OnTop, Frame, Points, WaitPoints
    <3> HIDE DEF f
    <3>2. Kept(k) /\ Good(f, k, cutAt[Top.task])
      BY <1>1, <2>1, <2>2, <3>1 DEF Kept, OnTop, Good, PointOfKind, PartsOf, StateOf, CutOf, GoodTask, TopKind
    <3> QED
      BY <2>2, <2>5, <3>1, <3>2, MovesBy
  <2> QED
    BY <1>3, <2>3, <2>4, <2>5 DEF Installed, k, r, f
<1> QED
  BY <1>2, <1>3

\* Update() after InstallRef().
LEMMA UpgradedStep ==
    ASSUME OnTop, Upgraded
    PROVE  Moves
<1>1. /\ Top.pc = "installed" /\ TopKind = "update" /\ Top.task \notin OnlyApp
      /\ TopTask.parts + Top.ups + 1 = Upgrades[Top.task] /\ Refs[Top.task] = Upgrades[Top.task]
      /\ cutAt[Top.task] \notin Early
      /\ TopTask.sub # "PackageManagerDone" /\ TopTask.state # "Queued"
  BY DEF Upgraded, At, Top, OnTop, Good, PointOfKind, PartsOf, StateOf, CutOf, GoodTask, TopKind
<1> DEFINE f == [Top EXCEPT !.pc = "part"]
           g == [Top EXCEPT !.pc = "undo", !.then = "part"]
<1>2. f \in Frame /\ f.task = Top.task /\ f.pc = "part" /\ f.ups = Top.ups
  BY DEF OnTop, Frame, Points, WaitPoints
<1>3. /\ g \in Frame /\ g.task = Top.task /\ g.pc = "undo" /\ g.then = "part"
      /\ g.ups = Top.ups
  BY DEF OnTop, Frame, Points, WaitPoints
<1> HIDE DEF f, g
<1>4. CASE IsTaskDone(TopTask)
  <2>1. Goto(f, TopTask) /\ Kept(TopTask) /\ TopTask \in TaskRecord /\ TopTask.sub = "AllDone"
    BY <1>1, <1>4 DEF Upgraded, IsTaskDone, Kept, OnTop, f
  <2>2. Good(f, TopTask, cutAt[Top.task])
    BY <1>1, <1>2, <2>1 DEF OnTop, Good, PointOfKind, PartsOf, StateOf, CutOf, GoodTask, TopKind
  <2> QED
    BY <1>2, <2>1, <2>2, MovesBy
<1>5. CASE ~IsTaskDone(TopTask)
  <2>1. cutAt[Top.task] \notin Fetching /\ TopTask.state # "Failed" /\ TopTask.sub # "AllDone"
    BY <1>1, <1>5 DEF OnTop, Good, CutOf, GoodTask, IsTaskDone
  <2> DEFINE part == UpdatedState("PartCompleted")
             done == UpdateSubState(part, "PackageManagerDone")
  <2>2. /\ part \in TaskRecord /\ part.parts = TopTask.parts + 1
        /\ part.state \in {"Succeed", "PartCompleted"}
        /\ part.parts = Refs[Top.task] => part.state = "Succeed"
        /\ part.sub = IF part.state = "Succeed" THEN "AllDone" ELSE TopTask.sub
    <3>1. Refs[Top.task] \in Nat /\ "PartCompleted" \in State /\ TopTask \in TaskRecord
      BY DEF OnTop, State
    <3> QED
      BY <3>1, UpdateStateFacts DEF UpdatedState
  <2> HIDE DEF part
  <2>3. /\ done \in TaskRecord /\ done.parts = part.parts /\ done.state = part.state
        /\ done.sub = "PackageManagerDone"
    BY <2>2, UpdateSubStateFacts DEF SubState
  <2> HIDE DEF done
  <2>4. PICK k \in {part, done} :
          \/ Goto(f, k)
          \/ Goto(f, ReportError(k))
          \/ Goto(g, k)
    BY <1>5 DEF Upgraded, part, done, f, g
  <2>5. /\ k \in TaskRecord /\ k.parts = TopTask.parts + 1 /\ k.parts + Top.ups = Upgrades[Top.task]
        /\ k.state \in {"Succeed", "PartCompleted"}
        /\ k.parts = Refs[Top.task] => k.state = "Succeed"
        /\ k.sub = "AllDone" => k.state = "Succeed"
    BY <1>1, <2>1, <2>2, <2>3 DEF OnTop, TaskRecord, Frame
  <2>6. Kept(k)
    BY <1>1, <2>1, <2>5 DEF Kept, GoodTask, TopKind
  <2>7. Good(f, k, cutAt[Top.task]) /\ Good(g, k, cutAt[Top.task])
    BY <1>1, <1>2, <1>3, <2>1, <2>5 DEF OnTop, Good, PointOfKind, PartsOf, StateOf, CutOf, GoodTask, TopKind
  <2> DEFINE e == ReportError(k)
  <2>8. e \in TaskRecord /\ e.state = "Failed" /\ e.sub = "AllDone" /\ e.parts = k.parts
    BY <2>5, ReportErrorFacts
  <2> HIDE DEF e
  <2>9. Kept(e) /\ Good(f, e, cutAt[Top.task])
    BY <1>1, <1>2, <2>1, <2>5, <2>8 DEF Kept, OnTop, Good, PointOfKind, PartsOf, StateOf, CutOf, GoodTask, TopKind
  <2> QED
    BY <1>2, <1>3, <2>4, <2>5, <2>6, <2>7, <2>8, <2>9, MovesBy DEF e
<1> QED
  BY <1>4, <1>5

\* The end of an import: the hooks, at once or after a rollback.
LEMMA HooksNext ==
    ASSUME OnTop, NEW k \in TaskRecord, Kept(k), TopKind \in {"layer", "uab"},
           cutAt[Top.task] \notin Early,
           Top.task \in OnlyApp \/ (cutAt[Top.task] \notin Fetching /\ k.state # "Failed"),
           k.state # "Queued", k.sub # "PackageManagerDone",
           TopKind = "layer" => k.state \in Terminal,
           \/ Goto([Top EXCEPT !.pc = "hooks"], k)
           \/ Goto([Top EXCEPT !.pc = "undo", !.then = "hooks"], k)
    PROVE  Moves
<1> DEFINE f == [Top EXCEPT !.pc = "hooks"]
           g == [Top EXCEPT !.pc = "undo", !.then = "hooks"]
<1>1. f \in Frame /\ f.task = Top.task /\ f.pc = "hooks"
  BY DEF OnTop, Frame, Points, WaitPoints
<1>2. g \in Frame /\ g.task = Top.task /\ g.pc = "undo" /\ g.then = "hooks"
  BY DEF OnTop, Frame, Points, WaitPoints
<1> HIDE DEF f, g
<1>3. Good(f, k, cutAt[Top.task]) /\ Good(g, k, cutAt[Top.task])
  BY <1>1, <1>2 DEF OnTop, Good, PointOfKind, PartsOf, StateOf, CutOf, GoodTask, TopKind
<1> QED
  BY <1>1, <1>2, <1>3, MovesBy DEF f, g

\* A layer or bundle enters the repository.
LEMMA ImportStep ==
    ASSUME OnTop, ImportLayer \/ ImportBundle
    PROVE  Moves \/ Ends
<1>1. /\ Top.pc = "import" /\ TopKind \in {"layer", "uab"} /\ cutAt[Top.task] \notin Early
      /\ Top.task \in OnlyApp \/ (cutAt[Top.task] \notin Fetching /\ TopTask.state # "Failed")
      /\ TopTask.state # "Queued" /\ TopTask.sub # "PackageManagerDone"
      /\ TopTask.parts = 0 /\ TopTask.parts # Refs[Top.task]
      /\ TopTask \in TaskRecord /\ Kept(TopTask)
  BY DEF ImportLayer, ImportBundle, At, Top, Kept, OnTop, Good, PointOfKind, PartsOf, StateOf, CutOf, GoodTask, TopKind
<1>2. CASE Return(ReportError(TopTask))
  BY <1>1, <1>2, ErrorEnds
<1>3. CASE ImportLayer /\ ~Return(ReportError(TopTask))
  <2> DEFINE u == UpdatedState("Succeed")
  <2>1. u \in TaskRecord /\ u.parts = 0 /\ u.state = "Succeed" /\ u.sub = "AllDone"
    BY <1>1, UpdatedFacts DEF State
  <2>2. TopKind = "layer" /\ Top.task \notin OnlyApp
    BY <1>3 DEF ImportLayer, OnTop
  <2>3. \/ Goto([Top EXCEPT !.pc = "hooks"], u)
        \/ Goto([Top EXCEPT !.pc = "undo", !.then = "hooks"], u)
    BY <1>3 DEF ImportLayer
  <2> HIDE DEF u
  <2>4. Kept(u)
    BY <1>1, <2>1, <2>2 DEF Kept, GoodTask
  <2> QED
    BY <1>1, <2>1, <2>2, <2>3, <2>4, HooksNext
<1>4. CASE ImportBundle /\ ~Return(ReportError(TopTask))
  <2>1. TopKind = "uab"
    BY <1>4 DEF ImportBundle
  <2>2. CASE IsTaskDone(TopTask) /\ Return(TopTask)
    <3>1. GoodEnd(Top.task, TopTask.state, cutAt[Top.task])
      BY <1>1, <2>2 DEF GoodEnd, OnTop, GoodTask, IsTaskDone
    <3> QED
      BY <1>1, <2>2, <3>1, EndsBy
  <2>3. CASE \/ Goto([Top EXCEPT !.pc = "hooks"], TopTask)
             \/ Goto([Top EXCEPT !.pc = "undo", !.then = "hooks"], TopTask)
    BY <1>1, <2>1, <2>3, HooksNext
  <2> QED
    BY <1>4, <2>2, <2>3 DEF ImportBundle
<1> QED
  BY <1>2, <1>3, <1>4

\* The end of a layer or bundle installation.
LEMMA HooksStep ==
    ASSUME OnTop, Hooks
    PROVE  Ends
<1>1. /\ Top.pc = "hooks" /\ TopKind \in {"layer", "uab"} /\ cutAt[Top.task] \notin Early
      /\ Top.task \in OnlyApp \/ (cutAt[Top.task] \notin Fetching /\ TopTask.state # "Failed")
      /\ TopKind = "layer" => TopTask.state \in Terminal
      /\ TopTask.parts = 0 /\ TopTask.parts # Refs[Top.task]
      /\ TopTask \in TaskRecord /\ Kept(TopTask)
  BY DEF Hooks, At, Top, Kept, OnTop, Good, PointOfKind, PartsOf, StateOf, CutOf, GoodTask, TopKind
<1>2. CASE Return(ReportError(TopTask))
  BY <1>1, <1>2, ErrorEnds
<1>3. CASE TopKind = "layer" /\ Return(TopTask)
  BY <1>1, <1>3, EndsBy DEF GoodEnd, OnTop
<1>4. CASE TopKind = "uab" /\ Return(UpdatedState("Succeed"))
  <2> DEFINE u == UpdatedState("Succeed")
  <2>1. u \in TaskRecord /\ u.parts = 0 /\ u.state = "Succeed" /\ u.sub = "AllDone"
    BY <1>1, UpdatedFacts DEF State
  <2> HIDE DEF u
  <2>2. Kept(u) /\ GoodEnd(Top.task, u.state, cutAt[Top.task])
    BY <1>1, <2>1 DEF Kept, GoodTask, GoodEnd
  <2> QED
    BY <1>4, <2>1, <2>2, EndsBy DEF u
<1> QED
  BY <1>2, <1>3, <1>4 DEF Hooks

\* A rollback is over.
LEMMA UndoneStep ==
    ASSUME OnTop, Undone
    PROVE  Moves \/ Ends
<1>1. /\ Top.pc = "undo" /\ cutAt[Top.task] \notin Early
      /\ TopTask.state # "Queued"
      /\ TopTask \in TaskRecord /\ Kept(TopTask)
  BY DEF Undone, At, Top, Kept, OnTop, Good, PointOfKind, PartsOf, StateOf, CutOf, GoodTask, TopKind
<1>2. CASE Top.then = "return"
  <2>1. GoodEnd(Top.task, TopTask.state, cutAt[Top.task])
    BY <1>1, <1>2 DEF GoodEnd, OnTop, Good, StateOf, CutOf
  <2> QED
    BY <1>1, <1>2, <2>1, EndsBy DEF Undone
<1>3. CASE Top.then = "failed"
  <2>1. TopKind \in {"install", "module", "uninstall"}
    BY <1>1, <1>3 DEF OnTop, Good, PointOfKind, TopKind
  <2>2. Unwind(ReportError(TopTask))
    BY <1>3 DEF Undone
  <2> QED
    BY <1>1, <2>1, <2>2, ErrorKept, UnwindStep
<1>4. CASE Top.then \in {"part", "hooks"}
  <2> DEFINE f == [Top EXCEPT !.pc = Top.then]
  <2>1. f \in Frame /\ f.task = Top.task /\ f.pc = Top.then /\ f.ups = Top.ups
    BY <1>4 DEF OnTop, Frame, Points, WaitPoints
  <2>2. Goto(f, TopTask)
    BY <1>4 DEF Undone
  <2> HIDE DEF f
  <2>3. Good(f, TopTask, cutAt[Top.task])
    BY <1>1, <1>4, <2>1 DEF OnTop, Good, PointOfKind, PartsOf, StateOf, CutOf, GoodTask, TopKind
  <2> QED
    BY <1>1, <2>1, <2>2, <2>3, MovesBy
<1> QED
  BY <1>2, <1>3, <1>4 DEF OnTop, Frame

-----------------------------------------------------------------------------
(* Every step of a job.                                                    *)

\* What the invariant says of the job on top.
LEMMA OnTopFacts ==
    ASSUME Counted, IInv, frames # <<>>, InQueue(Top.task)
    PROVE  OnTop
<1>1. Top \in Frame
  BY FrontFacts DEF IInv, TypeOK, Top
<1>2. Top.task \in Task
  BY <1>1 DEF Frame
<1>3. TopTask \in TaskRecord /\ GoodTask(Top.task, TopTask) /\ Good(Top, TopTask, cutAt[Top.task])
  BY <1>2 DEF IInv, TypeOK, TaskInv, TopInv, TopTask
<1>4. /\ TopKind \in Kinds
      /\ Refs[Top.task] \in Nat \ {0} /\ Upgrades[Top.task] \in Nat
      /\ TopKind = "update" => Refs[Top.task] = Upgrades[Top.task]
      /\ Top.task \in OnlyApp => TopKind = "uab"
      /\ Top.task \in Asks => TopKind \in {"install", "layer", "uab"}
  BY <1>2, TaskAssumption DEF Counted, TopKind
<1> QED
  BY <1>1, <1>2, <1>3, <1>4 DEF OnTop

\* Every step of a job but the end of its question is a move or a return.
LEMMA JobSteps ==
    ASSUME Counted, IInv, JobStep, ~Answered, ~AnsweredTooLate
    PROVE  frames # <<>> /\ InQueue(Top.task) /\ OnTop /\ (Moves \/ Ends)
<1>1. frames # <<>> /\ InQueue(Top.task)
  BY DEF JobStep, Ask, BeginRefused, BeginInstall, NextUpgrade, UninstallJob, BeginFile,
         ListFails, ListAnswers, FetchFails, FetchEnds, DependencyUnknown, DependencyPresent,
         DependencyMissing, DepFetchFails, DepFetchEnds, Installed, Upgraded, ImportLayer,
         ImportBundle, Hooks, Undone, At, Top
<1>2. OnTop
  BY <1>1, OnTopFacts
<1>3. Moves \/ Ends
  BY <1>2, AskStep, BeginRefusedStep, BeginInstallStep, NextUpgradeStep, UninstallStep,
     BeginFileStep, ListFailsStep, ListAnswersStep, FetchStep, DependencyStep, InstalledStep,
     UpgradedStep, ImportStep, HooksStep, UndoneStep DEF JobStep
<1> QED
  BY <1>1, <1>2, <1>3

-----------------------------------------------------------------------------
(* The queue.                                                              *)

\* Tasks in the queue were added, differ from one another and from the removed ones.
LEMMA QueueOnce ==
    ASSUME TypeOK, ServedInOrder, AddedOnce
    PROVE  /\ \A i \in 1..Len(queue) : queue[i] \in ToSet(added)
           /\ \A i, j \in 1..Len(queue) : queue[i] = queue[j] => i = j
           /\ \A i \in 1..Len(removed) : ~InQueue(removed[i].task)
           /\ \A t : InQueue(t) <=> \E i \in 1..Len(queue) : queue[i] = t
           /\ \A t : t \in ToSet(added) <=> \E i \in 1..Len(added) : added[i] = t
<1> DEFINE r == [i \in DOMAIN removed |-> removed[i].task]
<1>1. /\ removed \in Seq([task : Task, state : State]) /\ queue \in Seq(Task) /\ added \in Seq(Task)
      /\ DOMAIN removed = 1..Len(removed) /\ Len(removed) \in Nat /\ Len(queue) \in Nat
  BY LenProperties DEF TypeOK
<1>2. \A i \in 1..Len(removed) : removed[i] \in [task : Task, state : State]
  BY <1>1, ElementOfSeq
<1>3. r \in Seq(Task) /\ Len(r) = Len(removed) /\ \A i \in 1..Len(removed) : r[i] = removed[i].task
  BY <1>1, <1>2, IsASeq, LenProperties
<1>4. added = r \o queue
  BY DEF ServedInOrder
<1> HIDE DEF r
<1>5. /\ Len(added) = Len(r) + Len(queue)
      /\ \A i \in 1..Len(r) + Len(queue) : added[i] = IF i <= Len(r) THEN r[i] ELSE queue[i - Len(r)]
  <2>1. r \in Seq(Task) /\ queue \in Seq(Task)
    BY <1>1, <1>3
  <2>2. /\ Len(r \o queue) = Len(r) + Len(queue)
        /\ \A i \in 1..Len(r) + Len(queue) :
              (r \o queue)[i] = IF i <= Len(r) THEN r[i] ELSE queue[i - Len(r)]
    BY <2>1, ConcatProperties
  <2> QED
    BY <1>4, <2>2
<1>6. /\ \A t : InQueue(t) <=> \E i \in 1..Len(queue) : queue[i] = t
      /\ \A t : t \in ToSet(added) <=> \E i \in 1..Len(added) : added[i] = t
  BY <1>1, Elements DEF InQueue
<1>7. ASSUME NEW i \in 1..Len(queue)
      PROVE  i + Len(r) \in 1..Len(added) /\ added[i + Len(r)] = queue[i]
  <2>1. i + Len(r) \in 1..Len(r) + Len(queue) /\ ~(i + Len(r) <= Len(r)) /\ (i + Len(r)) - Len(r) = i
    BY <1>1, <1>3
  <2> QED
    BY <1>5, <2>1
<1>8. ASSUME NEW i \in 1..Len(removed)
      PROVE  i \in 1..Len(added) /\ added[i] = removed[i].task
  <2>1. i \in 1..Len(r) + Len(queue) /\ i <= Len(r)
    BY <1>1, <1>3
  <2> QED
    BY <1>3, <1>5, <2>1
<1>9. \A i \in 1..Len(queue) : queue[i] \in ToSet(added)
  BY <1>6, <1>7
<1>10. ASSUME NEW i \in 1..Len(queue), NEW j \in 1..Len(queue), queue[i] = queue[j] PROVE i = j
  <2>1. i + Len(r) = j + Len(r)
    BY <1>7, <1>10 DEF AddedOnce
  <2> QED
    BY <1>1, <1>3, <2>1
<1>11. ASSUME NEW i \in 1..Len(removed), InQueue(removed[i].task) PROVE FALSE
  <2>1. PICK j \in 1..Len(queue) : queue[j] = removed[i].task
    BY <1>6, <1>11
  <2>2. i = j + Len(r)
    BY <1>7, <1>8, <2>1 DEF AddedOnce
  <2> QED
    BY <1>1, <1>3, <2>2
<1> QED
  BY <1>6, <1>9, <1>10, <1>11

\* The job on top, and the ones below it.
LEMMA TopFacts ==
    ASSUME IInv, frames # <<>>
    PROVE  /\ frames \in Seq(Frame) /\ task \in [Task -> TaskRecord] /\ Top \in Frame /\ Top.task \in Task
           /\ Top = frames[Len(frames)] /\ Len(frames) \in Nat \ {0}
           /\ Front(frames) \in Seq(Frame) /\ Len(Front(frames)) = Len(frames) - 1
           /\ \A i \in 1..Len(frames) - 1 : Front(frames)[i] = frames[i]
<1>1. frames \in Seq(Frame) /\ task \in [Task -> TaskRecord]
  BY DEF IInv, TypeOK
<1>2. /\ Top \in Frame /\ Top = frames[Len(frames)] /\ Len(frames) \in Nat \ {0}
      /\ Front(frames) \in Seq(Frame) /\ Len(Front(frames)) = Len(frames) - 1
      /\ \A i \in 1..Len(frames) - 1 : Front(frames)[i] = frames[i]
  BY <1>1, FrontFacts DEF Top
<1> QED
  BY <1>1, <1>2 DEF Frame

\* A registered task that has a job is the front one, and its job is on top.
LEMMA JobOnTop ==
    ASSUME IInv, NEW t, InQueue(t), NEW i \in 1..Len(frames), frames[i].task = t
    PROVE  frames # <<>> /\ Top.task = t /\ queue[1] = t /\ Top = frames[Len(frames)]
<1>1. frames # <<>>
  BY EmptySeq DEF IInv, TypeOK
<1>2. Top = frames[Len(frames)]
  BY <1>1, FrontFacts DEF IInv, TypeOK, Top
<1> QED
  BY <1>1, <1>2 DEF IInv, QueueInv, Stack

-----------------------------------------------------------------------------
(* The invariant is kept: the job on top.                                  *)

\* The job on top goes on as f, its task as k; the queue and the histories stay.
LEMMA MovePreserves ==
    ASSUME IInv, frames # <<>>, InQueue(Top.task),
           NEW f \in Frame, NEW k \in TaskRecord, f.task = Top.task, Kept(k),
           Good(f, k, cutAt[Top.task]),
           frames' = Append(Front(frames), f),
           task' = [task EXCEPT ![Top.task] = k],
           UNCHANGED <<queue, added, removed, cutAt>>,
           starts' \in Nat, stale' \in BOOLEAN, broken' \in BOOLEAN
    PROVE  IInv'
<1>1. /\ frames \in Seq(Frame) /\ task \in [Task -> TaskRecord] /\ Top.task \in Task
      /\ Top = frames[Len(frames)] /\ Len(frames) \in Nat \ {0}
  BY TopFacts
<1>2. /\ frames' \in Seq(Frame) /\ frames' # <<>> /\ Len(frames') = Len(frames)
      /\ \A i \in 1..Len(frames) - 1 : frames'[i] = frames[i]
      /\ frames'[Len(frames)] = f /\ Top' = f
  BY <1>1, ReplaceTop DEF Top
<1>3. \A i \in 1..Len(frames) : /\ frames'[i].task = frames[i].task
                                /\ i # Len(frames) => frames'[i] = frames[i]
  BY <1>1, <1>2
<1>4. task' \in [Task -> TaskRecord] /\ task'[Top.task] = k
      /\ \A t \in Task : t # Top.task => task'[t] = task[t]
  BY <1>1
<1>5. TypeOK'
  BY <1>2, <1>4 DEF IInv, TypeOK
<1>6. \A t : InQueue(t)' <=> InQueue(t)
  BY DEF InQueue
<1>7. QueueInv'
  <2>1. ServedInOrder' /\ AddedOnce'
    BY ZenonT(60) DEF IInv, QueueInv, ServedInOrder, AddedOnce
  <2>2. Asking(f) => f.task \in Asks
    BY DEF Good, PointOfKind, Asking
  <2>3. Stack'
    BY <1>1, <1>2, <1>3, <1>6, <2>2 DEF IInv, QueueInv, Stack, Asking
  <2> QED
    BY <2>1, <2>3 DEF QueueInv
<1>8. TaskInv'
  BY <1>1, <1>4 DEF IInv, TaskInv, Kept, QueueInv, Stack
<1>9. Waiting'
  BY <1>1, <1>2, <1>3, <1>4, <1>6 DEF IInv, Waiting
<1>10. TopInv'
  BY <1>2, <1>4 DEF TopInv, TopTask
<1>11. EndsInv'
  BY DEF IInv, EndsInv
<1> QED
  BY <1>5, <1>7, <1>8, <1>9, <1>10, <1>11 DEF IInv

\* The job on top returns: its task, the front one, leaves the queue.
LEMMA EndPreserves ==
    ASSUME IInv, frames # <<>>, InQueue(Top.task),
           NEW k \in TaskRecord, Kept(k), GoodEnd(Top.task, k.state, cutAt[Top.task]), Return(k)
    PROVE  IInv'
<1>1. /\ frames \in Seq(Frame) /\ task \in [Task -> TaskRecord] /\ Top.task \in Task
      /\ Top = frames[Len(frames)] /\ Len(frames) \in Nat \ {0}
  BY TopFacts
<1>2. Top.task = queue[1] /\ queue # <<>>
  <2>1. Top.task = queue[1]
    BY <1>1 DEF IInv, QueueInv, Stack
  <2>2. queue # <<>>
    BY QueueOnce, EmptySeq DEF IInv, QueueInv, TypeOK
  <2> QED
    BY <2>1, <2>2
<1>3. /\ frames' \in Seq(Frame) /\ Len(frames') = Len(frames) - 1
      /\ \A i \in 1..Len(frames') : frames'[i] = frames[i] /\ i \in 1..Len(frames) /\ i # Len(frames)
  <2>1. frames' = Front(frames)
    BY DEF Return
  <2>2. frames' \in Seq(Frame) /\ Len(frames') = Len(frames) - 1 /\ \A i \in 1..Len(frames) - 1 : frames'[i] = frames[i]
    BY <2>1, TopFacts
  <2>3. \A i \in 1..Len(frames) - 1 : i \in 1..Len(frames) /\ i # Len(frames)
    BY <1>1
  <2> QED
    BY <2>2, <2>3
<1>4. /\ task' \in [Task -> TaskRecord] /\ task'[Top.task] = k
      /\ \A t \in Task : t # Top.task => task'[t] = task[t]
  BY <1>1 DEF Return
<1>5. /\ queue' = Tail(queue) /\ queue' \in Seq(Task) /\ Len(queue') = Len(queue) - 1
      /\ \A i \in 1..Len(queue') : queue'[i] = queue[i + 1]
      /\ Len(queue) \in Nat \ {0}
  <2>1. queue \in Seq(Task) /\ queue' = RemoveFirst(queue, Top.task)
    BY DEF IInv, TypeOK, Return
  <2>2. queue' = Tail(queue)
    BY <1>2, <2>1, EraseFront
  <2>3. /\ Tail(queue) \in Seq(Task) /\ Len(Tail(queue)) = Len(queue) - 1
        /\ \A i \in 1..Len(Tail(queue)) : Tail(queue)[i] = queue[i + 1]
    BY <1>2, <2>1, HeadTailProperties
  <2>4. Len(queue) \in Nat \ {0}
    BY <1>2, <2>1, EmptySeq
  <2> QED
    BY <2>2, <2>3, <2>4
<1> DEFINE e == [task |-> Top.task, state |-> k.state]
<1>6. /\ removed' \in Seq([task : Task, state : State]) /\ Len(removed') = Len(removed) + 1
      /\ \A i \in 1..Len(removed) : removed'[i] = removed[i]
      /\ removed'[Len(removed) + 1] = e /\ Len(removed) \in Nat
  <2>1. e \in [task : Task, state : State]
    BY <1>1 DEF TaskRecord
  <2> QED
    BY <2>1, AppendProperties, LenProperties DEF IInv, TypeOK, Return
<1>7. UNCHANGED <<added, cutAt, stale, broken>> /\ starts' \in Nat
  BY DEF Return, IInv, TypeOK
<1>8. TypeOK'
  BY <1>3, <1>4, <1>5, <1>6, <1>7 DEF IInv, TypeOK
<1>9. ServedInOrder'
  <2> DEFINE r == [i \in DOMAIN removed |-> removed[i].task]
             s == [i \in DOMAIN removed' |-> removed'[i].task]
  <2>1. DOMAIN removed = 1..Len(removed) /\ DOMAIN removed' = 1..Len(removed) + 1
    BY <1>6, LenProperties DEF IInv, TypeOK
  <2>2. \A i \in 1..Len(removed) : removed[i].task \in Task
    <3>1. removed \in Seq([task : Task, state : State])
      BY DEF IInv, TypeOK
    <3>2. \A i \in 1..Len(removed) : removed[i] \in [task : Task, state : State]
      BY <3>1, ElementOfSeq
    <3> QED
      BY <3>2
  <2>3. r \in Seq(Task) /\ Len(r) = Len(removed) /\ \A i \in 1..Len(removed) : r[i] = removed[i].task
    BY <1>6, <2>1, <2>2, IsASeq, LenProperties
  <2>4. \A i \in 1..Len(removed) + 1 : removed'[i].task \in Task
    <3>1. \A i \in 1..Len(removed') : removed'[i] \in [task : Task, state : State]
      BY <1>6, ElementOfSeq
    <3> QED
      BY <1>6, <3>1
  <2>5. s \in Seq(Task) /\ Len(s) = Len(removed) + 1 /\ \A i \in 1..Len(removed) + 1 : s[i] = removed'[i].task
    BY <1>6, <2>1, <2>4, IsASeq, LenProperties
  <2> HIDE DEF r, s
  <2>6. /\ Append(r, queue[1]) \in Seq(Task) /\ Len(Append(r, queue[1])) = Len(r) + 1
        /\ \A i \in 1..Len(r) : Append(r, queue[1])[i] = r[i]
        /\ Append(r, queue[1])[Len(r) + 1] = queue[1]
    BY <1>1, <1>2, <2>3, AppendProperties
  <2>7. s = Append(r, queue[1])
    <3>1. \A i \in 1..Len(removed) + 1 : i \in 1..Len(removed) \/ i = Len(removed) + 1
      BY <1>6
    <3>2. \A i \in 1..Len(s) : s[i] = Append(r, queue[1])[i]
      BY <1>2, <1>6, <2>3, <2>5, <2>6, <3>1
    <3> QED
      BY <2>3, <2>5, <2>6, <3>2, SeqEqual
  <2>8. Append(r, queue[1]) \o Tail(queue) = r \o queue
    BY <1>2, <2>3, MoveHead DEF IInv, TypeOK
  <2>9. added = r \o queue
    BY DEF IInv, QueueInv, ServedInOrder, r
  <2> QED
    BY <1>5, <1>7, <2>7, <2>8, <2>9 DEF ServedInOrder, s
<1>10. AddedOnce'
  BY <1>7 DEF IInv, QueueInv, AddedOnce
<1>11. ASSUME NEW t, InQueue(t)' PROVE InQueue(t) /\ t # queue[1]
  <2>1. PICK i \in 1..Len(queue') : queue'[i] = t
    BY ZenonT(60), <1>5, <1>11, Elements DEF InQueue
  <2>2. i + 1 \in 1..Len(queue) /\ queue[i + 1] = t /\ i + 1 # 1 /\ 1 \in 1..Len(queue)
    BY <1>5, <2>1
  <2> QED
    BY <2>2, QueueOnce DEF IInv, QueueInv
<1>12. Stack'
  BY <1>1, <1>2, <1>3, <1>7, <1>11 DEF IInv, QueueInv, Stack
<1>13. TaskInv'
  BY <1>1, <1>4, <1>7 DEF IInv, TaskInv, Kept, QueueInv, Stack
<1>14. Waiting'
  <2> SUFFICES ASSUME NEW t \in Task, InQueue(t)', \A i \in 1..Len(frames') : frames'[i].task # t
               PROVE  InQueue(t) /\ (\A i \in 1..Len(frames) : frames[i].task # t) /\ task'[t] = task[t]
    BY <1>7 DEF IInv, Waiting
  <2>1. InQueue(t) /\ t # Top.task
    BY <1>2, <1>11
  <2>2. ASSUME NEW i \in 1..Len(frames) PROVE frames[i].task # t
    BY SMTT(60), <1>1, <1>3, <2>1
  <2> QED
    BY <1>4, <2>1, <2>2
<1>15. TopInv'
  <2> SUFFICES ASSUME frames' # <<>> PROVE ~InQueue(Top.task)'
    BY DEF TopInv
  <2>1. Top' = frames'[Len(frames')] /\ Len(frames') \in 1..Len(frames')
    <3>1. Last(frames') = frames'[Len(frames')] /\ Len(frames') \in Nat \ {0}
      BY <1>3, FrontFacts
    <3> QED
      BY <3>1 DEF Top
  <2> QED
    BY <1>3, <1>11, <2>1 DEF IInv, QueueInv, Stack
<1>16. EndsInv'
  <2> SUFFICES ASSUME NEW i \in 1..Len(removed')
               PROVE  GoodEnd(removed'[i].task, removed'[i].state, cutAt[removed'[i].task])
    BY <1>7 DEF EndsInv
  <2>1. i \in 1..Len(removed) \/ i = Len(removed) + 1
    BY <1>6
  <2> QED
    BY <1>6, <2>1 DEF IInv, EndsInv
<1> QED
  BY <1>8, <1>9, <1>10, <1>12, <1>13, <1>14, <1>15, <1>16 DEF IInv, QueueInv

\* The question of the job on top is answered.
LEMMA AnsweredPreserves ==
    ASSUME Counted, IInv, Answered
    PROVE  IInv'
<1>1. Top.pc = "answered" /\ frames # <<>> /\ InQueue(Top.task) /\ OnTop
  BY OnTopFacts DEF Answered, At, Top
<1> DEFINE f == [Top EXCEPT !.pc = "begin"]
           k == IF TopKind = "install" /\ ~Top.yes THEN UpdatedState("Canceled") ELSE TopTask
<1>2. f \in Frame /\ f.task = Top.task /\ f.pc = "begin" /\ f.ups = Top.ups
  BY <1>1 DEF OnTop, Frame, Points, WaitPoints
<1>3. /\ TopTask.state = "Queued" \/ (TopTask.state = "Canceled" /\ TopTask.sub = "AllDone")
      /\ Top.task \in Asks /\ TopTask.parts # Refs[Top.task]
  BY <1>1 DEF OnTop, Good, PointOfKind, PartsOf, StateOf, CutOf, GoodTask, TopKind
<1>4. /\ k \in TaskRecord /\ k.parts = TopTask.parts
      /\ k = TopTask \/ (k.state = "Canceled" /\ k.sub = "AllDone")
  BY <1>1, <1>3, UpdatedFacts DEF OnTop, State
<1>5. /\ frames' = Append(Front(frames), f)
      /\ task' = [task EXCEPT ![Top.task] = k]
      /\ UNCHANGED <<queue, added, removed, cutAt>>
      /\ starts' \in Nat
  BY DEF Answered, TopTask, IInv, TypeOK
<1>6. stale' \in BOOLEAN /\ broken' \in BOOLEAN
  BY DEF Answered, IInv, TypeOK
<1> HIDE DEF f, k
<1>7. Kept(k)
  BY <1>1, <1>3, <1>4 DEF Kept, OnTop, GoodTask
<1>8. Good(f, k, cutAt[Top.task])
  BY <1>1, <1>2, <1>3, <1>4 DEF OnTop, Good, PointOfKind, PartsOf, StateOf, CutOf, GoodTask, TopKind
<1> QED
  BY <1>1, <1>2, <1>4, <1>5, <1>6, <1>7, <1>8, MovePreserves

-----------------------------------------------------------------------------
(* The invariant is kept: events.                                          *)

\* Only the bookkeeping of the event loop changes.
LEMMA SamePreserves ==
    ASSUME IInv, UNCHANGED <<task, queue, frames, added, removed, cutAt>>,
           starts' \in Nat, stale' \in BOOLEAN, broken' \in BOOLEAN
    PROVE  IInv'
<1>1. TypeOK'
  BY DEF IInv, TypeOK
<1>2. QueueInv'
  BY ZenonT(60) DEF IInv, QueueInv, ServedInOrder, AddedOnce, Stack, InQueue, Top
<1>3. TaskInv' /\ Waiting'
  BY DEF IInv, TaskInv, Waiting, InQueue
<1>4. TopInv'
  BY DEF IInv, TopInv, InQueue, Top, TopTask
<1>5. EndsInv'
  BY DEF IInv, EndsInv
<1> QED
  BY <1>1, <1>2, <1>3, <1>4, <1>5 DEF IInv

\* A new task.
LEMMA AddPreserves ==
    ASSUME Counted, IInv, NEW t \in Task, AddTask(t)
    PROVE  IInv'
<1>1. /\ TypeOK /\ ServedInOrder /\ AddedOnce /\ Stack /\ queue \in Seq(Task) /\ added \in Seq(Task)
      /\ t \notin ToSet(added) /\ Len(queue) \in Nat /\ Len(added) \in Nat
  BY LenProperties DEF IInv, QueueInv, TypeOK, AddTask
<1>2. UNCHANGED <<frames, stale, broken, removed, cutAt>> /\ starts' \in Nat
  BY DEF AddTask, IInv, TypeOK
<1>3. /\ added' \in Seq(Task) /\ Len(added') = Len(added) + 1
      /\ \A i \in 1..Len(added) : added'[i] = added[i]
      /\ added'[Len(added) + 1] = t /\ added' = Append(added, t)
  BY <1>1, AppendProperties DEF AddTask
<1>4. /\ queue' \in Seq(Task) /\ Len(queue') = Len(queue) + 1
      /\ \A i \in 1..Len(queue) : queue'[i] = queue[i]
      /\ queue'[Len(queue) + 1] = t /\ queue' = Append(queue, t)
  BY <1>1, AppendProperties DEF AddTask
<1> DEFINE k == UpdateState(FreshTask, Refs[t], "Queued")
<1>5. k \in TaskRecord /\ k.state = "Queued" /\ k.sub = "Unknown" /\ k.parts = 0
  <2>1. FreshTask \in TaskRecord
    BY DEF FreshTask, TaskRecord, State, SubState
  <2>2. Refs[t] \in Nat /\ Refs[t] # 0 /\ "Queued" \in State /\ "Queued" # "PartCompleted"
    BY TaskAssumption DEF Counted, State
  <2>3. FreshTask.parts = 0 /\ FreshTask.sub = "Unknown"
    BY DEF FreshTask
  <2> QED
    BY <2>1, <2>2, <2>3, UpdateStateFacts
<1> HIDE DEF k
<1>6. /\ task' = [task EXCEPT ![t] = k]
      /\ task' \in [Task -> TaskRecord] /\ task'[t] = k
      /\ \A u \in Task : u # t => task'[u] = task[u]
  <2>1. task' = [task EXCEPT ![t] = k]
    BY DEF AddTask, k
  <2> QED
    BY <1>1, <1>5, <2>1 DEF TypeOK
<1>7. TypeOK'
  BY <1>1, <1>2, <1>3, <1>4, <1>6 DEF TypeOK
<1>8. \A u : u \in ToSet(added)' <=> u \in ToSet(added) \/ u = t
  <2>1. \A u : u \in ToSet(added)' <=> \E i \in 1..Len(added') : added'[i] = u
    BY <1>3, Elements
  <2>2. \A u : u \in ToSet(added) <=> \E i \in 1..Len(added) : added[i] = u
    BY <1>1, Elements
  <2>3. \A i \in 1..Len(added') : i \in 1..Len(added) \/ i = Len(added) + 1
    BY <1>1, <1>3
  <2>4. 1..Len(added) \subseteq 1..Len(added') /\ Len(added) + 1 \in 1..Len(added')
    BY <1>1, <1>3
  <2> QED
    BY <1>3, <2>1, <2>2, <2>3, <2>4
<1>9. \A u : InQueue(u)' <=> InQueue(u) \/ u = t
  <2>1. \A u : InQueue(u)' <=> \E i \in 1..Len(queue') : queue'[i] = u
    BY <1>4, Elements DEF InQueue
  <2>2. \A u : InQueue(u) <=> \E i \in 1..Len(queue) : queue[i] = u
    BY <1>1, Elements DEF InQueue
  <2>3. \A i \in 1..Len(queue') : i \in 1..Len(queue) \/ i = Len(queue) + 1
    BY <1>1, <1>4
  <2>4. 1..Len(queue) \subseteq 1..Len(queue') /\ Len(queue) + 1 \in 1..Len(queue')
    BY <1>1, <1>4
  <2> QED
    BY <1>4, <2>1, <2>2, <2>3, <2>4
<1>10. ServedInOrder'
  <2> DEFINE r == [i \in DOMAIN removed |-> removed[i].task]
  <2>1. r \in Seq(Task)
    <3>1. DOMAIN removed = 1..Len(removed) /\ Len(removed) \in Nat
          /\ \A i \in 1..Len(removed) : removed[i] \in [task : Task, state : State]
      BY <1>1, LenProperties, ElementOfSeq DEF TypeOK
    <3> QED
      BY <3>1, IsASeq
  <2>2. added = r \o queue
    BY <1>1 DEF ServedInOrder
  <2> HIDE DEF r
  <2>3. Append(r \o queue, t) = r \o Append(queue, t)
    <3>1. r \o queue \in Seq(Task) /\ <<t>> \in Seq(Task)
      BY <1>1, <2>1, ConcatProperties
    <3>2. Append(r \o queue, t) = (r \o queue) \o <<t>> /\ Append(queue, t) = queue \o <<t>>
      BY <1>1, <3>1, AppendIsConcat
    <3>3. (r \o queue) \o <<t>> = r \o (queue \o <<t>>)
      BY <1>1, <2>1, <3>1, ConcatAssociative
    <3> QED
      BY <3>2, <3>3
  <2> QED
    BY <1>2, <1>3, <1>4, <2>2, <2>3 DEF ServedInOrder, r
<1>11. AddedOnce'
  <2>1. \A i \in 1..Len(added) : added[i] # t
    BY <1>1, Elements
  <2> SUFFICES ASSUME NEW i \in 1..Len(added'), NEW j \in 1..Len(added'), added'[i] = added'[j]
               PROVE  i = j
    BY DEF AddedOnce
  <2>2. /\ i \in 1..Len(added) \/ i = Len(added) + 1
        /\ j \in 1..Len(added) \/ j = Len(added) + 1
    BY <1>1, <1>3
  <2> QED
    BY <1>1, <1>3, <2>1, <2>2 DEF AddedOnce
<1>12. \A u : InQueue(u) => queue'[1] = queue[1]
  <2>1. \A u : InQueue(u) => \E i \in 1..Len(queue) : queue[i] = u
    BY <1>1, Elements DEF InQueue
  <2> QED
    BY <1>1, <1>4, <2>1
<1>13. \A i \in 1..Len(frames) : frames[i].task # t
  BY <1>1 DEF Stack
<1>14. Stack'
  BY <1>1, <1>2, <1>8, <1>9, <1>12, <1>13 DEF Stack, Top
<1>15. TaskInv'
  <2> SUFFICES ASSUME NEW u \in Task
               PROVE  /\ GoodTask(u, task'[u])
                      /\ u \notin ToSet(added)' => task'[u] = FreshTask /\ cutAt[u] = "none"
    BY <1>2 DEF TaskInv
  <2>1. CASE u = t
    BY <1>5, <1>6, <1>8, <2>1 DEF GoodTask
  <2>2. CASE u # t
    BY <1>6, <1>8, <2>2 DEF IInv, TaskInv
  <2> QED
    BY <2>1, <2>2
<1>16. Waiting'
  <2>1. cutAt[t] = "none"
    BY <1>1 DEF IInv, TaskInv
  <2> QED
    BY <1>2, <1>5, <1>6, <1>9, <2>1 DEF IInv, Waiting
<1>17. TopInv'
  <2>1. Top' = Top
    BY <1>2 DEF Top
  <2> SUFFICES ASSUME frames # <<>>, InQueue(Top.task)'
               PROVE  Good(Top, task'[Top.task], cutAt[Top.task])
    BY <1>2, <2>1 DEF TopInv, TopTask
  <2>2. Top.task # t /\ Top.task \in Task
    BY <1>13, TopFacts
  <2>3. InQueue(Top.task)
    BY <1>9, <2>1, <2>2 DEF InQueue
  <2> QED
    BY <1>6, <2>2, <2>3 DEF IInv, TopInv, TopTask
<1>18. EndsInv'
  BY <1>2 DEF IInv, EndsInv
<1> QED
  BY <1>7, <1>10, <1>11, <1>14, <1>15, <1>16, <1>17, <1>18 DEF IInv, QueueInv

\* The start lambda calls the job of the front task.
LEMMA StartPreserves ==
    ASSUME Counted, IInv, StartTask
    PROVE  IInv'
<1>1. /\ queue \in Seq(Task) /\ queue # <<>> /\ frames \in Seq(Frame) /\ Len(frames) \in Nat
      /\ Dispatching
  BY LenProperties DEF IInv, TypeOK, StartTask
<1> DEFINE t == queue[1]
           f == NewFrame(t)
<1>2. t = Head(queue) /\ t \in Task /\ InQueue(t)
  <2>1. Len(queue) \in Nat \ {0}
    BY <1>1, EmptySeq
  <2> QED
    BY <1>1, <2>1, ElementOfSeq, Elements DEF InQueue
<1>3. /\ task[t].state = "Queued" /\ frames' = Append(frames, f) /\ starts' \in Nat
      /\ UNCHANGED <<task, queue, stale, broken, added, removed, cutAt>>
  BY <1>2 DEF StartTask, IInv, TypeOK
<1>4. /\ f \in Frame /\ f.task = t /\ f.pc = "called" /\ f.ups = Upgrades[t]
  BY <1>2, TaskAssumption DEF NewFrame, Frame, Points, WaitPoints
<1> HIDE DEF f
<1>5. /\ frames' \in Seq(Frame) /\ Len(frames') = Len(frames) + 1 /\ frames' # <<>>
      /\ \A i \in 1..Len(frames) : frames'[i] = frames[i]
      /\ frames'[Len(frames) + 1] = f
  BY <1>1, <1>3, <1>4, AppendProperties
<1>6. Top' = f
  <2>1. Last(frames') = frames'[Len(frames')]
    BY <1>5, FrontFacts
  <2> QED
    BY <1>5, <2>1 DEF Top
<1>7. \A i \in 1..Len(frames') : i \in 1..Len(frames) \/ i = Len(frames) + 1
  BY <1>1, <1>5
<1>8. \A u : InQueue(u)' <=> InQueue(u)
  BY <1>3 DEF InQueue
<1>9. ASSUME NEW i \in 1..Len(frames) PROVE Asking(frames[i])
  <2>1. CASE i # Len(frames) \/ ~InQueue(frames[i].task)
    BY <2>1 DEF IInv, QueueInv, Stack
  <2>2. CASE i = Len(frames) /\ InQueue(frames[i].task)
    <3>1. frames # <<>> /\ Top = frames[i] /\ Top.task = t /\ InQueue(Top.task)
      BY <2>2, JobOnTop
    <3>2. Top.pc \in WaitPoints
      BY <1>1, <3>1 DEF Dispatching, Top
    <3>3. TopTask.state = "Queued"
      BY <1>3, <3>1 DEF TopTask
    <3> QED
      BY <3>1, <3>2, <3>3, OnTopFacts DEF OnTop, Good, StateOf, WaitPoints, Asking
  <2> QED
    BY <2>1, <2>2
<1>10. cutAt[t] \notin Early /\ (t \in OnlyApp \/ cutAt[t] \notin Fetching)
  <2>1. CASE \A i \in 1..Len(frames) : frames[i].task # t
    BY <1>2, <1>3, <2>1 DEF IInv, Waiting
  <2>2. CASE \E i \in 1..Len(frames) : frames[i].task = t
    <3>1. frames # <<>> /\ Top.task = t
      BY <1>2, <2>2, JobOnTop
    <3>2. TopTask.state = "Queued" /\ OnTop
      BY <1>2, <1>3, <3>1, OnTopFacts DEF TopTask
    <3> QED
      BY <3>1, <3>2 DEF OnTop, Good, CutOf, GoodTask
  <2> QED
    BY <2>1, <2>2
<1>11. TypeOK'
  BY <1>3, <1>5 DEF IInv, TypeOK
<1>12. QueueInv'
  <2>1. ServedInOrder' /\ AddedOnce'
    BY ZenonT(60), <1>3 DEF IInv, QueueInv, ServedInOrder, AddedOnce
  <2>2. t \in ToSet(added)
    <3>1. Len(queue) \in Nat \ {0}
      BY <1>1, EmptySeq
    <3> QED
      BY <3>1, QueueOnce DEF IInv, QueueInv
  <2>3. ~Asking(f)
    BY <1>4 DEF Asking
  <2>4. Stack'
    BY <1>2, <1>3, <1>4, <1>5, <1>6, <1>7, <1>8, <1>9, <2>2, <2>3 DEF IInv, QueueInv, Stack
  <2> QED
    BY <2>1, <2>4 DEF QueueInv
<1>13. TaskInv'
  BY <1>3 DEF IInv, TaskInv
<1>14. Waiting'
  <2>1. 1..Len(frames) \subseteq 1..Len(frames')
    BY <1>1, <1>5
  <2> QED
    BY <1>3, <1>5, <1>8, <2>1 DEF IInv, Waiting
<1>15. TopInv'
  <2>1. GoodTask(t, task[t]) /\ Refs[t] # 0
    BY <1>2 DEF IInv, TaskInv, Counted
  <2>2. Good(f, task[t], cutAt[t])
    BY <1>3, <1>4, <1>10, <2>1 DEF Good, PointOfKind, PartsOf, StateOf, CutOf, GoodTask
  <2> QED
    BY <1>3, <1>4, <1>6, <2>2 DEF TopInv, TopTask
<1>16. EndsInv'
  BY <1>3 DEF IInv, EndsInv
<1> QED
  BY <1>11, <1>12, <1>13, <1>14, <1>15, <1>16 DEF IInv

\* Where a registered task is: on top of the stack, or in the queue.
LEMMA PlaceFacts ==
    ASSUME IInv, NEW t \in Task, InQueue(t)
    PROVE  /\ (\A i \in 1..Len(frames) : frames[i].task # t) => PlaceOf(t) = "queue"
           /\ (\E i \in 1..Len(frames) : frames[i].task = t) => PlaceOf(t) = Top.pc /\ Top.pc \in Points
<1> DEFINE own == {i \in DOMAIN frames : frames[i].task = t}
<1>1. DOMAIN frames = 1..Len(frames) /\ Len(frames) \in Nat
  BY LenProperties DEF IInv, TypeOK
<1>2. PlaceOf(t) = IF own = {} THEN "queue" ELSE frames[Max(own)].pc
  BY DEF PlaceOf
<1>3. ASSUME \E i \in 1..Len(frames) : frames[i].task = t
      PROVE  PlaceOf(t) = Top.pc /\ Top.pc \in Points
  <2>1. frames # <<>> /\ Top.task = t /\ Top = frames[Len(frames)]
    BY <1>3, JobOnTop
  <2>2. Len(frames) \in own /\ \A y \in own : y \in Nat /\ Len(frames) >= y
    BY <1>1, <1>3, <2>1
  <2>3. Max(own) = Len(frames)
    BY <2>2 DEF Max
  <2> QED
    BY <1>2, <2>1, <2>2, <2>3, TopFacts DEF Frame
<1> QED
  BY <1>1, <1>2, <1>3

\* Cancelling the task of a waiting job leaves the job at a good point.
LEMMA CancelOnTop ==
    ASSUME OnTop, Top.pc \in WaitPoints, NEW k \in TaskRecord, k.parts = TopTask.parts,
           TopTask.state = "Canceled" => k = TopTask,
           TopTask.state # "Canceled" =>
             /\ k.state = (IF k.parts = Refs[Top.task] THEN "Succeed" ELSE "Canceled")
             /\ k.sub = "AllDone",
           NEW cut, cut = IF cutAt[Top.task] = "none" THEN Top.pc ELSE cutAt[Top.task]
    PROVE  /\ Good(Top, k, cut)
           /\ Top.task \notin OnlyApp /\ TopTask.state = "Failed" => k.state # "Succeed"
<1>1. PointOfKind(Top)
  BY DEF OnTop, Good
<1>2. TopKind # "update" => TopTask.parts = 0 /\ TopTask.parts # Refs[Top.task]
  BY DEF OnTop, GoodTask, TopKind
<1>3. PartsOf(Top, k)
  BY DEF OnTop, Good, PartsOf, WaitPoints
<1>4. Top.pc # "undo" => TopTask.parts # Refs[Top.task]
  BY <1>2 DEF OnTop, Good, PartsOf, WaitPoints, TopKind
<1>5. TopTask.parts = Refs[Top.task] => Top.pc = "undo" /\ Top.then = "part" /\ TopKind = "update"
  BY <1>2, <1>4 DEF OnTop, Good, PointOfKind, TopKind
<1>6. StateOf(Top, k, cut)
  BY <1>2, <1>4, <1>5 DEF OnTop, Good, StateOf, GoodTask, WaitPoints, PointOfKind, TopKind
<1>7. CutOf(Top, k, cut)
  BY <1>2, <1>4, <1>5 DEF OnTop, Good, StateOf, CutOf, GoodTask, WaitPoints
<1>8. Top.task \notin OnlyApp /\ TopTask.state = "Failed" => k.state # "Succeed"
  BY <1>4, <1>5 DEF OnTop, Good, StateOf, WaitPoints
<1> QED
  BY <1>1, <1>3, <1>6, <1>7, <1>8 DEF Good

\* The Cancel() slot, wherever the task is.
LEMMA CancelPreserves ==
    ASSUME Counted, IInv, NEW t \in Task, CancelTask(t)
    PROVE  IInv' /\ (t \notin OnlyApp /\ task[t].state = "Failed" => task'[t].state # "Succeed")
<1> DEFINE k == Cancel(task[t], Refs[t])
           cut == IF cutAt[t] = "none" THEN PlaceOf(t) ELSE cutAt[t]
<1>1. /\ InQueue(t) /\ Dispatching
      /\ task' = [task EXCEPT ![t] = k] /\ cutAt' = [cutAt EXCEPT ![t] = cut]
      /\ UNCHANGED <<queue, starts, frames, stale, broken, added, removed>>
      /\ task \in [Task -> TaskRecord] /\ task[t] \in TaskRecord
      /\ cutAt \in [Task -> Points \cup {"none", "queue"}]
  BY DEF CancelTask, IInv, TypeOK
<1>2. /\ k \in TaskRecord /\ k.parts = task[t].parts
      /\ task[t].state = "Canceled" => k = task[t]
      /\ task[t].state # "Canceled" =>
           /\ k.state = (IF k.parts = Refs[t] THEN "Succeed" ELSE "Canceled")
           /\ k.sub = "AllDone"
  <2>1. Refs[t] \in Nat
    BY TaskAssumption
  <2> QED
    BY <1>1, <2>1, CancelFacts
<1> HIDE DEF k
<1>3. /\ (\A i \in 1..Len(frames) : frames[i].task # t) => PlaceOf(t) = "queue"
      /\ (\E i \in 1..Len(frames) : frames[i].task = t) => PlaceOf(t) = Top.pc /\ Top.pc \in Points
  BY <1>1, PlaceFacts
<1>4. cut \in Points \cup {"none", "queue"}
  BY <1>1, <1>3
<1> HIDE DEF cut
<1>5. /\ task' \in [Task -> TaskRecord] /\ task'[t] = k /\ cutAt'[t] = cut
      /\ cutAt' \in [Task -> Points \cup {"none", "queue"}]
      /\ \A u \in Task : u # t => task'[u] = task[u] /\ cutAt'[u] = cutAt[u]
  BY <1>1, <1>2, <1>4
<1>6. TypeOK'
  BY <1>1, <1>5 DEF IInv, TypeOK
<1>7. Top' = Top /\ \A u : InQueue(u)' <=> InQueue(u)
  BY <1>1 DEF Top, InQueue
<1>8. QueueInv'
  BY ZenonT(60), <1>1 DEF IInv, QueueInv, ServedInOrder, AddedOnce, Stack, InQueue, Top
<1>9. t \in ToSet(added)
  BY <1>1, QueueOnce DEF IInv, QueueInv
<1>10. TaskInv'
  <2>1. GoodTask(t, k)
    BY <1>2 DEF IInv, TaskInv, GoodTask
  <2> QED
    BY <1>1, <1>5, <1>9, <2>1 DEF IInv, TaskInv
<1>11. ASSUME \A i \in 1..Len(frames) : frames[i].task # t
       PROVE  k.state = "Canceled" /\ k.sub = "AllDone" /\ cut = "queue" /\ task[t].state # "Failed"
  <2>1. \/ task[t].state = "Queued" /\ cutAt[t] = "none"
        \/ task[t].state = "Canceled" /\ task[t].sub = "AllDone" /\ cutAt[t] = "queue"
    BY <1>1, <1>11 DEF IInv, Waiting
  <2>2. task[t].state = "Queued" => task[t].parts # Refs[t]
    BY DEF IInv, TaskInv, GoodTask, Counted
  <2> QED
    BY <1>2, <1>3, <1>11, <2>1, <2>2 DEF cut
<1>12. ASSUME NEW i \in 1..Len(frames), frames[i].task = t
       PROVE  /\ frames # <<>> /\ Top.task = t /\ Good(Top, k, cut)
              /\ t \notin OnlyApp /\ task[t].state = "Failed" => k.state # "Succeed"
  <2>1. frames # <<>> /\ Top.task = t /\ TopTask = task[t]
    BY <1>1, <1>12, JobOnTop DEF TopTask
  <2>2. OnTop /\ Top.pc \in WaitPoints
    BY <1>1, <2>1, OnTopFacts DEF Dispatching, Top
  <2>3. cut = IF cutAt[Top.task] = "none" THEN Top.pc ELSE cutAt[Top.task]
    BY <1>3, <1>12, <2>1 DEF cut
  <2> QED
    BY <1>2, <2>1, <2>2, <2>3, CancelOnTop
<1>13. Waiting'
  <2> SUFFICES ASSUME NEW u \in Task, InQueue(u), \A i \in 1..Len(frames) : frames[i].task # u
               PROVE  \/ task'[u].state = "Queued" /\ cutAt'[u] = "none"
                      \/ task'[u].state = "Canceled" /\ task'[u].sub = "AllDone" /\ cutAt'[u] = "queue"
    BY <1>1, <1>7 DEF Waiting
  <2> QED
    BY <1>5, <1>11 DEF IInv, Waiting
<1>14. TopInv'
  <2> SUFFICES ASSUME frames # <<>>, InQueue(Top.task)
               PROVE  Good(Top, task'[Top.task], cutAt'[Top.task])
    BY <1>1, <1>7 DEF TopInv, TopTask, InQueue
  <2>1. Top.task \in Task /\ Top = frames[Len(frames)] /\ Len(frames) \in 1..Len(frames)
    BY TopFacts
  <2>2. CASE Top.task = t
    BY <1>5, <1>12, <2>1, <2>2
  <2>3. CASE Top.task # t
    BY <1>5, <2>1, <2>3 DEF IInv, TopInv, TopTask
  <2> QED
    BY <2>2, <2>3
<1>15. EndsInv'
  <2> SUFFICES ASSUME NEW i \in 1..Len(removed)
               PROVE  cutAt'[removed[i].task] = cutAt[removed[i].task]
    BY <1>1 DEF IInv, EndsInv
  <2>1. removed[i].task # t
    BY <1>1, QueueOnce DEF IInv, QueueInv
  <2> QED
    BY <1>1, <2>1
<1>16. t \notin OnlyApp /\ task[t].state = "Failed" => task'[t].state # "Succeed"
  BY <1>5, <1>11, <1>12
<1> QED
  BY <1>6, <1>8, <1>10, <1>13, <1>14, <1>15, <1>16 DEF IInv

\* ReplyInteraction() reaches every job that asks, on top or below.
LEMMA ReplyPreserves ==
    ASSUME Counted, IInv, NEW yes \in BOOLEAN, Reply(yes)
    PROVE  /\ IInv'
           /\ \A t \in Task : task[t].state = "Failed" => task'[t].state # "Succeed"
<1> DEFINE asking == {i \in DOMAIN frames : Asking(frames[i])}
           inSlot == {frames[i].task : i \in {j \in asking : Kind[frames[j].task] # "install"}}
           Answer(g) == [g EXCEPT !.pc = "answered", !.yes = yes]
<1>1. /\ frames \in Seq(Frame) /\ DOMAIN frames = 1..Len(frames) /\ Len(frames) \in Nat
      /\ task \in [Task -> TaskRecord]
      /\ \A i \in 1..Len(frames) : frames[i] \in Frame
  BY LenProperties, ElementOfSeq DEF IInv, TypeOK
<1>2. /\ Dispatching
      /\ frames' = [i \in DOMAIN frames |-> IF i \in asking THEN Answer(frames[i]) ELSE frames[i]]
      /\ task' = [t \in Task |-> IF t \in inSlot /\ ~yes
                                 THEN UpdateState(task[t], Refs[t], "Canceled") ELSE task[t]]
      /\ UNCHANGED <<queue, starts, stale, added, removed, cutAt>>
  BY DEF Reply
<1>3. broken' \in BOOLEAN
  BY DEF Reply
<1>4. \A g \in Frame : /\ Answer(g) \in Frame /\ Answer(g).task = g.task /\ Answer(g).pc = "answered"
                        /\ Answer(g).ups = g.ups
  BY DEF Frame, Points, WaitPoints
<1> HIDE DEF Answer
<1>5. \A i \in 1..Len(frames) : frames'[i] = IF Asking(frames[i]) THEN Answer(frames[i]) ELSE frames[i]
  BY <1>1, <1>2
<1>6. /\ frames' \in Seq(Frame) /\ Len(frames') = Len(frames)
      /\ \A i \in 1..Len(frames) : frames'[i].task = frames[i].task
      /\ \A i \in 1..Len(frames) : Asking(frames'[i]) <=> Asking(frames[i])
  <2>1. \A i \in 1..Len(frames) : frames'[i] \in Frame /\ frames'[i].task = frames[i].task
    BY <1>1, <1>4, <1>5
  <2>2. \A i \in 1..Len(frames) : Asking(frames'[i]) <=> Asking(frames[i])
    BY <1>1, <1>4, <1>5 DEF Asking
  <2>3. DOMAIN frames' = 1..Len(frames) /\ frames' = [i \in 1..Len(frames) |-> frames'[i]]
    BY <1>1, <1>2
  <2>4. frames' \in Seq(Frame)
    BY <1>1, <2>1, <2>3, IsASeq
  <2>5. Len(frames') = Len(frames)
    BY <1>1, <2>3, <2>4, LenProperties
  <2> QED
    BY <2>1, <2>2, <2>4, <2>5
<1>7. ASSUME NEW t \in inSlot
      PROVE  /\ t \in Task /\ Kind[t] \in {"layer", "uab"} /\ t \in ToSet(added)
             /\ \E i \in 1..Len(frames) : frames[i].task = t /\ Asking(frames[i])
             /\ task[t].parts = 0 /\ Refs[t] \in Nat \ {0}
  <2>1. PICK i \in 1..Len(frames) : Asking(frames[i]) /\ frames[i].task = t /\ Kind[t] # "install"
    BY <1>1
  <2>2. t \in Asks /\ t \in ToSet(added)
    BY <2>1 DEF IInv, QueueInv, Stack
  <2>3. t \in Task /\ Kind[t] \in {"layer", "uab"} /\ Refs[t] \in Nat \ {0}
    BY <2>1, <2>2, TaskAssumption DEF Counted
  <2>4. task[t].parts = 0
    BY <2>3 DEF IInv, TaskInv, GoodTask
  <2> QED
    BY <2>1, <2>2, <2>3, <2>4
<1>8. ASSUME NEW t \in Task
      PROVE  /\ task'[t] \in TaskRecord /\ task'[t].parts = task[t].parts
             /\ \/ task'[t] = task[t]
                \/ t \in inSlot /\ task'[t].state = "Canceled" /\ task'[t].sub = "AllDone"
  <2>1. CASE t \in inSlot /\ ~yes
    <3>1. task[t] \in TaskRecord /\ "Canceled" \in State /\ "Canceled" # "PartCompleted" /\ "Canceled" \in Terminal
      BY <1>1 DEF State
    <3>2. task'[t] = UpdateState(task[t], Refs[t], "Canceled")
      BY <1>2, <2>1
    <3>3. Refs[t] \in Nat /\ task[t].parts # Refs[t]
      BY <1>7, <2>1
    <3> HIDE DEF Terminal
    <3> QED
      BY <2>1, <3>1, <3>2, <3>3, UpdateStateFacts
  <2>2. CASE ~(t \in inSlot /\ ~yes)
    BY <1>1, <1>2, <2>2
  <2> QED
    BY <2>1, <2>2
<1>9. TypeOK'
  <2>1. task' \in [Task -> TaskRecord]
    BY <1>2, <1>8
  <2> QED
    BY <1>2, <1>3, <1>6, <2>1 DEF IInv, TypeOK
<1>10. \A u : InQueue(u)' <=> InQueue(u)
  BY <1>2 DEF InQueue
<1>11. ASSUME frames # <<>> \/ frames' # <<>>
       PROVE  /\ frames # <<>> /\ frames' # <<>> /\ Top = frames[Len(frames)] /\ Top' = frames'[Len(frames)]
              /\ Len(frames) \in 1..Len(frames) /\ Top'.task = Top.task
              /\ Top' = IF Asking(Top) THEN Answer(Top) ELSE Top
  <2>1. Len(frames) # 0 /\ frames # <<>> /\ frames' # <<>>
    BY <1>1, <1>6, <1>11, EmptySeq
  <2>2. Last(frames) = frames[Len(frames)] /\ Last(frames') = frames'[Len(frames)]
    BY <1>1, <1>6, <2>1, FrontFacts
  <2> QED
    BY <1>1, <1>5, <1>6, <2>1, <2>2 DEF Top
<1>12. QueueInv'
  <2>1. ServedInOrder' /\ AddedOnce'
    BY <1>2 DEF IInv, QueueInv, ServedInOrder, AddedOnce
  <2>2. Stack'
    <3> SUFFICES ASSUME NEW i \in 1..Len(frames)
                 PROVE  /\ frames'[i].task \in ToSet(added)
                        /\ InQueue(frames'[i].task) => frames'[i].task = queue[1] /\ Top'.task = queue[1]
                        /\ Asking(frames'[i]) \/ (i = Len(frames) /\ InQueue(frames'[i].task))
                        /\ Asking(frames'[i]) => frames'[i].task \in Asks
      BY <1>2, <1>6, <1>10 DEF Stack, Asking, InQueue
    <3>1. frames # <<>>
      BY <1>1, EmptySeq
    <3>2. Top'.task = Top.task
      BY <1>11, <3>1
    <3>3. /\ frames[i].task \in ToSet(added)
          /\ InQueue(frames[i].task) => frames[i].task = queue[1] /\ Top.task = queue[1]
          /\ Asking(frames[i]) \/ (i = Len(frames) /\ InQueue(frames[i].task))
          /\ Asking(frames[i]) => frames[i].task \in Asks
      BY DEF IInv, QueueInv, Stack
    <3>4. frames'[i].task = frames[i].task /\ (Asking(frames'[i]) <=> Asking(frames[i]))
      BY <1>6
    <3> QED
      BY <3>2, <3>3, <3>4
  <2> QED
    BY <2>1, <2>2 DEF QueueInv
<1>13. TaskInv'
  <2> SUFFICES ASSUME NEW t \in Task
               PROVE  /\ GoodTask(t, task'[t])
                      /\ t \notin ToSet(added) => task'[t] = FreshTask /\ cutAt[t] = "none"
    BY <1>2 DEF TaskInv
  <2>1. GoodTask(t, task[t]) /\ (t \notin ToSet(added) => task[t] = FreshTask /\ cutAt[t] = "none")
    BY DEF IInv, TaskInv
  <2> QED
    BY <1>7, <1>8, <2>1 DEF GoodTask
<1>14. Waiting'
  <2> SUFFICES ASSUME NEW t \in Task, InQueue(t)', \A i \in 1..Len(frames') : frames'[i].task # t
               PROVE  \/ task'[t].state = "Queued" /\ cutAt[t] = "none"
                      \/ task'[t].state = "Canceled" /\ task'[t].sub = "AllDone" /\ cutAt[t] = "queue"
    BY <1>2 DEF Waiting
  <2>1. InQueue(t) /\ \A i \in 1..Len(frames) : frames[i].task # t
    <3>1. InQueue(t)
      BY <1>10
    <3>2. ASSUME NEW i \in 1..Len(frames) PROVE frames[i].task # t
      BY <1>6
    <3> QED
      BY <3>1, <3>2
  <2>2. task'[t] = task[t]
    BY <1>7, <1>8, <2>1
  <2> QED
    BY <2>1, <2>2 DEF IInv, Waiting
<1>15. TopInv'
  <2> SUFFICES ASSUME frames # <<>>, InQueue(Top.task)
               PROVE  Good(Top', task'[Top.task], cutAt[Top.task])
    BY <1>2, <1>10, <1>11 DEF TopInv, TopTask, InQueue
  <2> DEFINE k == task'[Top.task]
  <2>1. OnTop /\ Top.pc \in WaitPoints /\ Top.task \in Task /\ Top \in Frame
    BY <1>2, OnTopFacts DEF Dispatching, Top, OnTop
  <2>2. /\ k \in TaskRecord /\ k.parts = TopTask.parts
        /\ \/ k = TopTask
           \/ TopKind \in {"layer", "uab"} /\ k.state = "Canceled" /\ k.sub = "AllDone"
    BY <1>7, <1>8, <2>1 DEF TopTask, TopKind
  <2> HIDE DEF k
  <2>3. CASE Asking(Top)
    <3> DEFINE g == Answer(Top)
    <3>1. g.task = Top.task /\ g.pc = "answered" /\ g.ups = Top.ups /\ Top' = g
      BY <1>4, <1>11, <2>1, <2>3
    <3> HIDE DEF g
    <3>2. Good(g, k, cutAt[Top.task])
      BY <2>1, <2>2, <2>3, <3>1 DEF Asking, OnTop, Good, PointOfKind, PartsOf, StateOf, CutOf, GoodTask, TopKind
    <3> QED
      BY <3>1, <3>2 DEF k
  <2>4. CASE ~Asking(Top)
    <3>1. Top' = Top
      BY <1>11, <2>4
    <3>2. Good(Top, k, cutAt[Top.task])
      BY <2>1, <2>2, <2>4 DEF Asking, WaitPoints, OnTop, Good, PointOfKind, PartsOf, StateOf, CutOf, GoodTask, TopKind
    <3> QED
      BY <3>1, <3>2 DEF k
  <2> QED
    BY <2>3, <2>4
<1>16. EndsInv'
  BY <1>2 DEF IInv, EndsInv
<1>17. \A t \in Task : task[t].state = "Failed" => task'[t].state # "Succeed"
  BY <1>8
<1> QED
  BY <1>9, <1>12, <1>13, <1>14, <1>15, <1>16, <1>17 DEF IInv

-----------------------------------------------------------------------------
(* The theorems.                                                           *)

\* The daemon starts with no tasks.
LEMMA InitIInv == ASSUME Init PROVE IInv
<1>1. FreshTask \in TaskRecord
  BY DEF FreshTask, TaskRecord, State, SubState
<1>2. TypeOK
  <2>1. stale \in BOOLEAN /\ broken \in BOOLEAN
    BY DEF Init
  <2>2. queue \in Seq(Task) /\ added \in Seq(Task) /\ frames \in Seq(Frame)
    BY DEF Init
  <2>3. removed \in Seq([task : Task, state : State])
    BY DEF Init
  <2>4. task \in [Task -> TaskRecord] /\ starts \in Nat /\ cutAt \in [Task -> Points \cup {"none", "queue"}]
    BY <1>1 DEF Init
  <2> QED
    BY <2>1, <2>2, <2>3, <2>4 DEF TypeOK
<1>3. Len(queue) = 0 /\ Len(added) = 0 /\ Len(frames) = 0 /\ Len(removed) = 0
  BY EmptySeq DEF Init, TypeOK
<1>4. ServedInOrder
  <2>1. removed = <<>> /\ queue = <<>> /\ added = <<>> /\ DOMAIN removed = {}
    BY DEF Init
  <2>2. [i \in DOMAIN removed |-> removed[i].task] = <<>>
    BY <2>1
  <2>3. <<>> \o <<>> = <<>>
    OBVIOUS
  <2> QED
    BY <2>1, <2>2, <2>3 DEF ServedInOrder
<1>5. QueueInv /\ EndsInv
  BY <1>3, <1>4 DEF QueueInv, AddedOnce, Stack, EndsInv
<1>6. TaskInv
  BY DEF Init, TaskInv, GoodTask, FreshTask
<1>7. \A t : ~InQueue(t)
  <2>1. queue \in Seq(Task) /\ 1..Len(queue) = {}
    BY <1>2, <1>3 DEF TypeOK
  <2> QED
    BY <2>1, Elements DEF InQueue
<1>8. Waiting /\ TopInv
  BY <1>7 DEF Waiting, TopInv
<1> QED
  BY <1>2, <1>5, <1>6, <1>8 DEF IInv

\* What a step may never do to a failed task.
FailedStays == \A t \in Task \ OnlyApp : task[t].state = "Failed" => task'[t].state # "Succeed"

\* Every step keeps the invariant, and no failed task becomes a success.
LEMMA NextIInv ==
    ASSUME Counted, IInv, [Next]_vars
    PROVE  IInv' /\ FailedStays
<1>1. CASE UNCHANGED vars
  BY <1>1, SamePreserves DEF vars, FailedStays, IInv, TypeOK
<1>2. ASSUME NEW t \in Task, AddTask(t) PROVE IInv' /\ FailedStays
  <2>1. IInv'
    BY <1>2, AddPreserves
  <2>2. \A u \in Task : u # t => task'[u] = task[u]
    BY <1>2 DEF AddTask, IInv, TypeOK
  <2>3. task[t].state = "Queued"
    BY <1>2 DEF AddTask, IInv, TaskInv, FreshTask
  <2> QED
    BY <2>1, <2>2, <2>3 DEF FailedStays
<1>3. ASSUME NEW t \in Task, CancelTask(t) PROVE IInv' /\ FailedStays
  <2>1. IInv' /\ (t \notin OnlyApp /\ task[t].state = "Failed" => task'[t].state # "Succeed")
    BY <1>3, CancelPreserves
  <2>2. \A u \in Task : u # t => task'[u] = task[u]
    BY <1>3 DEF CancelTask, IInv, TypeOK
  <2> QED
    BY <2>1, <2>2 DEF FailedStays
<1>4. ASSUME NEW yes \in BOOLEAN, Reply(yes) PROVE IInv' /\ FailedStays
  BY <1>4, ReplyPreserves DEF FailedStays
<1>5. CASE StartNothing
  <2>1. UNCHANGED <<task, queue, frames, added, removed, cutAt>> /\ starts' \in Nat
    BY <1>5 DEF StartNothing, IInv, TypeOK
  <2>2. stale' \in BOOLEAN /\ broken' \in BOOLEAN
    BY <1>5 DEF StartNothing, IInv, TypeOK
  <2> QED
    BY <2>1, <2>2, SamePreserves DEF FailedStays
<1>6. CASE StartTask
  BY <1>6, StartPreserves DEF FailedStays, StartTask
<1>7. CASE AnsweredTooLate
  <2>1. UNCHANGED <<task, queue, frames, added, removed, cutAt>> /\ starts' \in Nat
    BY <1>7 DEF AnsweredTooLate, IInv, TypeOK
  <2>2. stale' \in BOOLEAN /\ broken' \in BOOLEAN
    BY <1>7 DEF AnsweredTooLate, IInv, TypeOK
  <2> QED
    BY <2>1, <2>2, SamePreserves DEF FailedStays
<1>8. CASE Answered
  <2>1. IInv'
    BY <1>8, AnsweredPreserves
  <2>2. Top.pc = "answered" /\ frames # <<>> /\ InQueue(Top.task) /\ OnTop
    BY <1>8, OnTopFacts DEF Answered, At, Top
  <2>3. TopTask.state # "Failed"
    BY <2>2 DEF OnTop, Good, StateOf
  <2>4. \A u \in Task : u # Top.task => task'[u] = task[u]
    BY <1>8 DEF Answered, IInv, TypeOK
  <2> QED
    BY <2>1, <2>3, <2>4 DEF FailedStays, TopTask
<1>9. CASE JobStep /\ ~Answered /\ ~AnsweredTooLate
  <2>1. frames # <<>> /\ InQueue(Top.task) /\ OnTop /\ (Moves \/ Ends)
    BY <1>9, JobSteps
  <2>2. task \in [Task -> TaskRecord]
    BY DEF IInv, TypeOK
  <2>3. CASE Moves
    <3>1. PICK f \in Frame, k \in TaskRecord :
            /\ f.task = Top.task
            /\ Kept(k)
            /\ Good(f, k, cutAt[Top.task])
            /\ Goto(f, k)
      BY <2>3 DEF Moves
    <3>2. /\ frames' = Append(Front(frames), f)
          /\ task' = [task EXCEPT ![Top.task] = k]
          /\ UNCHANGED <<queue, starts, stale, broken, added, removed, cutAt>>
      BY <3>1 DEF Goto
    <3>3. starts' \in Nat /\ stale' \in BOOLEAN /\ broken' \in BOOLEAN
      BY <3>2 DEF IInv, TypeOK
    <3>4. IInv'
      BY <2>1, <3>1, <3>2, <3>3, MovePreserves
    <3>5. FailedStays
      BY <2>1, <2>2, <3>1, <3>2 DEF FailedStays, Kept, TopTask, OnTop
    <3> QED
      BY <3>4, <3>5
  <2>4. CASE Ends
    <3>1. PICK k \in TaskRecord :
            /\ Kept(k)
            /\ GoodEnd(Top.task, k.state, cutAt[Top.task])
            /\ Return(k)
      BY <2>4 DEF Ends
    <3>2. IInv'
      BY <2>1, <3>1, EndPreserves
    <3>3. task' = [task EXCEPT ![Top.task] = k]
      BY <3>1 DEF Return
    <3>4. FailedStays
      BY <2>1, <2>2, <3>1, <3>3 DEF FailedStays, Kept, TopTask, OnTop
    <3> QED
      BY <3>2, <3>4
  <2> QED
    BY <2>1, <2>3, <2>4
<1> QED
  BY <1>1, <1>2, <1>3, <1>4, <1>5, <1>6, <1>7, <1>8, <1>9 DEF Next, Event, Start

\* The inductive invariant of the queue and its jobs.
THEOREM Invariance == ASSUME Counted PROVE Spec => []IInv
<1>1. Init => IInv
  BY InitIInv
<1>2. IInv /\ [Next]_vars => IInv'
  BY NextIInv
<1> QED
  BY <1>1, <1>2, PTL DEF Spec

\* The variables stay in their types, for any tasks, kinds and questions.
THEOREM TypeCorrect == ASSUME Counted PROVE Spec => []TypeOK
<1>1. IInv => TypeOK
  BY DEF IInv
<1> QED
  BY <1>1, Invariance, PTL

\* Tasks leave the queue in the order in which they came, each exactly once, whatever
\* calls are dispatched inside the event loops of the jobs.
THEOREM LeftInOrder == ASSUME Counted PROVE Spec => []ServedInOrder
<1>1. IInv => ServedInOrder
  BY DEF IInv, QueueInv
<1> QED
  BY <1>1, Invariance, PTL

\* Every TaskRemoved signal carries a terminal state.
THEOREM ClientsLearnTheEnd == ASSUME Counted PROVE Spec => []RemovedInTerminalState
<1>1. IInv => RemovedInTerminalState
  <2>1. IInv => DOMAIN removed = 1..Len(removed)
    BY LenProperties DEF IInv, TypeOK
  <2> QED
    BY <2>1 DEF IInv, EndsInv, GoodEnd, RemovedInTerminalState
<1> QED
  BY <1>1, Invariance, PTL

\* A cancellation that meets a job while it fetches is not answered with success.
THEOREM FetchingIsCancelled == ASSUME Counted PROVE Spec => []CancelWhileFetchingHonoured
<1>1. IInv => CancelWhileFetchingHonoured
  <2>1. IInv => DOMAIN removed = 1..Len(removed)
    BY LenProperties DEF IInv, TypeOK
  <2> QED
    BY <2>1 DEF IInv, EndsInv, GoodEnd, CancelWhileFetchingHonoured
<1> QED
  BY <1>1, Invariance, PTL

\* A task cancelled in the queue or at the question to its user ends as cancelled.
THEOREM WaitingIsCancelled == ASSUME Counted PROVE Spec => []CancelBeforeBeginHonoured
<1>1. IInv => CancelBeforeBeginHonoured
  <2>1. IInv => DOMAIN removed = 1..Len(removed)
    BY LenProperties DEF IInv, TypeOK
  <2> QED
    BY <2>1 DEF IInv, EndsInv, GoodEnd, CancelBeforeBeginHonoured
<1> QED
  BY <1>1, Invariance, PTL

\* When no job asks its user, no job is started inside the event loop of another one: the
\* state of the front task keeps the start lambda away.
THEOREM NeverTwoJobs == ASSUME Counted, Asks = {} PROVE Spec => []OneJobAtATime
<1>1. IInv => OneJobAtATime
  <2> SUFFICES ASSUME IInv, ~(Len(frames) <= 1) PROVE FALSE
    BY DEF OneJobAtATime
  <2>1. Len(frames) \in Nat
    BY LenProperties DEF IInv, TypeOK
  <2>2. 1 \in 1..Len(frames) /\ 1 # Len(frames)
    <3>1. \A n \in Nat : ~(n <= 1) => 1 \in 1..n /\ 1 # n
      OBVIOUS
    <3> QED
      BY <2>1, <3>1, Zenon
  <2> QED
    BY <2>2 DEF IInv, QueueInv, Stack
<1> QED
  BY <1>1, Invariance, PTL

\* No step, a Cancel() or a late answer included, turns a reported failure into success.
THEOREM FailuresStand == ASSUME Counted PROVE Spec => FailureIsFinal
<1>1. IInv /\ [Next]_vars => [FailedStays]_vars
  BY NextIInv
<1> QED
  BY <1>1, Invariance, PTL DEF Spec, FailureIsFinal, FailedStays
=============================================================================
