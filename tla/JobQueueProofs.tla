--------------------------- MODULE JobQueueProofs ---------------------------
(***************************************************************************)
(* JobQueue for every set of jobs, every limit and every counter width     *)
(* that can hold the limit.                                                *)
(***************************************************************************)
EXTENDS JobQueue, SequenceTheorems, TLAPS

\* The inductive invariant: the counter is the number of slots in use and stays
\* within the limit.  AtMostMaxRunning alone is not inductive: a step from a
\* state with more posted run() calls than the counter admits would break it.
IInv == /\ TypeOK
        /\ SlotsAccounted
        /\ runningJobsCount <= RunningJobsMax
        /\ NobodyStranded

\* Dropping the last element of a nonempty sequence.
LEMMA FrontFacts ==
    ASSUME NEW S, NEW s \in Seq(S), s # <<>>
    PROVE  /\ Front(s) \in Seq(S)
           /\ Len(Front(s)) = Len(s) - 1
           /\ Len(s) > 0
<1> DEFINE f == SubSeq(s, 1, Len(s) - 1)
<1>1. Len(s) \in Nat /\ Len(s) # 0
  BY EmptySeq
<1>2. \A i \in 1 .. Len(s) - 1 : s[i] \in S
  BY <1>1, ElementOfSeq
<1>3. f \in Seq(S) /\ Len(f) = IF 1 <= Len(s) - 1 THEN (Len(s) - 1) - 1 + 1 ELSE 0
  BY <1>1, <1>2, SubSeqProperties
<1>4. Front(s) = f
  BY DEF Front
<1> HIDE DEF f
<1>5. Len(f) = Len(s) - 1
  BY <1>1, <1>3
<1> QED
  BY <1>1, <1>3, <1>4, <1>5

\* A new queue has no slot in use.
LEMMA InitIInv == Init => IInv
  BY JobQueueAssumption DEF Init, IInv, TypeOK, SlotsAccounted, NobodyStranded

\* runTask() and the three ways through run() keep counter and slots in step.
LEMMA NextIInv == IInv /\ [Next]_vars => IInv'
<1> SUFFICES ASSUME IInv, [Next]_vars PROVE IInv'
  OBVIOUS
<1> USE JobQueueAssumption DEF IInv, TypeOK, SlotsAccounted, NobodyStranded
<1>1. ASSUME NEW j \in Job, RunTask(j) PROVE IInv'
  <2>1. taskList' \in Seq(Job) /\ submitted' \in Seq(Job)
    BY <1>1 DEF RunTask
  <2>2. CASE runningJobsCount < RunningJobsMax
    BY <1>1, <2>1, <2>2 DEF RunTask
  <2>3. CASE ~(runningJobsCount < RunningJobsMax)
    BY <1>1, <2>1, <2>3 DEF RunTask
  <2> QED
    BY <2>2, <2>3
<1>2. CASE RunEmpty
  BY <1>2 DEF RunEmpty, Decremented
<1>3. CASE RunBegin
  <2>1. /\ taskList' \in Seq(Job) /\ active' \in Seq(Job) /\ started' \in Seq(Job)
        /\ Len(active') = Len(active) + 1
    BY <1>3 DEF RunBegin
  <2> QED
    BY <1>3, <2>1 DEF RunBegin
<1>4. CASE RunEnd
  <2>1. active' \in Seq(Job) /\ Len(active') = Len(active) - 1 /\ Len(active) > 0
    BY <1>4, FrontFacts DEF RunEnd
  <2>2. CASE taskList # <<>>
    BY <1>4, <2>1, <2>2 DEF RunEnd
  <2>3. CASE taskList = <<>>
    BY <1>4, <2>1, <2>3 DEF RunEnd, Decremented
  <2> QED
    BY <2>2, <2>3
<1>5. CASE UNCHANGED vars
  BY <1>5 DEF vars
<1> QED
  BY <1>1, <1>2, <1>3, <1>4, <1>5 DEF Next

\* The counter, the posted calls and the stack stay in step for ever.
THEOREM Invariance == Spec => []IInv
  BY InitIInv, NextIInv, PTL DEF Spec

\* Type correctness of the queue.
THEOREM TypeCorrect == Spec => []TypeOK
<1>1. IInv => TypeOK
  BY DEF IInv
<1> QED
  BY <1>1, Invariance, PTL

\* runningJobsCount never wraps: it is the number of slots in use.
THEOREM CounterExact == Spec => []SlotsAccounted
<1>1. IInv => SlotsAccounted
  BY DEF IInv
<1> QED
  BY <1>1, Invariance, PTL

\* At most runningJobsMax jobs are on the stack, however the loops nest.
THEOREM LimitHolds == Spec => []AtMostMaxRunning
<1>1. IInv => AtMostMaxRunning
  BY JobQueueAssumption DEF IInv, TypeOK, SlotsAccounted, AtMostMaxRunning
<1> QED
  BY <1>1, Invariance, PTL

\* No job is left in the list without somebody to call it.
THEOREM NoLostWakeup == Spec => []NobodyStranded
<1>1. IInv => NobodyStranded
  BY DEF IInv
<1> QED
  BY <1>1, Invariance, PTL

\* Moving the head of one sequence to the end of another keeps their concatenation.
LEMMA MoveHead ==
    ASSUME NEW S, NEW s \in Seq(S), NEW t \in Seq(S), t # <<>>
    PROVE  Append(s, Head(t)) \o Tail(t) = s \o t
<1>1. Append(s, Head(t)) = s \o <<Head(t)>> /\ Head(t) \in S /\ Tail(t) \in Seq(S)
  BY HeadTailProperties, AppendIsConcat
<1>2. (s \o <<Head(t)>>) \o Tail(t) = s \o (<<Head(t)>> \o Tail(t))
  BY <1>1, ConcatAssociative
<1>3. <<Head(t)>> \o Tail(t) = t
  BY SMT
<1> QED
  BY <1>1, <1>2, <1>3

\* What a sequence holds after an element is appended.
LEMMA AppendToSet ==
    ASSUME NEW S, NEW s \in Seq(S), NEW e \in S
    PROVE  ToSet(Append(s, e)) = ToSet(s) \cup {e}
<1>1. /\ DOMAIN Append(s, e) = 1 .. Len(s) + 1
      /\ \A i \in 1 .. Len(s) : Append(s, e)[i] = s[i]
      /\ Append(s, e)[Len(s) + 1] = e
      /\ DOMAIN s = 1 .. Len(s) /\ Len(s) \in Nat
  BY AppendProperties, LenProperties
<1>2. ASSUME NEW x PROVE x \in ToSet(Append(s, e)) <=> x \in ToSet(s) \cup {e}
  BY <1>1 DEF ToSet
<1> QED
  BY <1>2

\* Jobs are called in the order in which they were handed over, each once.
THEOREM InOrder == Spec => []StartOrder
<1>1. Init => StartOrder
  BY DEF Init, StartOrder
<1>2. IInv /\ StartOrder /\ [Next]_vars => StartOrder'
  <2> SUFFICES ASSUME IInv, StartOrder, [Next]_vars PROVE StartOrder'
    OBVIOUS
  <2>0. started \in Seq(Job) /\ taskList \in Seq(Job) /\ submitted \in Seq(Job)
    BY DEF IInv, TypeOK
  <2>1. ASSUME NEW j \in Job, RunTask(j) PROVE StartOrder'
    <3>1. Append(taskList, j) = taskList \o <<j>> /\ <<j>> \in Seq(Job)
      BY <2>0, AppendIsConcat
    <3>2. started \o (taskList \o <<j>>) = (started \o taskList) \o <<j>>
      BY <2>0, <3>1, ConcatAssociative
    <3>3. Append(submitted, j) = submitted \o <<j>>
      BY <2>0, AppendIsConcat
    <3> QED
      BY <2>1, <3>1, <3>2, <3>3 DEF RunTask, StartOrder
  <2>2. CASE RunBegin
    <3>1. started' \o taskList' = started \o taskList
      BY <2>0, <2>2, MoveHead DEF RunBegin
    <3> QED
      BY <2>2, <3>1 DEF RunBegin, StartOrder
  <2>3. CASE RunEmpty \/ RunEnd \/ UNCHANGED vars
    BY <2>3 DEF RunEmpty, RunEnd, vars, StartOrder
  <2> QED
    BY <2>1, <2>2, <2>3 DEF Next
<1> QED
  BY <1>1, <1>2, Invariance, PTL DEF Spec

\* Every step of the queue is a step of the abstract executor or leaves it alone.
LEMMA StepSimulation ==
    IInv /\ [Next]_vars => [Executor!ENext]_(Executor!evars)
<1> SUFFICES ASSUME IInv, [Next]_vars PROVE [Executor!ENext]_(Executor!evars)
  OBVIOUS
<1> USE DEF Executor!ENext, Executor!evars
<1>1. ASSUME NEW j \in Job, RunTask(j) PROVE Executor!Submit(j)
  <2>1. ToSet(submitted') = ToSet(submitted) \cup {j}
    BY <1>1, AppendToSet DEF RunTask, IInv, TypeOK
  <2> QED
    BY <1>1, <2>1 DEF RunTask, Executor!Submit
<1>2. CASE RunEmpty
  BY <1>2 DEF RunEmpty
<1>3. CASE RunBegin
  <2>1. Len(active) < RunningJobsMax
    BY <1>3, JobQueueAssumption DEF RunBegin, IInv, TypeOK, SlotsAccounted
  <2>2. Executor!Start
    BY <1>3, <2>1 DEF RunBegin, Executor!Start
  <2> QED
    BY <2>2
<1>4. CASE RunEnd
  <2>1. Executor!Finish
    BY <1>4 DEF RunEnd, Executor!Finish, Front, Executor!Front
  <2> QED
    BY <2>1
<1>5. CASE UNCHANGED vars
  BY <1>5 DEF vars
<1> QED
  BY <1>1, <1>2, <1>3, <1>4, <1>5 DEF Next

\* JobQueue implements the serial executor: in-order start, bounded execution.
THEOREM Refinement == Spec => ImplementsExecutor
<1>1. Init => Executor!EInit
  BY DEF Init, Executor!EInit, ToSet
<1> QED
  BY <1>1, StepSimulation, Invariance, PTL DEF Spec, ImplementsExecutor, Executor!ESpec
=============================================================================
