--------------------------- MODULE SerialExecutor ---------------------------
(***************************************************************************)
(* What a JobQueue promises its caller: jobs wait in one line, they start  *)
(* in the order in which they were handed over, and at most Limit of them  *)
(* are being executed.  Nothing is said about events or counters.          *)
(***************************************************************************)
EXTENDS Naturals, Sequences, SequencesExt

CONSTANTS Job,    \* everything a caller may ever hand over
          Limit   \* how many jobs may be in execution together

VARIABLES waiting,   \* jobs handed over and not yet started, oldest first
          executing, \* jobs started and not yet finished, latest last
          accepted   \* jobs handed over so far

evars == <<waiting, executing, accepted>>

EInit == /\ waiting = <<>>
         /\ executing = <<>>
         /\ accepted = {}

Submit(j) == /\ j \notin accepted
             /\ accepted' = accepted \cup {j}
             /\ waiting' = Append(waiting, j)
             /\ UNCHANGED executing

Start == /\ waiting # <<>>
         /\ Len(executing) < Limit
         /\ executing' = Append(executing, Head(waiting))
         /\ waiting' = Tail(waiting)
         /\ UNCHANGED accepted

\* Jobs nest on one thread, so only the latest can return.
Finish == /\ executing # <<>>
          /\ executing' = Front(executing)
          /\ UNCHANGED <<waiting, accepted>>

ENext == \/ \E j \in Job : Submit(j)
         \/ Start
         \/ Finish

ESpec == EInit /\ [][ENext]_evars
=============================================================================
