--------------------------- MODULE SerialExecutor ---------------------------
(***************************************************************************)
(* What EventLoop::queueInLoop promises its callers, whatever the threads  *)
(* they run on: the tasks handed over are run one at a time, each of them  *)
(* once, in the order in which they were handed over.                      *)
(***************************************************************************)
EXTENDS Naturals, Sequences

VARIABLES todo, done   \* tasks waiting, tasks run, both in order

executorVars == <<todo, done>>

Init == todo = <<>> /\ done = <<>>

\* The tasks are numbered in the order in which they are handed over.
Submit == /\ todo' = Append(todo, Len(done) + Len(todo) + 1)
          /\ UNCHANGED done

Execute == /\ todo # <<>>
           /\ done' = Append(done, Head(todo))
           /\ todo' = Tail(todo)

Next == Submit \/ Execute

Spec == Init /\ [][Next]_executorVars
=============================================================================
