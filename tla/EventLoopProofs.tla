-------------------------- MODULE EventLoopProofs --------------------------
(***************************************************************************)
(* Theorems about EventLoop, for any number of threads, channels, tasks    *)
(* and any size of the eventfd counter.                                    *)
(***************************************************************************)
EXTENDS EventLoopThread, SequenceTheorems, TLAPS

-----------------------------------------------------------------------------
(* Type correctness. *)

\* The constructor establishes the type invariant.
LEMMA InitTypeOK == Init => TypeOK
<1> SUFFICES ASSUME Init PROVE TypeOK
  OBVIOUS
<1> USE DEF Init
<1>1. {looping_, quit_, eventHandling_, callingPendingFunctors_} \subseteq BOOLEAN
  OBVIOUS
<1>2. wakeupFd_ \in 0..EventfdMax
  BY BoundAssumption
<1>3. caller \in [Threads -> {"idle", "wakeup"}]
  OBVIOUS
<1> QED
  BY <1>1, <1>2, <1>3 DEF TypeOK, AllChannels

\* Every step of the loop, of a callback and of another thread keeps it.
LEMMA NextTypeOK == TypeOK /\ [Next]_vars => TypeOK'
<1> SUFFICES ASSUME TypeOK, [Next]_vars PROVE TypeOK'
  OBVIOUS
<1> USE BoundAssumption, ChannelAssumption
<1>1. CASE Start
  BY <1>1 DEF TypeOK, Start, events, work
<1>2. CASE TestQuit
  BY <1>2 DEF TypeOK, TestQuit, work
<1>3. ASSUME NEW ready \in SUBSET AllChannels, PollReturns(ready)
      PROVE  TypeOK'
  BY <1>3 DEF TypeOK, PollReturns, work
<1>4. CASE HandleEvent
  BY <1>4 DEF TypeOK, HandleEvent, flags, work
<1>5. CASE EventHandled
  BY <1>5 DEF TypeOK, EventHandled, flags, work
<1>6. CASE EventsDone
  BY <1>6 DEF TypeOK, EventsDone, events, work
<1>7. CASE Swap
  BY <1>7 DEF TypeOK, Swap, flags, events
<1>8. CASE RunFunctor
  BY <1>8 DEF TypeOK, RunFunctor, flags, events
<1>9. CASE FunctorReturns
  BY <1>9 DEF TypeOK, FunctorReturns, flags, events
<1>10. CASE FunctorsDone
  BY <1>10 DEF TypeOK, FunctorsDone, events, work
<1>11. CASE QueueFromLoop
  BY <1>11 DEF TypeOK, QueueFromLoop, Push, TaskCount, WakeupValue, flags, events
<1>12. CASE QuitFromLoop
  BY <1>12 DEF TypeOK, QuitFromLoop, events, work
<1>13. ASSUME NEW t \in Threads, QueueInLoop(t) PROVE TypeOK'
  BY <1>13 DEF TypeOK, QueueInLoop, Push, TaskCount, flags, events
<1>14. ASSUME NEW t \in Threads, Quit(t) PROVE TypeOK'
  BY <1>14 DEF TypeOK, Quit, events, work
<1>15. ASSUME NEW t \in Threads, Wakeup(t) PROVE TypeOK'
  BY <1>15 DEF TypeOK, Wakeup, WakeupValue, flags, events, work
<1>16. CASE UNCHANGED vars
  BY <1>16 DEF TypeOK, vars
<1> QED
  BY <1>1, <1>2, <1>3, <1>4, <1>5, <1>6, <1>7, <1>8, <1>9, <1>10, <1>11,
     <1>12, <1>13, <1>14, <1>15, <1>16
  DEF Next, LoopStep, PollAwakened, PollOther, UserCode, OtherThread, AllChannels

\* The variables of EventLoop keep their types and the flags of loop() agree
\* with the place the loop thread is at.
THEOREM TypeCorrect == Spec => []TypeOK
BY InitTypeOK, NextTypeOK, PTL DEF Spec
-----------------------------------------------------------------------------
(* No wakeup is lost. *)

\* One step keeps the wakeup invariant.
LEMMA NextWakeupInv == TypeOK /\ WakeupInv /\ [Next]_vars => WakeupInv'
<1> SUFFICES ASSUME TypeOK, WakeupInv, [Next]_vars PROVE WakeupInv'
  OBVIOUS
<1> USE BoundAssumption
<1>1. CASE Start
  BY <1>1 DEF WakeupInv, WakeupComing, Start, work
<1>2. CASE TestQuit
  BY <1>2 DEF WakeupInv, WakeupComing, TestQuit, work
<1>3. ASSUME NEW ready, PollReturns(ready) PROVE WakeupInv'
  BY <1>3 DEF WakeupInv, PollReturns
<1>4. CASE HandleEvent
  BY <1>4 DEF WakeupInv, HandleEvent
<1>5. CASE EventHandled
  BY <1>5 DEF WakeupInv, EventHandled
<1>6. CASE EventsDone
  BY <1>6 DEF WakeupInv, EventsDone
<1>7. CASE Swap
  BY <1>7 DEF WakeupInv, Swap
<1>8. CASE RunFunctor
  BY <1>8 DEF WakeupInv, WakeupComing, RunFunctor
<1>9. CASE FunctorReturns
  BY <1>9 DEF WakeupInv, WakeupComing, FunctorReturns
<1>10. CASE FunctorsDone
  BY <1>10 DEF WakeupInv, WakeupComing, FunctorsDone, work
<1>11. CASE QueueFromLoop
  <2>1. CASE pc = "events"
    BY <1>11, <2>1 DEF WakeupInv, QueueFromLoop
  <2>2. CASE pc = "functors"
    <3>1. callingPendingFunctors_
      BY <2>2 DEF TypeOK
    <3>2. wakeupFd_' > 0
      BY <1>11, <3>1 DEF QueueFromLoop, WakeupValue, TypeOK
    <3> QED
      BY <1>11, <2>2, <3>2 DEF WakeupInv, WakeupComing, QueueFromLoop
  <2> QED
    BY <1>11, <2>1, <2>2 DEF QueueFromLoop, InUserCode
<1>12. CASE QuitFromLoop
  BY <1>12 DEF WakeupInv, WakeupComing, QuitFromLoop, InUserCode, work
<1>13. ASSUME NEW t \in Threads, QueueInLoop(t) PROVE WakeupInv'
  BY <1>13 DEF WakeupInv, WakeupComing, QueueInLoop, TypeOK
<1>14. ASSUME NEW t \in Threads, Quit(t) PROVE WakeupInv'
  BY <1>14 DEF WakeupInv, WakeupComing, Quit, TypeOK
<1>15. ASSUME NEW t \in Threads, Wakeup(t) PROVE WakeupInv'
  <2>1. wakeupFd_' > 0
    BY <1>15 DEF Wakeup, WakeupValue, TypeOK
  <2> QED
    BY <2>1 DEF WakeupInv, WakeupComing
<1>16. CASE UNCHANGED vars
  BY <1>16 DEF WakeupInv, WakeupComing, vars
<1> QED
  BY <1>1, <1>2, <1>3, <1>4, <1>5, <1>6, <1>7, <1>8, <1>9, <1>10, <1>11,
     <1>12, <1>13, <1>14, <1>15, <1>16
  DEF Next, LoopStep, PollAwakened, PollOther, UserCode, OtherThread

\* The strengthened wakeup invariant holds in every reachable state.
THEOREM WakeupInvariant == Spec => []WakeupInv
<1>1. Init => WakeupInv
  BY DEF Init, WakeupInv
<1> QED
  BY <1>1, NextWakeupInv, TypeCorrect, PTL DEF Spec

\* queueInLoop, quit and wakeup: the loop never blocks in poll() over queued
\* tasks or a request to quit without a wakeup at the eventfd or on its way.
THEOREM WakeupsAreNotLost == Spec => []NoLostWakeup
<1>1. WakeupInv => NoLostWakeup
  BY DEF WakeupInv, NoLostWakeup
<1> QED
  BY <1>1, WakeupInvariant, PTL
-----------------------------------------------------------------------------
(* Tasks run once each and in order. *)

\* A push at the back of the pending tasks is a push at the back of all tasks.
LEMMA AppendToConcat ==
    ASSUME NEW s \in Seq(Nat), NEW t \in Seq(Nat), NEW n \in Nat
    PROVE  s \o Append(t, n) = Append(s \o t, n)
BY SMT

\* The first of the functors is the first of all tasks that are not done.
LEMMA HeadTailOfConcat ==
    ASSUME NEW s \in Seq(Nat), NEW t \in Seq(Nat), s # <<>>
    PROVE  /\ s \o t # <<>>
           /\ Head(s \o t) = Head(s)
           /\ Tail(s \o t) = Tail(s) \o t
BY SMT

\* Each push is a Submit of the abstract executor.
LEMMA PushSubmits ==
    ASSUME TypeOK, Push, UNCHANGED <<functors, done>>
    PROVE  Executor!Submit
<1>1. TaskCount + 1 \in Nat
  BY DEF TypeOK, TaskCount
<1>2. (functors \o pendingFunctors_)' = Append(functors \o pendingFunctors_, TaskCount + 1)
  BY <1>1, AppendToConcat DEF Push, TypeOK
<1>3. TaskCount = Len(done) + Len(functors \o pendingFunctors_)
  BY DEF TaskCount, TypeOK
<1> QED
  BY <1>2, <1>3 DEF Executor!Submit

\* EventLoop implements SerialExecutor: whoever queues them, the tasks are run
\* once each and in the order of the pushes.
THEOREM RunsTasksInOrder == Spec => RunsInOrder
<1>1. Init => Executor!Init
  BY DEF Init, Executor!Init
<1>2. TypeOK /\ [Next]_vars => [Executor!Next]_(Executor!executorVars)
  <2> SUFFICES ASSUME TypeOK, [Next]_vars
               PROVE  Executor!Next \/ UNCHANGED <<functors \o pendingFunctors_, done>>
    BY DEF Executor!executorVars
  <2>1. ASSUME UNCHANGED work PROVE UNCHANGED <<functors \o pendingFunctors_, done>>
    BY <2>1 DEF work
  <2>2. CASE Swap
    BY <2>2 DEF Swap, TypeOK
  <2>3. CASE RunFunctor
    <3>1. Executor!Execute
      BY <2>3, HeadTailOfConcat DEF RunFunctor, TypeOK, Executor!Execute
    <3> QED
      BY <3>1 DEF Executor!Next
  <2>4. CASE FunctorReturns
    BY <2>4 DEF FunctorReturns
  <2>5. CASE QueueFromLoop
    BY <2>5, PushSubmits DEF QueueFromLoop, Executor!Next
  <2>6. ASSUME NEW t \in Threads, QueueInLoop(t) PROVE Executor!Next
    BY <2>6, PushSubmits DEF QueueInLoop, Executor!Next
  <2>7. CASE UNCHANGED vars
    BY <2>7 DEF vars
  <2> QED
    BY <2>1, <2>2, <2>3, <2>4, <2>5, <2>6, <2>7
    DEF Next, LoopStep, Start, TestQuit, PollAwakened, PollOther, PollReturns,
        HandleEvent, EventHandled, EventsDone, FunctorsDone, UserCode,
        QuitFromLoop, OtherThread, Quit, Wakeup
<1> QED
  BY <1>1, <1>2, TypeCorrect, PTL DEF Spec, RunsInOrder, Executor!Spec
-----------------------------------------------------------------------------
(* A loop in a thread of its own is an EventLoop: what is proved of the    *)
(* loop holds of the one startLoop hands out, whoever starts, uses and     *)
(* stops it.                                                               *)

\* Every step of the owner, the new thread and the callers is a step of the
\* loop, or leaves the loop alone.
THEOREM ThreadImplementsLoop == ThreadSpec => Spec
<1>1. ThreadInit => Init
  BY DEF ThreadInit
<1>2. [ThreadNext]_allVars => [Next]_vars
  <2> SUFFICES ASSUME [ThreadNext]_allVars PROVE [Next]_vars
    OBVIOUS
  <2>1. CASE StartThread \/ TestLoop \/ SpuriousWakeup \/ Join \/ Publish \/ Finish
    BY <2>1 DEF StartThread, TestLoop, SpuriousWakeup, Join, Publish, Finish
  <2>2. CASE Destroy
    BY <2>2, OwnerAssumption DEF Destroy, Next, OtherThread
  <2>3. CASE RunLoop \/ RunLoopOther
    BY <2>3 DEF RunLoop, RunLoopOther, Next
  <2>4. ASSUME NEW t \in Threads, Call(t) \/ CallEnds(t)
        PROVE  Next
    BY <2>4 DEF Call, CallEnds, Next, OtherThread
  <2>5. CASE UNCHANGED allVars
    BY <2>5 DEF allVars
  <2> QED
    BY <2>1, <2>2, <2>3, <2>4, <2>5 DEF ThreadNext
<1> QED
  BY <1>1, <1>2, PTL DEF ThreadSpec, Spec

\* wakeup, handleRead: a loop in a thread of its own never blocks in poll()
\* over work that nobody will wake it up for.
THEOREM ThreadWakeupsAreNotLost == ThreadSpec => []NoLostWakeup
BY ThreadImplementsLoop, WakeupsAreNotLost, PTL

\* doPendingFunctors: nor does it run a task twice or out of order.
THEOREM ThreadRunsTasksInOrder == ThreadSpec => RunsInOrder
BY ThreadImplementsLoop, RunsTasksInOrder, PTL

\* Where the new thread is, whether loop_ is set, and how far the loop can be.
ThreadInv ==
    /\ owner \in {"new", "test", "waiting", "started", "join", "joined"}
    /\ thread \in {"none", "running", "failed", "looping", "finished"}
    /\ owner = "new" <=> thread = "none"
    /\ loop_ <=> thread \in {"looping", "finished"}
    /\ thread \in {"none", "running", "failed"} => pc = "created"
    /\ thread = "finished" => pc = "returned"
    /\ owner \in {"started", "join", "joined"} => loop_
    /\ owner = "joined" => thread = "finished"

\* startLoop never returns NULL, whatever wakes its wait up; loop() runs only
\* inside threadFunc; and when join() returns the thread has left loop(), so
\* that the loop on its stack is not destroyed while it runs.
LoopOutlivesUse == /\ owner \in {"started", "join", "joined"} => loop_
                   /\ looping_ => thread = "looping"
                   /\ owner = "joined" => pc = "returned"

\* The loop startLoop hands out has been made, and it is left before its thread
\* is joined, for any order of the owner, the thread and the callers.
THEOREM ThreadOutlivesLoop == ThreadSpec => []LoopOutlivesUse
<1>1. ThreadInit => ThreadInv
  BY DEF ThreadInit, Init, ThreadInv
<1>2. TypeOK /\ ThreadInv /\ [ThreadNext]_allVars => ThreadInv'
  <2> SUFFICES ASSUME TypeOK, ThreadInv, [ThreadNext]_allVars PROVE ThreadInv'
    OBVIOUS
  <2>1. CASE StartThread \/ TestLoop \/ SpuriousWakeup \/ Join
    BY <2>1 DEF StartThread, TestLoop, SpuriousWakeup, Join, ThreadInv, vars
  <2>2. CASE Publish \/ Finish
    BY <2>2 DEF Publish, Finish, ThreadInv, vars
  <2>3. CASE Destroy
    BY <2>3 DEF Destroy, Quit, ThreadInv
  <2>4. CASE RunLoop \/ RunLoopOther
    <3>1. thread = "looping" /\ UNCHANGED <<owner, thread, loop_>>
      BY <2>4 DEF RunLoop, RunLoopOther, threadVars
    <3> QED
      BY <3>1 DEF ThreadInv
  <2>5. ASSUME NEW t \in Threads, Call(t) \/ CallEnds(t)
        PROVE  ThreadInv'
    <3>1. UNCHANGED <<owner, thread, loop_, pc>>
      BY <2>5 DEF Call, CallEnds, QueueInLoop, Quit, Wakeup, threadVars
    <3> QED
      BY <3>1 DEF ThreadInv
  <2>6. CASE UNCHANGED allVars
    BY <2>6 DEF allVars, vars, threadVars, ThreadInv
  <2> QED
    BY <2>1, <2>2, <2>3, <2>4, <2>5, <2>6 DEF ThreadNext
<1>3. TypeOK /\ ThreadInv => LoopOutlivesUse
  BY DEF TypeOK, ThreadInv, LoopOutlivesUse
<1> QED
  BY <1>1, <1>2, <1>3, ThreadImplementsLoop, TypeCorrect, PTL DEF ThreadSpec
=============================================================================
