-------------------------- MODULE EventLoopThread --------------------------
(***************************************************************************)
(* A loop in a thread of its own (base/src/EventLoopThread.cpp, on         *)
(* base/src/Thread.cpp, base/inc/Mutex.h and base/inc/Condition.h): the    *)
(* owner starts the thread, waits until it has published its loop, hands   *)
(* the loop out, and in the end stops it and joins the thread.             *)
(*                                                                         *)
(* The loop is EventLoop's, with the steps its thread and its callers can  *)
(* take.  Every access to loop_ before startLoop returns is in a critical  *)
(* section of mutex_, and each section is one step.                        *)
(***************************************************************************)
EXTENDS EventLoop

CONSTANT Owner          \* one of Threads

ASSUME OwnerAssumption == Owner \in Threads

VARIABLES owner,        \* where the owner is in startLoop or ~EventLoopThread
          thread,       \* where the new thread is in threadFunc
          loop_,        \* loop_ # NULL
          early         \* history: quit() was called before loop()

threadVars == <<owner, thread, loop_, early>>

ThreadInit == /\ Init
              /\ owner = "new" /\ thread = "none" /\ loop_ = FALSE /\ early = FALSE
-----------------------------------------------------------------------------
(* The owner. *)

\* Thread::start: pthread_create may fail, which is only reported.
StartThread == /\ owner = "new"
               /\ owner' = "test"
               /\ thread' \in {"running", "failed"}
               /\ UNCHANGED <<vars, loop_, early>>

\* while (loop_ == NULL) cond_.wait(), one round of it.
TestLoop == /\ owner = "test"
            /\ owner' = IF loop_ THEN "started" ELSE "waiting"
            /\ UNCHANGED <<vars, thread, loop_, early>>

\* pthread_cond_wait may return without a signal.
SpuriousWakeup == /\ owner = "waiting"
                  /\ owner' = "test"
                  /\ UNCHANGED <<vars, thread, loop_, early>>

\* ~EventLoopThread, loop_->quit(); its second half is Wakeup(Owner).
Destroy == /\ owner = "started"
           /\ Quit(Owner)
           /\ owner' = "join"
           /\ early' = (pc = "created")
           /\ UNCHANGED <<thread, loop_>>

\* thread_.join() returns.
Join == /\ owner = "join" /\ caller[Owner] = "idle" /\ thread = "finished"
        /\ owner' = "joined"
        /\ UNCHANGED <<vars, thread, loop_, early>>
-----------------------------------------------------------------------------
(* The new thread: threadFunc. *)

MutantPublish == /\ thread = "running"
                 /\ thread' = "looping" /\ loop_' = TRUE
                 /\ UNCHANGED <<vars, owner, early>>

\* loop_ = &loop and cond_.notify(), under mutex_.
Publish == /\ thread = "running"
           /\ thread' = "looping" /\ loop_' = TRUE
           /\ owner' = IF owner = "waiting" THEN "test" ELSE owner
           /\ UNCHANGED <<vars, early>>

\* A step of loop().
RunLoop == /\ thread = "looping"
           /\ LoopStep
           /\ UNCHANGED threadVars

RunLoopOther == /\ thread = "looping"
                /\ PollOther \/ UserCode
                /\ UNCHANGED threadVars

\* threadFunc returns, and the loop is destroyed with its frame.
Finish == /\ thread = "looping" /\ pc = "returned"
          /\ thread' = "finished"
          /\ UNCHANGED <<vars, owner, loop_, early>>
-----------------------------------------------------------------------------
\* The threads that have got the loop from startLoop use it while it is there.
Call(t) == /\ owner = "started" /\ thread = "looping"
           /\ QueueInLoop(t) \/ Quit(t)
           /\ early' = (early \/ (quit_' /\ ~quit_ /\ pc = "created"))
           /\ UNCHANGED <<owner, thread, loop_>>

CallEnds(t) == Wakeup(t) /\ UNCHANGED threadVars

ThreadNext == \/ StartThread \/ TestLoop \/ SpuriousWakeup \/ Destroy \/ Join
              \/ Publish \/ RunLoop \/ RunLoopOther \/ Finish
              \/ \E t \in Threads : Call(t) \/ CallEnds(t)

allVars == <<vars, threadVars>>

ThreadSpec == ThreadInit /\ [][ThreadNext]_allVars

\* Both threads are run by the scheduler; poll() need not time out, and no
\* wakeup of the condition variable comes by itself.
ThreadFairness == /\ WF_allVars(TestLoop) /\ WF_allVars(Join)
                  /\ WF_allVars(Publish \/ RunLoop \/ Finish)
                  /\ \A t \in Threads : WF_allVars(CallEnds(t))

ThreadFairSpec == ThreadSpec /\ ThreadFairness
-----------------------------------------------------------------------------
(* Properties. *)

\* startLoop returns, whatever the order in which the two threads reach the
\* mutex, if the thread could be created.
StartReturns == owner = "test" ~> owner = "started" \/ thread = "failed"

\* ~EventLoopThread: the join returns, unless quit() came between the moment
\* the loop was published and the moment loop() reset quit_.
JoinReturns == owner = "join" ~> owner = "joined" \/ early
=============================================================================
