----------------------------- MODULE EventLoop -----------------------------
(***************************************************************************)
(* One EventLoop (base/src/EventLoop.cpp): the thread that runs loop(),    *)
(* the threads that hand it work with queueInLoop() or runInLoop() and     *)
(* stop it with quit(), and the eventfd that wakes it out of poll().       *)
(*                                                                         *)
(* The mutex protects pendingFunctors_ alone, so a call from another       *)
(* thread is two steps, the push (or quit_ = true) and the wakeup.  The    *)
(* same call from the loop's own thread is one step: only that thread      *)
(* reads the eventfd.  A task is its number in the order of the pushes.    *)
(***************************************************************************)
EXTENDS Naturals, Sequences

CONSTANTS Threads,      \* threads other than the loop's own
          Channels,     \* file descriptors polled besides wakeupFd_
          WakeupChannel,
          None,         \* currentActiveChannel_ = NULL
          EventfdMax,   \* largest value of the eventfd counter
          MaxTasks      \* bound on the tasks queued in one behaviour

ASSUME ChannelAssumption == /\ WakeupChannel \notin Channels
                            /\ None \notin Channels \cup {WakeupChannel}
ASSUME BoundAssumption == EventfdMax \in Nat \ {0} /\ MaxTasks \in Nat

VARIABLES pc,                      \* where the loop thread is in loop()
          looping_, quit_, eventHandling_, callingPendingFunctors_,
          activeChannels_, currentActiveChannel_,
          pendingFunctors_,
          functors,                \* doPendingFunctors: what is left to run
          running,                 \* the functor being run, 0 for none
          wakeupFd_,               \* the eventfd counter
          caller,                  \* what each other thread is about to do
          done                     \* history: the tasks run, in order

vars == <<pc, looping_, quit_, eventHandling_, callingPendingFunctors_,
          activeChannels_, currentActiveChannel_, pendingFunctors_, functors,
          running, wakeupFd_, caller, done>>

flags == <<looping_, quit_, eventHandling_, callingPendingFunctors_>>
events == <<activeChannels_, currentActiveChannel_>>
work == <<pendingFunctors_, functors, running, done>>

AllChannels == Channels \cup {WakeupChannel}

TaskCount == Len(done) + Len(functors) + Len(pendingFunctors_)

Init == /\ pc = "created"
        /\ looping_ = FALSE /\ quit_ = FALSE
        /\ eventHandling_ = FALSE /\ callingPendingFunctors_ = FALSE
        /\ activeChannels_ = {} /\ currentActiveChannel_ = None
        /\ pendingFunctors_ = <<>> /\ functors = <<>> /\ running = 0
        /\ wakeupFd_ = 0
        /\ caller = [t \in Threads |-> "idle"]
        /\ done = <<>>
-----------------------------------------------------------------------------
(* Calls that hand work to the loop. *)

\* wakeup(): the non-blocking eventfd keeps its value when it is full.
WakeupValue == IF wakeupFd_ < EventfdMax THEN wakeupFd_ + 1 ELSE wakeupFd_

MutantPush == /\ TaskCount < MaxTasks
              /\ pendingFunctors_' = <<TaskCount + 1>> \o pendingFunctors_

\* push_back under the mutex.
Push == /\ TaskCount < MaxTasks
        /\ pendingFunctors_' = Append(pendingFunctors_, TaskCount + 1)

MutantQueueInLoop(t) == /\ caller[t] = "idle"
                        /\ Push
                        /\ UNCHANGED <<pc, flags, events, functors, running,
                                       wakeupFd_, done, caller>>

\* queueInLoop, and runInLoop which ends in it, called by another thread.
QueueInLoop(t) == /\ caller[t] = "idle"
                  /\ Push
                  /\ caller' = [caller EXCEPT ![t] = "wakeup"]
                  /\ UNCHANGED <<pc, flags, events, functors, running,
                                 wakeupFd_, done>>

MutantQuit(t) == /\ caller[t] = "idle"
                 /\ quit_' = TRUE
                 /\ UNCHANGED <<pc, looping_, eventHandling_,
                                callingPendingFunctors_, events, work,
                                wakeupFd_, caller>>

\* quit called by another thread.
Quit(t) == /\ caller[t] = "idle"
           /\ quit_' = TRUE
           /\ caller' = [caller EXCEPT ![t] = "wakeup"]
           /\ UNCHANGED <<pc, looping_, eventHandling_, callingPendingFunctors_,
                          events, work, wakeupFd_>>

\* The second half of either call.
Wakeup(t) == /\ caller[t] = "wakeup"
             /\ wakeupFd_' = WakeupValue
             /\ caller' = [caller EXCEPT ![t] = "idle"]
             /\ UNCHANGED <<pc, flags, events, work>>

\* User code runs in the loop thread: a channel's callback or a functor.
InUserCode == \/ pc = "events" /\ currentActiveChannel_ \in Channels
              \/ pc = "functors" /\ running # 0

MutantQueueFromLoop == /\ InUserCode
                       /\ Push
                       /\ UNCHANGED <<pc, flags, events, functors, running,
                                      caller, done, wakeupFd_>>

\* queueInLoop called by a callback: wakes the loop only from a functor.
\* (runInLoop called here runs its argument at once, as part of the caller.)
QueueFromLoop == /\ InUserCode
                 /\ Push
                 /\ wakeupFd_' = IF callingPendingFunctors_ THEN WakeupValue
                                                            ELSE wakeupFd_
                 /\ UNCHANGED <<pc, flags, events, functors, running, caller,
                                done>>

\* quit called by a callback: no wakeup is needed.
QuitFromLoop == /\ InUserCode
                /\ quit_' = TRUE
                /\ UNCHANGED <<pc, looping_, eventHandling_,
                               callingPendingFunctors_, events, work,
                               wakeupFd_, caller>>
-----------------------------------------------------------------------------
(* The loop thread. *)

\* loop() is entered.
Start == /\ pc = "created"
         /\ looping_' = TRUE /\ quit_' = FALSE
         /\ pc' = "while"
         /\ UNCHANGED <<eventHandling_, callingPendingFunctors_, events, work,
                        wakeupFd_, caller>>

\* while (!quit_)
TestQuit == /\ pc = "while"
            /\ \/ /\ ~quit_
                  /\ pc' = "poll" /\ activeChannels_' = {}
                  /\ UNCHANGED looping_
               \/ /\ quit_
                  /\ pc' = "returned" /\ looping_' = FALSE
                  /\ UNCHANGED activeChannels_
            /\ UNCHANGED <<quit_, eventHandling_, callingPendingFunctors_,
                           currentActiveChannel_, work, wakeupFd_, caller>>

\* poll() returns with every ready descriptor; the eventfd is ready exactly
\* when its counter is positive.
PollReturns(ready) ==
    /\ pc = "poll"
    /\ WakeupChannel \in ready <=> wakeupFd_ > 0
    /\ activeChannels_' = ready
    /\ eventHandling_' = TRUE
    /\ pc' = "events"
    /\ UNCHANGED <<looping_, quit_, callingPendingFunctors_,
                   currentActiveChannel_, work, wakeupFd_, caller>>

PollAwakened == \E ready \in SUBSET Channels : PollReturns(ready \cup {WakeupChannel})

\* Input on another descriptor, or the 10 second timeout (no descriptor).
PollOther == \E ready \in SUBSET Channels : PollReturns(ready)

\* The next active channel's handleEvent is called.  EventLoop::handleRead,
\* the callback of the wakeup channel, reads the eventfd and so resets it.
HandleEvent == /\ pc = "events" /\ currentActiveChannel_ = None
               /\ \E c \in activeChannels_ :
                     /\ activeChannels_' = activeChannels_ \ {c}
                     /\ currentActiveChannel_' = c
                     /\ wakeupFd_' = IF c = WakeupChannel THEN 0 ELSE wakeupFd_
               /\ UNCHANGED <<pc, flags, work, caller>>

\* ... and returns.
EventHandled == /\ pc = "events" /\ currentActiveChannel_ # None
                /\ currentActiveChannel_' = None
                /\ UNCHANGED <<pc, flags, activeChannels_, work, wakeupFd_,
                               caller>>

\* The for loop ends and doPendingFunctors is entered.
EventsDone == /\ pc = "events" /\ currentActiveChannel_ = None
              /\ activeChannels_ = {}
              /\ eventHandling_' = FALSE /\ callingPendingFunctors_' = TRUE
              /\ pc' = "swap"
              /\ UNCHANGED <<looping_, quit_, events, work, wakeupFd_, caller>>

\* functors.swap(pendingFunctors_) under the mutex.
Swap == /\ pc = "swap"
        /\ functors' = pendingFunctors_ /\ pendingFunctors_' = <<>>
        /\ pc' = "functors"
        /\ UNCHANGED <<flags, events, running, wakeupFd_, caller, done>>

\* functors[i]() is called.
RunFunctor == /\ pc = "functors" /\ running = 0 /\ functors # <<>>
              /\ running' = Head(functors)
              /\ functors' = Tail(functors)
              /\ done' = Append(done, Head(functors))
              /\ UNCHANGED <<pc, flags, events, pendingFunctors_, wakeupFd_,
                             caller>>

\* ... and returns.
FunctorReturns == /\ pc = "functors" /\ running # 0
                  /\ running' = 0
                  /\ UNCHANGED <<pc, flags, events, pendingFunctors_, functors,
                                 wakeupFd_, caller, done>>

MutantFunctorsDone == /\ pc = "functors" /\ running = 0 /\ functors = <<>>
                      /\ pc' = "while"
                      /\ UNCHANGED <<flags, events, work, wakeupFd_, caller>>

\* doPendingFunctors returns.
FunctorsDone == /\ pc = "functors" /\ running = 0 /\ functors = <<>>
                /\ callingPendingFunctors_' = FALSE
                /\ pc' = "while"
                /\ UNCHANGED <<looping_, quit_, eventHandling_, events, work,
                               wakeupFd_, caller>>
-----------------------------------------------------------------------------
\* The steps of loop() that need nothing but the processor.
LoopStep == \/ Start \/ TestQuit \/ PollAwakened \/ HandleEvent \/ EventHandled
            \/ EventsDone \/ Swap \/ RunFunctor \/ FunctorReturns \/ FunctorsDone

UserCode == QueueFromLoop \/ QuitFromLoop

OtherThread(t) == QueueInLoop(t) \/ Quit(t) \/ Wakeup(t)

Next == \/ LoopStep \/ PollOther \/ UserCode
        \/ \E t \in Threads : OtherThread(t)

Spec == Init /\ [][Next]_vars
-----------------------------------------------------------------------------
(* Properties. *)

\* The variables keep their types, and the flags of loop() agree with the
\* place in loop() that sets and clears them.
TypeOK ==
    /\ pc \in {"created", "while", "poll", "events", "swap", "functors", "returned"}
    /\ {looping_, quit_, eventHandling_, callingPendingFunctors_} \subseteq BOOLEAN
    /\ looping_ <=> pc \notin {"created", "returned"}
    /\ eventHandling_ <=> pc = "events"
    /\ callingPendingFunctors_ <=> pc \in {"swap", "functors"}
    /\ activeChannels_ \subseteq AllChannels
    /\ currentActiveChannel_ \in AllChannels \cup {None}
    /\ pc # "events" => activeChannels_ = {} /\ currentActiveChannel_ = None
    /\ pendingFunctors_ \in Seq(Nat) /\ functors \in Seq(Nat) /\ done \in Seq(Nat)
    /\ running \in Nat
    /\ pc # "functors" => functors = <<>> /\ running = 0
    /\ wakeupFd_ \in 0..EventfdMax
    /\ caller \in [Threads -> {"idle", "wakeup"}]

\* A wakeup is on its way to, or waiting at, the eventfd.
WakeupComing == wakeupFd_ > 0 \/ \E t \in Threads : caller[t] = "wakeup"

\* queueInLoop / wakeup / handleRead: the loop never blocks in poll() over
\* queued work, or over a request to quit, that nobody will wake it up for.
NoLostWakeup == pc = "poll" /\ (pendingFunctors_ # <<>> \/ quit_) => WakeupComing

\* The strengthening of NoLostWakeup that the steps of the loop preserve:
\* the eventfd may be drained only between poll() and the swap, and quit_ may
\* be set without a wakeup only before it is tested again.
WakeupInv == /\ pc \in {"created", "while", "poll", "functors"} /\ pendingFunctors_ # <<>>
                   => WakeupComing
             /\ pc = "poll" /\ quit_ => WakeupComing

Executor == INSTANCE SerialExecutor WITH todo <- functors \o pendingFunctors_

\* doPendingFunctors with queueInLoop: tasks queued by any mix of threads,
\* callbacks and functors are run once each, in the order of the pushes.
RunsInOrder == Executor!Spec

\* queueInLoop: a task handed to a loop that is not told to quit is run,
\* even if poll() never times out and no other descriptor becomes ready.
EveryTaskRuns == \A k \in 1..MaxTasks :
                    TaskCount >= k ~> (Len(done) >= k \/ quit_ \/ pc = "returned")
=============================================================================
