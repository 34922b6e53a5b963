----------------------------- MODULE TimerQueue -----------------------------
(***************************************************************************)
(* TimerQueue (base/src/TimerQueue.cpp): timers handed over by any thread, *)
(* the timerfd, and handleRead, which should run the timers that are due.  *)
(* insert() only looks at timers_: it never puts the timer there, nor in   *)
(* activeTimers_, so cancel() finds nothing to undo and is left out.       *)
(* Timers are one-shot: nothing calls runEvery.                            *)
(***************************************************************************)
EXTENDS Naturals, Sequences, FiniteSetsExt

CONSTANTS Timers,
          MaxTime     \* bound on the clock, in ticks

Never == MaxTime + 1

VARIABLES now,
          expiration,  \* t -> when it is due
          added,       \* timers given to addTimer
          pending,     \* addTimerInLoop functors in the loop's queue
          timers_,
          alarm,       \* time the timerfd is set to, or Never
          readable,    \* the timerfd has expired and was not read
          ran          \* timers whose callback was called

vars == <<now, expiration, added, pending, timers_, alarm, readable, ran>>

Init == /\ now = 0 /\ expiration \in [Timers -> 1..MaxTime]
        /\ added = {} /\ pending = <<>> /\ timers_ = {}
        /\ alarm = Never /\ readable = FALSE /\ ran = {}
-----------------------------------------------------------------------------
\* addTimer, with runInLoop to another thread's loop.
AddTimer(t) == /\ t \notin added
               /\ added' = added \cup {t}
               /\ pending' = Append(pending, t)
               /\ UNCHANGED <<now, expiration, timers_, alarm, readable, ran>>

\* insert: earliestChanged, when timers_ is empty.
insert(t) == timers_ = {}

\* resetTimerfd, howMuchTimeFromNow: at least 100 microseconds from now.
resetTimerfd(when) == /\ alarm' = IF when > now THEN when ELSE now
                      /\ readable' = FALSE

AddTimerInLoop == /\ pending # <<>>
                  /\ pending' = Tail(pending)
                  /\ IF insert(Head(pending)) THEN resetTimerfd(expiration[Head(pending)])
                                              ELSE UNCHANGED <<alarm, readable>>
                  /\ UNCHANGED <<now, expiration, added, timers_, ran>>

\* Time passes; the timerfd expires once.
Tick == /\ now < MaxTime
        /\ now' = now + 1
        /\ UNCHANGED <<expiration, added, pending, timers_, alarm, readable, ran>>

Expire == /\ alarm <= now
          /\ readable' = TRUE /\ alarm' = Never
          /\ UNCHANGED <<now, expiration, added, pending, timers_, ran>>

getExpired == {t \in timers_ : expiration[t] <= now}

\* handleRead and reset.
HandleRead == /\ readable
              /\ timers_' = timers_ \ getExpired
              /\ ran' = ran \cup getExpired
              /\ IF timers_' # {} THEN resetTimerfd(Min({expiration[t] : t \in timers_'}))
                                  ELSE readable' = FALSE /\ UNCHANGED alarm
              /\ UNCHANGED <<now, expiration, added, pending>>

Next == \/ \E t \in Timers : AddTimer(t)
        \/ AddTimerInLoop \/ Tick \/ Expire \/ HandleRead

\* The loop runs its functors and the callbacks of ready descriptors
\* (EventLoop!EveryTaskRuns), time passes, and the timerfd works.
Fairness == WF_vars(AddTimerInLoop) /\ WF_vars(Tick) /\ WF_vars(Expire) /\ WF_vars(HandleRead)

FairSpec == Init /\ [][Next]_vars /\ Fairness
-----------------------------------------------------------------------------
(* Properties. *)

\* TimerQueue.h:32, addTimer: "schedules the callback to be run at given time".
AddedTimerRuns == \A t \in Timers : t \in added ~> t \in ran
=============================================================================
