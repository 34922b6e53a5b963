----------------------------- MODULE TcpServer -----------------------------
(***************************************************************************)
(* TcpServer with its Acceptor and EventLoopThreadPool: connections are    *)
(* accepted by the base loop, given to the loops of the pool in turn, and  *)
(* torn down by three hops between the loop of the connection and the base *)
(* loop.  P2PCServer uses four pool threads, P2PServer none: its           *)
(* connections live in the base loop, and runInLoop runs its argument at   *)
(* once where two loops would exchange a functor.                          *)
(*                                                                         *)
(* A loop is what EventLoop is shown to implement, a SerialExecutor of its *)
(* functors (queue), that handles the events of its connections in         *)
(* between.  A connection is its number, nextConnId_ when it was accepted. *)
(* The servers live as long as their process: ~TcpServer is not modelled.  *)
(***************************************************************************)
EXTENDS Integers, Sequences, FiniteSets

CONSTANTS MaxThreads,    \* bound on the threads of the pool
          MaxFds,        \* descriptors the process may have for connections
          MaxBacklog,    \* bound on connections that wait to be accepted
          MaxConns       \* bound on the connections made in one behaviour

ASSUME ServerAssumption == /\ MaxThreads \in Nat
                           /\ {MaxFds, MaxBacklog, MaxConns} \subseteq Nat \ {0}

Base == 0
Loops == 0..MaxThreads
Conns == 1..MaxConns

VARIABLES numThreads_,   \* threads of the pool
          listenning_,
          loops_,        \* number of pool loops started
          next_, nextConnId_,
          connections_,
          ioLoop,        \* c -> TcpConnection::loop_
          state_,        \* c -> TcpConnection::state_, "none" before it exists
          polled,        \* c -> its channel in the poller of its loop
          queue,         \* l -> functors queued in loop l
          handling,      \* l -> the connection whose handleClose runs, or 0
          backlog,       \* connections that wait to be accepted
          eof            \* c -> the other end has closed

vars == <<numThreads_, listenning_, loops_, next_, nextConnId_, connections_,
          ioLoop, state_, polled, queue, handling, backlog, eof>>
poolVars == <<numThreads_, listenning_, loops_, next_, nextConnId_, ioLoop>>

\* setThreadNum has been called before start.
Init == /\ numThreads_ \in 0..MaxThreads
        /\ listenning_ = FALSE /\ loops_ = 0 /\ next_ = 0
        /\ nextConnId_ = 1 /\ connections_ = {}
        /\ ioLoop = [c \in Conns |-> Base]
        /\ state_ = [c \in Conns |-> "none"]
        /\ polled = [c \in Conns |-> "no"]
        /\ queue = [l \in Loops |-> <<>>]
        /\ handling = [l \in Loops |-> 0]
        /\ backlog = 0
        /\ eof = [c \in Conns |-> FALSE]
-----------------------------------------------------------------------------
(* Ownership. *)

Queued(c) == \E l \in Loops : \E i \in 1..Len(queue[l]) : queue[l][i][2] = c

\* The shared_ptrs to connection c: the map's, those bound in functors, and
\* the guard of its running handler.  Without one it has been destroyed.
Held(c) == c \in connections_ \/ Queued(c) \/ \E l \in Loops : handling[l] = c

\* The descriptors in use: the socket is closed by the destructor.
OpenFds == Cardinality({c \in Conns : state_[c] # "none" /\ Held(c)})
-----------------------------------------------------------------------------
(* EventLoopThreadPool and Acceptor::listen. *)

\* start: startLoop returns when the thread has published its loop.
StartLoop == /\ ~listenning_ /\ loops_ < numThreads_
             /\ loops_' = loops_ + 1
             /\ UNCHANGED <<numThreads_, listenning_, next_, nextConnId_, connections_,
                            ioLoop, state_, polled, queue, handling, backlog, eof>>

Listen == /\ ~listenning_ /\ loops_ = numThreads_
          /\ listenning_' = TRUE
          /\ UNCHANGED <<numThreads_, loops_, next_, nextConnId_, connections_, ioLoop,
                         state_, polled, queue, handling, backlog, eof>>

\* The loop a new connection gets; loops_[i] of the code is loop i + 1.
getNextLoop == IF loops_ = 0 THEN Base ELSE next_ + 1

MutantNextIndex == IF next_ + 1 > loops_ THEN 0 ELSE next_ + 1

MutantSameLoop == next_

\* The index getNextLoop leaves for the next connection.
NextIndex == IF next_ + 1 >= loops_ THEN 0 ELSE next_ + 1
-----------------------------------------------------------------------------
(* Acceptor::handleRead. *)

\* TcpConnection::connectEstablished, with the UP callback.
Established(c) == /\ state_' = [state_ EXCEPT ![c] = "kConnected"]
                  /\ polled' = [polled EXCEPT ![c] = "reading"]

\* accept() succeeds: TcpServer::newConnection.
Accept ==
    /\ backlog > 0 /\ handling[Base] = 0 /\ OpenFds < MaxFds
    /\ LET c == nextConnId_
           l == getNextLoop
       IN  /\ ioLoop' = [ioLoop EXCEPT ![c] = l]
           /\ next_' = NextIndex
           /\ nextConnId_' = c + 1
           /\ connections_' = connections_ \cup {c}
           /\ IF l = Base THEN Established(c) /\ UNCHANGED queue
              ELSE /\ state_' = [state_ EXCEPT ![c] = "kConnecting"]
                   /\ queue' = [queue EXCEPT ![l] = Append(@, <<"connectEstablished", c>>)]
                   /\ UNCHANGED polled
    /\ backlog' = backlog - 1
    /\ UNCHANGED <<numThreads_, listenning_, loops_, handling, eof>>

MutantAcceptAtLimit == /\ backlog > 0 /\ handling[Base] = 0 /\ OpenFds = MaxFds
                       /\ UNCHANGED vars

\* accept() fails with EMFILE: idleFd_ makes room to accept the connection and
\* close it, and is opened again.
AcceptAtLimit == /\ backlog > 0 /\ handling[Base] = 0 /\ OpenFds = MaxFds
                 /\ backlog' = backlog - 1
                 /\ UNCHANGED <<poolVars, connections_, state_, polled, queue,
                                handling, eof>>

\* accept() fails with ECONNABORTED: the kernel has dropped the connection.
AcceptAborted == /\ backlog > 0 /\ handling[Base] = 0 /\ OpenFds < MaxFds
                 /\ backlog' = backlog - 1
                 /\ UNCHANGED <<poolVars, connections_, state_, polled, queue,
                                handling, eof>>

\* One event of acceptChannel_.
AcceptorHandleRead == Accept \/ AcceptAtLimit \/ AcceptAborted
-----------------------------------------------------------------------------
(* The events of a connection, handled in its loop. *)

Readable(c) == /\ polled[c] = "reading" /\ Held(c)
               /\ handling[ioLoop[c]] = 0

\* handleRead with a message whose callback shuts the connection down, as
\* P2PServer does after its list of neighbours; other messages change nothing.
Shutdown(c) == /\ Readable(c) /\ state_[c] = "kConnected" /\ ~eof[c]
               /\ state_' = [state_ EXCEPT ![c] = "kDisconnecting"]
               /\ UNCHANGED <<poolVars, connections_, polled, queue, handling,
                              backlog, eof>>

\* removeConnectionInLoop(c): what it makes of the queues.
ConnectionErased(q, c) ==
    [q EXCEPT ![ioLoop[c]] = Append(@, <<"connectDestroyed", c>>)]

MutantHandleClose(c) ==
    /\ Readable(c) /\ eof[c]
    /\ state_' = [state_ EXCEPT ![c] = "kDisconnected"]
    /\ handling' = [handling EXCEPT ![ioLoop[c]] = c]
    /\ IF ioLoop[c] = Base
       THEN /\ connections_' = connections_ \ {c}
            /\ queue' = ConnectionErased(queue, c)
       ELSE /\ queue' = [queue EXCEPT ![Base] = Append(@, <<"removeConnectionInLoop", c>>)]
            /\ UNCHANGED connections_
    /\ UNCHANGED <<poolVars, polled, backlog, eof>>

MutantNoCloseCallback(c) ==
    /\ Readable(c) /\ eof[c]
    /\ state_' = [state_ EXCEPT ![c] = "kDisconnected"]
    /\ polled' = [polled EXCEPT ![c] = "disabled"]
    /\ handling' = [handling EXCEPT ![ioLoop[c]] = c]
    /\ UNCHANGED <<poolVars, connections_, queue, backlog, eof>>

\* handleRead with 0 bytes: handleClose, the DOWN callback and closeCallback_,
\* TcpServer::removeConnection, up to the return of handleEvent.
HandleClose(c) ==
    /\ Readable(c) /\ eof[c]
    /\ state_' = [state_ EXCEPT ![c] = "kDisconnected"]
    /\ polled' = [polled EXCEPT ![c] = "disabled"]
    /\ handling' = [handling EXCEPT ![ioLoop[c]] = c]
    /\ IF ioLoop[c] = Base
       THEN /\ connections_' = connections_ \ {c}
            /\ queue' = ConnectionErased(queue, c)
       ELSE /\ queue' = [queue EXCEPT ![Base] = Append(@, <<"removeConnectionInLoop", c>>)]
            /\ UNCHANGED connections_
    /\ UNCHANGED <<poolVars, backlog, eof>>

HandlerReturns(l) == /\ handling[l] # 0
                     /\ handling' = [handling EXCEPT ![l] = 0]
                     /\ UNCHANGED <<poolVars, connections_, state_, polled, queue,
                                    backlog, eof>>
-----------------------------------------------------------------------------
(* The functors. *)

\* The functor at the head of loop l's queue is f, on connection c.
Runs(l, f, c) == /\ handling[l] = 0 /\ queue[l] # <<>>
                 /\ Head(queue[l]) = <<f, c>>

Popped(l) == [queue EXCEPT ![l] = Tail(@)]

MutantConnectEstablished(l, c) ==
    /\ Runs(l, "connectEstablished", c)
    /\ queue' = Popped(l)
    /\ polled' = [polled EXCEPT ![c] = "reading"]
    /\ UNCHANGED <<poolVars, state_, connections_, handling, backlog, eof>>

ConnectEstablished(l, c) == /\ Runs(l, "connectEstablished", c)
                            /\ queue' = Popped(l)
                            /\ Established(c)
                            /\ UNCHANGED <<poolVars, connections_, handling, backlog, eof>>

MutantRemoveConnectionInLoop(l, c) ==
    /\ Runs(l, "removeConnectionInLoop", c)
    /\ connections_' = connections_ \ {c}
    /\ queue' = Popped(l)
    /\ UNCHANGED <<poolVars, state_, polled, handling, backlog, eof>>

RemoveConnectionInLoop(l, c) ==
    /\ Runs(l, "removeConnectionInLoop", c)
    /\ connections_' = connections_ \ {c}
    /\ queue' = ConnectionErased(Popped(l), c)
    /\ UNCHANGED <<poolVars, state_, polled, handling, backlog, eof>>

\* state_ is kDisconnected by now, so only the channel is removed.
ConnectDestroyed(l, c) == /\ Runs(l, "connectDestroyed", c)
                          /\ queue' = Popped(l)
                          /\ polled' = [polled EXCEPT ![c] = "no"]
                          /\ UNCHANGED <<poolVars, connections_, state_, handling,
                                         backlog, eof>>
-----------------------------------------------------------------------------
(* The other processes. *)

ClientConnects == /\ listenning_ /\ backlog < MaxBacklog
                  /\ nextConnId_ + backlog <= MaxConns
                  /\ backlog' = backlog + 1
                  /\ UNCHANGED <<poolVars, connections_, state_, polled, queue,
                                 handling, eof>>

\* Maybe before the connection is established here.
PeerCloses(c) == /\ state_[c] # "none" /\ ~eof[c]
                 /\ eof' = [eof EXCEPT ![c] = TRUE]
                 /\ UNCHANGED <<poolVars, connections_, state_, polled, queue,
                                handling, backlog>>
-----------------------------------------------------------------------------
RunFunctor(l) == \E c \in Conns : \/ ConnectEstablished(l, c)
                                  \/ RemoveConnectionInLoop(l, c)
                                  \/ ConnectDestroyed(l, c)

Next == \/ StartLoop \/ Listen \/ AcceptorHandleRead \/ ClientConnects
        \/ \E c \in Conns : Shutdown(c) \/ HandleClose(c) \/ PeerCloses(c)
        \/ \E l \in Loops : RunFunctor(l) \/ HandlerReturns(l)

Spec == Init /\ [][Next]_vars

\* Every loop keeps running its functors and the events poll() reports, and
\* callbacks return (EventLoop!EveryTaskRuns, and poll() is level-triggered).
Fairness == /\ \A l \in Loops : WF_vars(RunFunctor(l)) /\ WF_vars(HandlerReturns(l))
            /\ \A c \in Conns : WF_vars(HandleClose(c))
            /\ WF_vars(AcceptorHandleRead)

FairSpec == Spec /\ Fairness
-----------------------------------------------------------------------------
(* Properties. *)

Functors == {"connectEstablished", "removeConnectionInLoop", "connectDestroyed"}

\* The variables keep their types.
TypeOK == /\ numThreads_ \in 0..MaxThreads /\ listenning_ \in BOOLEAN
          /\ loops_ \in 0..numThreads_ /\ next_ \in 0..numThreads_
          /\ nextConnId_ \in 1..(MaxConns + 1)
          /\ connections_ \subseteq Conns
          /\ ioLoop \in [Conns -> Loops]
          /\ state_ \in [Conns -> {"none", "kConnecting", "kConnected",
                                   "kDisconnecting", "kDisconnected"}]
          /\ polled \in [Conns -> {"no", "reading", "disabled"}]
          /\ queue \in [Loops -> Seq(Functors \X Conns)]
          /\ handling \in [Loops -> Conns \cup {0}]
          /\ backlog \in 0..MaxBacklog
          /\ eof \in [Conns -> BOOLEAN]

\* The functor is queued in loop l, at one place.
QueuedOnce(l, f, c) == /\ \E i \in 1..Len(queue[l]) : queue[l][i] = <<f, c>>
                       /\ \A i, j \in 1..Len(queue[l]) :
                             queue[l][i] = <<f, c>> /\ queue[l][j] = <<f, c>> => i = j

\* What a functor finds when it runs, its asserts: connectEstablished a
\* connection that is kConnecting and was never polled; removeConnectionInLoop
\* one that is in the map (n == 1); connectDestroyed one that is closed, out of
\* the map, and in the poller with no event enabled.  Each is queued once, and
\* in the loop it asserts to be in.
FunctorsFindTheirState ==
    \A l \in Loops : \A i \in 1..Len(queue[l]) :
       LET f == queue[l][i][1]
           c == queue[l][i][2]
       IN  /\ QueuedOnce(l, f, c)
           /\ f = "connectEstablished" =>
                 l = ioLoop[c] /\ state_[c] = "kConnecting" /\ polled[c] = "no"
           /\ f = "removeConnectionInLoop" =>
                 l = Base /\ c \in connections_ /\ state_[c] = "kDisconnected"
           /\ f = "connectDestroyed" =>
                 /\ l = ioLoop[c] /\ c \notin connections_
                 /\ state_[c] = "kDisconnected" /\ polled[c] = "disabled"

\* PollPoller, fillActiveChannels: a channel known to a poller belongs to a
\* connection that exists, whatever loop lets go of it last.
PolledIsOwned == \A c \in Conns : polled[c] # "no" => Held(c)

Assigned(l) == Cardinality({c \in 1..(nextConnId_ - 1) : ioLoop[c] = l})

\* getNextLoop: round-robin; the loops of the pool are given the same number
\* of connections, give or take one, and the base loop none.
LoadIsBalanced == numThreads_ > 0 => /\ Assigned(Base) = 0
                                     /\ \A k, l \in 1..numThreads_ : Assigned(k) - Assigned(l) <= 1

Phase(c) == IF state_[c] = "none" THEN "new"
            ELSE IF ~Held(c) THEN "gone"
            ELSE IF state_[c] = "kConnecting" THEN "new"
            ELSE IF state_[c] = "kDisconnected" THEN "down" ELSE "up"

Lifecycle == INSTANCE ConnectionLifecycle WITH phase <- [c \in Conns |-> Phase(c)]

\* connectEstablished, handleClose, connectDestroyed: up once, down once, then
\* destroyed, for every interleaving of the loops.
LifecycleOK == Lifecycle!Spec

\* removeConnection: a connection the other end has closed is released, with
\* its descriptor.
ClosedIsReleased == \A c \in Conns : eof[c] ~> ~Held(c)

\* Acceptor::handleRead: a full backlog does not stay full, although all the
\* descriptors are in use and no connection is ever closed.
BacklogDrains == backlog = MaxBacklog ~> backlog < MaxBacklog
=============================================================================
