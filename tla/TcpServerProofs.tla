-------------------------- MODULE TcpServerProofs --------------------------
(***************************************************************************)
(* Theorems about TcpServer, for any number of threads, descriptors and    *)
(* connections: every connection is in one stage of its life, and each of  *)
(* the functors the loops exchange finds it in the stage it asserts.       *)
(***************************************************************************)
EXTENDS TcpServer, SequenceTheorems, FiniteSetTheorems, TLAPS

Functor == Functors \X Conns

\* The functors in loop l's queue, when the queues are q.
Pending(q, l) == Range(q[l])

\* No functor is queued twice in a loop.
Single(q) == \A l \in Loops : IsInjective(q[l])
-----------------------------------------------------------------------------
(* Queues as sets. *)

\* queueInLoop adds one functor to those queued.
LEMMA AppendRange ==
    ASSUME NEW S, NEW s \in Seq(S), NEW x \in S
    PROVE  /\ Append(s, x) \in Seq(S)
           /\ Range(Append(s, x)) = Range(s) \cup {x}
           /\ IsInjective(s) /\ x \notin Range(s) => IsInjective(Append(s, x))
<1> DEFINE t == Append(s, x)
<1>1. /\ t \in Seq(S) /\ Len(s) \in Nat /\ DOMAIN s = 1..Len(s)
      /\ DOMAIN t = 1..(Len(s) + 1) /\ t[Len(s) + 1] = x
      /\ \A i \in 1..Len(s) : t[i] = s[i]
  OBVIOUS
<1> HIDE DEF t
<1>2. Range(t) = Range(s) \cup {x}
  BY <1>1 DEF Range
<1>3. ASSUME IsInjective(s), x \notin Range(s) PROVE IsInjective(t)
  BY <1>1, <1>3 DEF Range, IsInjective
<1> QED
  BY <1>1, <1>2, <1>3 DEF t

\* Running the first functor of a queue without duplicates takes it out.
LEMMA TailRange ==
    ASSUME NEW S, NEW s \in Seq(S), s # <<>>, IsInjective(s)
    PROVE  /\ Tail(s) \in Seq(S) /\ Head(s) \in Range(s)
           /\ Range(Tail(s)) = Range(s) \ {Head(s)}
           /\ IsInjective(Tail(s))
<1> DEFINE t == Tail(s)
<1>1. /\ t \in Seq(S) /\ Len(s) \in Nat \ {0} /\ DOMAIN s = 1..Len(s)
      /\ DOMAIN t = 1..(Len(s) - 1) /\ Head(s) = s[1]
      /\ \A i \in 1..(Len(s) - 1) : t[i] = s[i + 1]
  OBVIOUS
<1> HIDE DEF t
<1>2. Head(s) \in Range(s)
  BY <1>1 DEF Range
<1>3. ASSUME NEW y \in Range(t) PROVE y \in Range(s) \ {Head(s)}
  <2>1. PICK i \in 1..(Len(s) - 1) : y = s[i + 1]
    BY <1>1 DEF Range
  <2>2. i + 1 \in DOMAIN s /\ 1 \in DOMAIN s /\ i + 1 # 1
    BY <1>1
  <2> QED
    BY <1>1, <2>1, <2>2 DEF Range, IsInjective
<1>4. ASSUME NEW y \in Range(s), y # Head(s) PROVE y \in Range(t)
  <2>1. PICK i \in 1..Len(s) : y = s[i]
    BY <1>1 DEF Range
  <2>2. i - 1 \in 1..(Len(s) - 1) /\ (i - 1) + 1 = i
    BY <1>1, <1>4, <2>1
  <2>3. t[i - 1] = y
    BY <1>1, <2>1, <2>2
  <2> QED
    BY <1>1, <2>2, <2>3 DEF Range
<1>5. IsInjective(t)
  <2> SUFFICES ASSUME NEW i \in 1..(Len(s) - 1), NEW j \in 1..(Len(s) - 1), t[i] = t[j]
               PROVE  i = j
    BY <1>1 DEF IsInjective
  <2>1. s[i + 1] = s[j + 1] /\ i + 1 \in DOMAIN s /\ j + 1 \in DOMAIN s
    BY <1>1
  <2>2. i + 1 = j + 1
    BY <2>1 DEF IsInjective
  <2> QED
    BY <2>2
<1> QED
  BY <1>1, <1>2, <1>3, <1>4, <1>5 DEF t

\* queueInLoop: one queue grows by one functor.
Appended(q, l, x) == [q EXCEPT ![l] = Append(@, x)]

\* The queues after queueInLoop in one loop.
LEMMA QueueAppended ==
    ASSUME NEW q \in [Loops -> Seq(Functor)], NEW l \in Loops, NEW x \in Functor,
           NEW r, r = Appended(q, l, x)
    PROVE  /\ r \in [Loops -> Seq(Functor)]
           /\ \A k \in Loops : Pending(r, k) = IF k = l THEN Pending(q, k) \cup {x} ELSE Pending(q, k)
           /\ Single(q) /\ x \notin Pending(q, l) => Single(r)
<1>1. q[l] \in Seq(Functor)
  OBVIOUS
<1> DEFINE a == Append(q[l], x)
<1>2. /\ a \in Seq(Functor) /\ Range(a) = Range(q[l]) \cup {x}
      /\ IsInjective(q[l]) /\ x \notin Range(q[l]) => IsInjective(a)
  <2>1. PICK s, S : s = q[l] /\ S = Functor
    OBVIOUS
  <2>2. s \in Seq(S) /\ x \in S
    BY <1>1, <2>1
  <2>3. /\ Append(s, x) \in Seq(S) /\ Range(Append(s, x)) = Range(s) \cup {x}
        /\ IsInjective(s) /\ x \notin Range(s) => IsInjective(Append(s, x))
    BY <2>2, AppendRange
  <2> QED
    BY <2>1, <2>3
<1>3. r = [q EXCEPT ![l] = a]
  BY DEF Appended
<1> HIDE DEF a
<1>4. \A k \in Loops : r[k] = IF k = l THEN a ELSE q[k]
  BY <1>3
<1>5. r \in [Loops -> Seq(Functor)]
  BY <1>2, <1>3
<1> QED
  BY <1>2, <1>4, <1>5 DEF Pending, Single

\* doPendingFunctors: one queue loses its first functor.
LEMMA QueuePopped ==
    ASSUME NEW q \in [Loops -> Seq(Functor)], NEW l \in Loops, Single(q), q[l] # <<>>,
           NEW r, r = [q EXCEPT ![l] = Tail(@)]
    PROVE  /\ r \in [Loops -> Seq(Functor)]
           /\ Head(q[l]) \in Pending(q, l)
           /\ \A k \in Loops : Pending(r, k) = IF k = l THEN Pending(q, k) \ {Head(q[k])} ELSE Pending(q, k)
           /\ Single(r)
<1>1. q[l] \in Seq(Functor) /\ IsInjective(q[l])
  BY DEF Single
<1> DEFINE a == Tail(q[l])
<1>2. /\ a \in Seq(Functor) /\ Range(a) = Range(q[l]) \ {Head(q[l])}
      /\ IsInjective(a) /\ Head(q[l]) \in Range(q[l])
  BY <1>1, TailRange, Zenon
<1>3. r = [q EXCEPT ![l] = a]
  OBVIOUS
<1> HIDE DEF a
<1>4. \A k \in Loops : r[k] = IF k = l THEN a ELSE q[k]
  BY <1>3
<1>5. r \in [Loops -> Seq(Functor)]
  BY <1>2, <1>3
<1> QED
  BY <1>2, <1>4, <1>5 DEF Pending, Single
-----------------------------------------------------------------------------
(* The inductive invariant. *)

\* The counters: a connection that waits can be numbered, and the index into
\* loops_ is inside it.
CountersOK == /\ ~listenning_ => backlog = 0 /\ nextConnId_ = 1
              /\ listenning_ => loops_ = numThreads_
              /\ nextConnId_ + backlog <= MaxConns + 1
              /\ next_ = 0 \/ next_ < loops_

\* The stage connection c is in: not made; to be established; in use; closed and
\* in the map; closed, out of the map and in its poller; or only waiting for
\* the last shared_ptr to go.  The functor that ends a stage is queued.
StageOK(c) ==
    \/ /\ state_[c] = "none" /\ c >= nextConnId_
       /\ c \notin connections_ /\ polled[c] = "no"
    \/ /\ state_[c] = "kConnecting" /\ c < nextConnId_
       /\ c \in connections_ /\ polled[c] = "no"
       /\ <<"connectEstablished", c>> \in Pending(queue, ioLoop[c])
    \/ /\ state_[c] \in {"kConnected", "kDisconnecting"} /\ c < nextConnId_
       /\ c \in connections_ /\ polled[c] = "reading"
    \/ /\ state_[c] = "kDisconnected" /\ c < nextConnId_
       /\ c \in connections_ /\ polled[c] = "disabled"
       /\ <<"removeConnectionInLoop", c>> \in Pending(queue, Base)
    \/ /\ state_[c] = "kDisconnected" /\ c < nextConnId_
       /\ c \notin connections_ /\ polled[c] = "disabled"
       /\ <<"connectDestroyed", c>> \in Pending(queue, ioLoop[c])
    \/ /\ state_[c] = "kDisconnected" /\ c < nextConnId_
       /\ c \notin connections_ /\ polled[c] = "no"

\* What functor f on connection c, in loop l's queue, says of the connection.
FunctorOK(l, f, c) ==
    /\ f = "connectEstablished" => l = ioLoop[c] /\ state_[c] = "kConnecting"
    /\ f = "removeConnectionInLoop" =>
          l = Base /\ c \in connections_ /\ state_[c] = "kDisconnected"
    /\ f = "connectDestroyed" => /\ l = ioLoop[c] /\ c \notin connections_
                                 /\ state_[c] = "kDisconnected" /\ polled[c] = "disabled"

\* A handler that keeps a connection alive is the handleClose of its loop.
HandlerOK(l) == handling[l] # 0 => /\ state_[handling[l]] = "kDisconnected"
                                   /\ ioLoop[handling[l]] = l

StagesOK == \A c \in Conns : StageOK(c)

FunctorsOK == \A l \in Loops, f \in Functors, c \in Conns :
                 <<f, c>> \in Pending(queue, l) => FunctorOK(l, f, c)

HandlersOK == \A l \in Loops : HandlerOK(l)

IInv == /\ TypeOK /\ CountersOK /\ Single(queue)
        /\ StagesOK /\ FunctorsOK /\ HandlersOK
-----------------------------------------------------------------------------
(* It holds initially and no step breaks it. *)

\* The server starts without connections.
LEMMA InitIInv == Init => IInv
<1> SUFFICES ASSUME Init PROVE IInv
  OBVIOUS
<1>1. TypeOK
  <2>1. queue \in [Loops -> Seq(Functors \X Conns)]
    BY DEF Init
  <2>2. /\ ioLoop \in [Conns -> Loops] /\ handling \in [Loops -> Conns \cup {0}]
        /\ eof \in [Conns -> BOOLEAN] /\ polled \in [Conns -> {"no", "reading", "disabled"}]
        /\ state_ \in [Conns -> {"none", "kConnecting", "kConnected",
                                 "kDisconnecting", "kDisconnected"}]
    BY ServerAssumption DEF Init, Loops, Base
  <2>3. /\ numThreads_ \in 0..MaxThreads /\ loops_ \in 0..numThreads_
        /\ next_ \in 0..numThreads_ /\ nextConnId_ \in 1..(MaxConns + 1)
        /\ backlog \in 0..MaxBacklog
    BY ServerAssumption DEF Init
  <2> QED
    BY <2>1, <2>2, <2>3 DEF Init, TypeOK
<1>2. CountersOK
  BY ServerAssumption DEF Init, CountersOK
<1>3. \A l \in Loops : queue[l] = <<>>
  BY DEF Init
<1>4. Range(<<>>) = {} /\ IsInjective(<<>>)
  BY DEF Range, IsInjective
<1>5. Single(queue) /\ \A l \in Loops : Pending(queue, l) = {}
  BY <1>3, <1>4 DEF Single, Pending
<1>6. StagesOK
  BY DEF Init, StagesOK, StageOK, Conns
<1>7. FunctorsOK /\ HandlersOK
  BY <1>5 DEF Init, FunctorsOK, HandlersOK, HandlerOK
<1> QED
  BY <1>1, <1>2, <1>5, <1>6, <1>7 DEF IInv

\* Steps that leave the connections and the queues alone.
ConnVars == <<connections_, ioLoop, state_, polled, queue, handling, nextConnId_>>

\* A step that leaves connections, queues and handlers alone keeps their invariants.
LEMMA ConnsUntouched ==
    ASSUME IInv, UNCHANGED ConnVars
    PROVE  Single(queue)' /\ StagesOK' /\ FunctorsOK' /\ HandlersOK'
<1> USE DEF ConnVars
<1>1. Single(queue)'
  BY Zenon DEF IInv, Single
<1>2. \A l : Pending(queue, l)' = Pending(queue, l)
  BY Zenon DEF Pending
<1>3. StagesOK'
  <2> SUFFICES ASSUME NEW c \in Conns PROVE StageOK(c)'
    BY DEF StagesOK
  <2>1. StageOK(c)
    BY DEF IInv, StagesOK
  <2>2. /\ state_'[c] = state_[c] /\ polled'[c] = polled[c] /\ ioLoop'[c] = ioLoop[c]
        /\ nextConnId_' = nextConnId_ /\ connections_' = connections_
        /\ \A l : Pending(queue', l) = Pending(queue, l)
    BY <1>2
  <2> QED
    BY <2>1, <2>2 DEF StageOK
<1>4. FunctorsOK'
  BY <1>2 DEF IInv, FunctorsOK, FunctorOK
<1>5. HandlersOK'
  BY Zenon DEF IInv, HandlersOK, HandlerOK
<1> QED
  BY <1>1, <1>3, <1>4, <1>5

\* EventLoopThreadPool::start.
LEMMA StartLoopIInv == ASSUME IInv, StartLoop PROVE IInv'
<1>1. TypeOK'
  BY DEF IInv, TypeOK, StartLoop
<1>2. CountersOK'
  BY DEF IInv, TypeOK, CountersOK, StartLoop
<1> QED
  BY <1>1, <1>2, ConnsUntouched, Zenon DEF IInv, ConnVars, StartLoop

\* Acceptor::listen.
LEMMA ListenIInv == ASSUME IInv, Listen PROVE IInv'
<1>1. TypeOK'
  BY DEF IInv, TypeOK, Listen
<1>2. CountersOK'
  BY DEF IInv, TypeOK, CountersOK, Listen
<1> QED
  BY <1>1, <1>2, ConnsUntouched, Zenon DEF IInv, ConnVars, Listen

\* A client reaches the backlog.
LEMMA ClientConnectsIInv == ASSUME IInv, ClientConnects PROVE IInv'
<1>1. TypeOK'
  BY ServerAssumption DEF IInv, TypeOK, ClientConnects, poolVars
<1>2. CountersOK'
  BY ServerAssumption DEF IInv, TypeOK, CountersOK, ClientConnects, poolVars
<1> QED
  BY <1>1, <1>2, ConnsUntouched, Zenon DEF IInv, ConnVars, ClientConnects, poolVars

\* Acceptor::handleRead without a connection: no descriptor left, or an aborted one.
LEMMA NotAcceptedIInv == ASSUME IInv, AcceptAtLimit \/ AcceptAborted PROVE IInv'
<1>0. /\ backlog > 0 /\ backlog' = backlog - 1
      /\ UNCHANGED <<poolVars, connections_, state_, polled, queue, handling, eof>>
  BY DEF AcceptAtLimit, AcceptAborted
<1>1. TypeOK'
  BY <1>0, ServerAssumption DEF IInv, TypeOK, poolVars
<1>2. CountersOK'
  BY <1>0, ServerAssumption DEF IInv, TypeOK, CountersOK, poolVars
<1> QED
  BY <1>0, <1>1, <1>2, ConnsUntouched, Zenon DEF IInv, ConnVars, poolVars

\* The other end closes.
LEMMA PeerClosesIInv == ASSUME IInv, NEW c \in Conns, PeerCloses(c) PROVE IInv'
<1>1. TypeOK'
  BY DEF IInv, TypeOK, PeerCloses, poolVars
<1>2. CountersOK'
  BY DEF IInv, CountersOK, PeerCloses, poolVars
<1> QED
  BY <1>1, <1>2, ConnsUntouched, Zenon DEF IInv, ConnVars, PeerCloses, poolVars

\* A handler returns and drops its guard.
LEMMA HandlerReturnsIInv == ASSUME IInv, NEW l \in Loops, HandlerReturns(l) PROVE IInv'
<1> USE DEF HandlerReturns, poolVars
<1>1. TypeOK'
  BY DEF IInv, TypeOK
<1>2. CountersOK'
  BY DEF IInv, CountersOK
<1>3. Single(queue)' /\ \A k : Pending(queue, k)' = Pending(queue, k)
  BY Zenon DEF IInv, Single, Pending
<1>4. StagesOK' /\ FunctorsOK'
  BY <1>3 DEF IInv, StagesOK, FunctorsOK, StageOK, FunctorOK
<1>5. HandlersOK'
  BY DEF IInv, TypeOK, HandlersOK, HandlerOK
<1> QED
  BY <1>1, <1>2, <1>3, <1>4, <1>5 DEF IInv

\* A channel that reads belongs to a connection in use.
LEMMA ReadingIsUp ==
    ASSUME IInv, NEW c \in Conns, polled[c] = "reading"
    PROVE  state_[c] \in {"kConnected", "kDisconnecting"} /\ c \in connections_ /\ c < nextConnId_
BY DEF IInv, StagesOK, StageOK

\* TcpConnection::shutdown.
LEMMA ShutdownIInv == ASSUME IInv, NEW c \in Conns, Shutdown(c) PROVE IInv'
<1> USE DEF Shutdown, Readable, poolVars
<1>1. TypeOK'
  BY DEF IInv, TypeOK
<1>2. CountersOK'
  BY DEF IInv, CountersOK
<1>3. state_'[c] = "kDisconnecting" /\ \A d \in Conns \ {c} : state_'[d] = state_[d]
  BY DEF IInv, TypeOK
<1>4. Single(queue)' /\ \A k : Pending(queue, k)' = Pending(queue, k)
  BY Zenon DEF IInv, Single, Pending
<1>5. StagesOK'
  <2> SUFFICES ASSUME NEW d \in Conns PROVE StageOK(d)'
    BY DEF StagesOK
  <2>1. StageOK(d) /\ (d = c => polled[d] = "reading")
    BY DEF IInv, StagesOK
  <2>2. /\ polled' = polled /\ ioLoop' = ioLoop /\ nextConnId_' = nextConnId_
        /\ connections_' = connections_ /\ \A k : Pending(queue', k) = Pending(queue, k)
    BY <1>4
  <2>3. CASE d = c
    BY <1>3, <2>1, <2>2, <2>3, ReadingIsUp DEF StageOK
  <2>4. CASE d # c
    BY <1>3, <2>1, <2>2, <2>4 DEF StageOK
  <2> QED
    BY <2>3, <2>4
<1>6. FunctorsOK'
  BY <1>3, <1>4 DEF IInv, FunctorsOK, FunctorOK
<1>7. HandlersOK'
  BY <1>3 DEF IInv, TypeOK, HandlersOK, HandlerOK
<1> QED
  BY <1>1, <1>2, <1>4, <1>5, <1>6, <1>7 DEF IInv
\* A functor that runs finds its connection as it was promised, and is gone.
LEMMA FunctorRuns ==
    ASSUME IInv, NEW l \in Loops, NEW f \in Functors, NEW c \in Conns, Runs(l, f, c)
    PROVE  /\ FunctorOK(l, f, c) /\ <<f, c>> \in Pending(queue, l)
           /\ Popped(l) \in [Loops -> Seq(Functor)] /\ Single(Popped(l))
           /\ \A k \in Loops : Pending(Popped(l), k) =
                 IF k = l THEN Pending(queue, k) \ {<<f, c>>} ELSE Pending(queue, k)
<1>1. /\ queue \in [Loops -> Seq(Functor)] /\ Single(queue)
      /\ queue[l] # <<>> /\ Head(queue[l]) = <<f, c>>
  BY DEF IInv, TypeOK, Functor, Runs
<1>2. Popped(l) = [queue EXCEPT ![l] = Tail(@)]
  BY DEF Popped
<1>3. /\ Popped(l) \in [Loops -> Seq(Functor)] /\ Head(queue[l]) \in Pending(queue, l)
      /\ \A k \in Loops : Pending(Popped(l), k) =
            IF k = l THEN Pending(queue, k) \ {Head(queue[k])} ELSE Pending(queue, k)
      /\ Single(Popped(l))
  BY <1>1, <1>2, QueuePopped, Zenon
<1>4. FunctorOK(l, f, c)
  BY <1>1, <1>3 DEF IInv, FunctorsOK
<1> QED
  BY <1>1, <1>3, <1>4

\* TcpConnection::connectEstablished.
LEMMA ConnectEstablishedIInv ==
    ASSUME IInv, NEW l \in Loops, NEW c \in Conns, ConnectEstablished(l, c)
    PROVE  IInv'
<1> USE DEF ConnectEstablished, Established, poolVars
<1> DEFINE f == "connectEstablished"
<1>1. /\ FunctorOK(l, f, c) /\ <<f, c>> \in Pending(queue, l)
      /\ queue' \in [Loops -> Seq(Functor)] /\ Single(queue')
      /\ \A k \in Loops : Pending(queue', k) =
            IF k = l THEN Pending(queue, k) \ {<<f, c>>} ELSE Pending(queue, k)
  BY FunctorRuns DEF Functors
<1>2. l = ioLoop[c] /\ state_[c] = "kConnecting"
  BY <1>1 DEF FunctorOK
<1>3. /\ state_'[c] = "kConnected" /\ polled'[c] = "reading"
      /\ \A d \in Conns \ {c} : state_'[d] = state_[d] /\ polled'[d] = polled[d]
  BY DEF IInv, TypeOK
<1>4. TypeOK'
  BY <1>1 DEF IInv, TypeOK, Functor
<1>5. CountersOK'
  BY DEF IInv, CountersOK
<1>6. StagesOK'
  <2> SUFFICES ASSUME NEW d \in Conns PROVE StageOK(d)'
    BY DEF StagesOK
  <2>0. StageOK(d) /\ StageOK(c) /\ ioLoop[d] \in Loops /\ Base \in Loops
    BY ServerAssumption DEF IInv, StagesOK, TypeOK, Base, Loops
  <2>1. CASE d = c
    BY <1>2, <1>3, <2>0, <2>1 DEF StageOK
  <2>2. CASE d # c
    BY <1>1, <1>3, <2>0, <2>2 DEF StageOK
  <2> QED
    BY <2>1, <2>2
<1>7. FunctorsOK'
  <2> SUFFICES ASSUME NEW k \in Loops, NEW g \in Functors, NEW d \in Conns,
                      <<g, d>> \in Pending(queue', k)
               PROVE  FunctorOK(k, g, d)'
    BY DEF FunctorsOK
  <2>1. <<g, d>> \in Pending(queue, k) /\ (k = l => <<g, d>> # <<f, c>>)
    BY <1>1
  <2>2. FunctorOK(k, g, d)
    BY <2>1 DEF IInv, FunctorsOK
  <2>3. d # c
    BY <1>2, <2>1, <2>2 DEF FunctorOK, Functors
  <2> QED
    BY <1>3, <2>2, <2>3 DEF FunctorOK
<1>8. HandlersOK'
  BY <1>2, <1>3 DEF IInv, TypeOK, HandlersOK, HandlerOK
<1> QED
  BY <1>1, <1>4, <1>5, <1>6, <1>7, <1>8 DEF IInv

\* TcpConnection::connectDestroyed.
LEMMA ConnectDestroyedIInv ==
    ASSUME IInv, NEW l \in Loops, NEW c \in Conns, ConnectDestroyed(l, c)
    PROVE  IInv'
<1> USE DEF ConnectDestroyed, poolVars
<1> DEFINE f == "connectDestroyed"
<1>1. /\ FunctorOK(l, f, c) /\ <<f, c>> \in Pending(queue, l)
      /\ queue' \in [Loops -> Seq(Functor)] /\ Single(queue')
      /\ \A k \in Loops : Pending(queue', k) =
            IF k = l THEN Pending(queue, k) \ {<<f, c>>} ELSE Pending(queue, k)
  BY FunctorRuns DEF Functors
<1>2. l = ioLoop[c] /\ state_[c] = "kDisconnected" /\ c \notin connections_
  BY <1>1 DEF FunctorOK
<1>3. polled'[c] = "no" /\ \A d \in Conns \ {c} : polled'[d] = polled[d]
  BY DEF IInv, TypeOK
<1>4. TypeOK'
  BY <1>1 DEF IInv, TypeOK, Functor
<1>5. CountersOK'
  BY DEF IInv, CountersOK
<1>6. StagesOK'
  <2> SUFFICES ASSUME NEW d \in Conns PROVE StageOK(d)'
    BY DEF StagesOK
  <2>0. StageOK(d) /\ StageOK(c) /\ ioLoop[d] \in Loops /\ Base \in Loops
    BY ServerAssumption DEF IInv, StagesOK, TypeOK, Base, Loops
  <2>1. CASE d = c
    BY <1>2, <1>3, <2>0, <2>1 DEF StageOK
  <2>2. CASE d # c
    BY <1>1, <1>3, <2>0, <2>2 DEF StageOK
  <2> QED
    BY <2>1, <2>2
<1>7. FunctorsOK'
  <2> SUFFICES ASSUME NEW k \in Loops, NEW g \in Functors, NEW d \in Conns,
                      <<g, d>> \in Pending(queue', k)
               PROVE  FunctorOK(k, g, d)'
    BY DEF FunctorsOK
  <2>1. <<g, d>> \in Pending(queue, k) /\ (k = l => <<g, d>> # <<f, c>>)
    BY <1>1
  <2>2. FunctorOK(k, g, d)
    BY <2>1 DEF IInv, FunctorsOK
  <2>3. d # c
    BY <1>2, <2>1, <2>2 DEF FunctorOK, Functors
  <2> QED
    BY <1>3, <2>2, <2>3 DEF FunctorOK
<1>8. HandlersOK'
  BY Zenon DEF IInv, HandlersOK, HandlerOK
<1> QED
  BY <1>1, <1>4, <1>5, <1>6, <1>7, <1>8 DEF IInv

\* TcpServer::removeConnectionInLoop.
LEMMA RemoveConnectionInLoopIInv ==
    ASSUME IInv, NEW l \in Loops, NEW c \in Conns, RemoveConnectionInLoop(l, c)
    PROVE  IInv'
<1> USE DEF RemoveConnectionInLoop, poolVars
<1> DEFINE f == "removeConnectionInLoop"
           g == "connectDestroyed"
           m == ioLoop[c]
<1>0. m \in Loops /\ Base \in Loops /\ <<g, c>> \in Functor
  BY ServerAssumption DEF IInv, TypeOK, Base, Loops, Functor, Functors
<1>1. /\ FunctorOK(l, f, c) /\ <<f, c>> \in Pending(queue, l)
      /\ Popped(l) \in [Loops -> Seq(Functor)] /\ Single(Popped(l))
      /\ \A k \in Loops : Pending(Popped(l), k) =
            IF k = l THEN Pending(queue, k) \ {<<f, c>>} ELSE Pending(queue, k)
  BY FunctorRuns DEF Functors
<1>2. l = Base /\ c \in connections_ /\ state_[c] = "kDisconnected"
  BY <1>1 DEF FunctorOK
<1>3. <<g, c>> \notin Pending(queue, m)
  BY <1>0, <1>2 DEF IInv, FunctorsOK, FunctorOK, Functors
<1>4. <<g, c>> \notin Pending(Popped(l), m)
  BY <1>0, <1>1, <1>3
<1>5. queue' = Appended(Popped(l), m, <<g, c>>)
  BY DEF ConnectionErased, Appended
<1>6. /\ queue' \in [Loops -> Seq(Functor)]
      /\ \A k \in Loops : Pending(queue', k) =
            IF k = m THEN Pending(Popped(l), k) \cup {<<g, c>>} ELSE Pending(Popped(l), k)
      /\ Single(queue')
  <2>1. PICK q : q = Popped(l)
    OBVIOUS
  <2>2. PICK x : x = <<g, c>>
    OBVIOUS
  <2>3. PICK n : n = m
    OBVIOUS
  <2>4. /\ q \in [Loops -> Seq(Functor)] /\ Single(q) /\ x \in Functor /\ n \in Loops
        /\ x \notin Pending(q, n) /\ queue' = Appended(q, n, x)
    BY <1>0, <1>1, <1>4, <1>5, <2>1, <2>2, <2>3
  <2>5. /\ queue' \in [Loops -> Seq(Functor)]
        /\ \A k \in Loops : Pending(queue', k) =
              IF k = n THEN Pending(q, k) \cup {x} ELSE Pending(q, k)
        /\ Single(queue')
    BY <2>4, QueueAppended
  <2> QED
    BY <2>1, <2>2, <2>3, <2>5
<1>7. \A k \in Loops : \A x :
         /\ x \in Pending(queue', k) =>
               \/ x \in Pending(queue, k) /\ (k = Base => x # <<f, c>>)
               \/ x = <<g, c>> /\ k = m
         /\ x \in Pending(queue, k) /\ x # <<f, c>> => x \in Pending(queue', k)
         /\ k = m => <<g, c>> \in Pending(queue', k)
  BY <1>1, <1>2, <1>6
<1>8. TypeOK'
  BY <1>6 DEF IInv, TypeOK, Functor
<1>9. CountersOK'
  BY DEF IInv, CountersOK
<1>10. StagesOK'
  <2> SUFFICES ASSUME NEW d \in Conns PROVE StageOK(d)'
    BY DEF StagesOK
  <2>0. StageOK(d) /\ ioLoop[d] \in Loops
    BY DEF IInv, StagesOK, TypeOK
  <2>1. CASE d = c
    BY <1>0, <1>2, <1>7, <2>0, <2>1 DEF StageOK
  <2>2. CASE d # c
    BY <1>0, <1>7, <2>0, <2>2 DEF StageOK
  <2> QED
    BY <2>1, <2>2
<1>11. FunctorsOK'
  <2> SUFFICES ASSUME NEW k \in Loops, NEW h \in Functors, NEW d \in Conns,
                      <<h, d>> \in Pending(queue', k)
               PROVE  FunctorOK(k, h, d)'
    BY DEF FunctorsOK
  <2>1. CASE <<h, d>> \in Pending(queue, k) /\ (k = Base => <<h, d>> # <<f, c>>)
    <3>1. FunctorOK(k, h, d)
      BY <2>1 DEF IInv, FunctorsOK
    <3>2. d = c => h # f
      BY <2>1, <3>1 DEF FunctorOK
    <3>3. d # c
      BY <1>2, <3>1, <3>2 DEF FunctorOK, Functors
    <3> QED
      BY <3>1, <3>3 DEF FunctorOK
  <2>2. CASE h = g /\ d = c /\ k = m
    <3>1. polled[c] = "disabled"
      BY <1>2 DEF IInv, StagesOK, StageOK
    <3> QED
      BY <1>2, <2>2, <3>1 DEF FunctorOK
  <2> QED
    BY <1>7, <2>1, <2>2
<1>12. HandlersOK'
  BY Zenon DEF IInv, HandlersOK, HandlerOK
<1> QED
  BY <1>6, <1>8, <1>9, <1>10, <1>11, <1>12 DEF IInv
\* No functor is queued on a connection in use, or on one not made yet.
LEMMA NoFunctor ==
    ASSUME IInv, NEW c \in Conns,
           state_[c] \in {"none", "kConnected", "kDisconnecting"},
           NEW l \in Loops, NEW f \in Functors
    PROVE  <<f, c>> \notin Pending(queue, l)
BY DEF IInv, FunctorsOK, FunctorOK, Functors

\* TcpConnection::handleClose.
LEMMA HandleCloseIInv == ASSUME IInv, NEW c \in Conns, HandleClose(c) PROVE IInv'
<1> USE DEF HandleClose, Readable, poolVars
<1>0. /\ ioLoop[c] \in Loops /\ Base \in Loops /\ queue \in [Loops -> Seq(Functor)]
      /\ Single(queue)
  BY ServerAssumption DEF IInv, TypeOK, Base, Loops, Functor
<1>1. state_[c] \in {"kConnected", "kDisconnecting"} /\ c \in connections_ /\ c < nextConnId_
  BY ReadingIsUp
<1>2. PICK n \in Loops, f \in Functors :
         /\ queue' = Appended(queue, n, <<f, c>>)
         /\ \/ /\ n = ioLoop[c] /\ f = "connectDestroyed"
               /\ connections_' = connections_ \ {c}
            \/ /\ n = Base /\ f = "removeConnectionInLoop"
               /\ connections_' = connections_
  <2>1. CASE ioLoop[c] = Base
    <3>1. /\ queue' = Appended(queue, ioLoop[c], <<"connectDestroyed", c>>)
          /\ connections_' = connections_ \ {c}
      BY <2>1 DEF ConnectionErased, Appended
    <3> QED
      BY <1>0, <3>1 DEF Functors
  <2>2. CASE ioLoop[c] # Base
    <3>1. /\ queue' = Appended(queue, Base, <<"removeConnectionInLoop", c>>)
          /\ connections_' = connections_
      BY <2>2 DEF Appended
    <3> QED
      BY <1>0, <3>1 DEF Functors
  <2> QED
    BY <2>1, <2>2
<1>3. PICK x \in Functor : x = <<f, c>>
  BY DEF Functor
<1>4. x \notin Pending(queue, n)
  BY <1>1, <1>3, NoFunctor
<1>5. /\ queue' \in [Loops -> Seq(Functor)] /\ Single(queue')
      /\ \A k \in Loops : Pending(queue', k) =
            IF k = n THEN Pending(queue, k) \cup {x} ELSE Pending(queue, k)
  <2> HIDE DEF HandleClose
  <2>1. queue' = Appended(queue, n, x)
    BY <1>2, <1>3
  <2> QED
    BY <1>0, <1>4, <2>1, QueueAppended
<1>6. /\ state_'[c] = "kDisconnected" /\ polled'[c] = "disabled"
      /\ \A d \in Conns \ {c} : state_'[d] = state_[d] /\ polled'[d] = polled[d]
      /\ \A l \in Loops : handling'[l] = IF l = ioLoop[c] THEN c ELSE handling[l]
  BY DEF IInv, TypeOK
<1>7. TypeOK'
  <2>1. connections_' \subseteq Conns
    BY <1>2 DEF IInv, TypeOK
  <2>2. handling' \in [Loops -> Conns \cup {0}]
    BY <1>0 DEF IInv, TypeOK
  <2>3. state_' \in [Conns -> {"none", "kConnecting", "kConnected",
                               "kDisconnecting", "kDisconnected"}]
    BY DEF IInv, TypeOK
  <2>4. polled' \in [Conns -> {"no", "reading", "disabled"}]
    BY DEF IInv, TypeOK
  <2> QED
    BY <1>5, <2>1, <2>2, <2>3, <2>4 DEF IInv, TypeOK, Functor
<1>8. CountersOK'
  BY DEF IInv, CountersOK
<1>9. StagesOK'
  <2> SUFFICES ASSUME NEW d \in Conns PROVE StageOK(d)'
    BY DEF StagesOK
  <2>0. StageOK(d) /\ ioLoop[d] \in Loops
    BY DEF IInv, StagesOK, TypeOK
  <2>1. CASE d = c
    BY <1>0, <1>1, <1>2, <1>3, <1>5, <1>6, <2>1 DEF StageOK
  <2>2. CASE d # c
    BY <1>0, <1>2, <1>5, <1>6, <2>0, <2>2 DEF StageOK
  <2> QED
    BY <2>1, <2>2
<1>10. FunctorsOK'
  <2> SUFFICES ASSUME NEW k \in Loops, NEW h \in Functors, NEW d \in Conns,
                      <<h, d>> \in Pending(queue', k)
               PROVE  FunctorOK(k, h, d)'
    BY DEF FunctorsOK
  <2>1. CASE <<h, d>> \in Pending(queue, k)
    <3>1. FunctorOK(k, h, d)
      BY <2>1 DEF IInv, FunctorsOK
    <3>2. d # c
      BY <1>1, <2>1, NoFunctor
    <3> QED
      BY <1>2, <1>6, <3>1, <3>2 DEF FunctorOK
  <2>2. CASE k = n /\ <<h, d>> = x
    BY <1>1, <1>2, <1>3, <1>6, <2>2 DEF FunctorOK
  <2> QED
    BY <1>5, <2>1, <2>2
<1>11. HandlersOK'
  <2> SUFFICES ASSUME NEW k \in Loops, handling'[k] # 0
               PROVE  state_'[handling'[k]] = "kDisconnected" /\ ioLoop[handling'[k]] = k
    BY DEF HandlersOK, HandlerOK
  <2>1. CASE k = ioLoop[c]
    BY <1>6, <2>1
  <2>2. CASE k # ioLoop[c]
    <3>1. /\ handling'[k] = handling[k] /\ handling[k] \in Conns
          /\ state_[handling[k]] = "kDisconnected" /\ ioLoop[handling[k]] = k
      BY <1>6, <2>2 DEF IInv, TypeOK, HandlersOK, HandlerOK
    <3> QED
      BY <1>6, <2>2, <3>1
  <2> QED
    BY <2>1, <2>2
<1> QED
  BY <1>5, <1>7, <1>8, <1>9, <1>10, <1>11 DEF IInv

\* The loop newConnection takes is one of the pool, or the base loop if there
\* is no pool, and the index it leaves is inside the pool again.
LEMMA NextLoopType ==
    ASSUME IInv
    PROVE  /\ getNextLoop \in Loops /\ (getNextLoop = Base <=> loops_ = 0)
           /\ NextIndex \in 0..numThreads_ /\ (NextIndex = 0 \/ NextIndex < loops_)
<1>1. /\ numThreads_ \in 0..MaxThreads /\ loops_ \in 0..numThreads_ /\ next_ \in 0..numThreads_
      /\ next_ = 0 \/ next_ < loops_
  BY DEF IInv, TypeOK, CountersOK
<1> QED
  BY <1>1, ServerAssumption DEF getNextLoop, NextIndex, Loops, Base

\* Acceptor::handleRead and TcpServer::newConnection.
LEMMA AcceptIInv == ASSUME IInv, Accept PROVE IInv'
<1> DEFINE c == nextConnId_
           l == getNextLoop
<1>0. /\ c \in Conns /\ c + 1 \in 1..(MaxConns + 1) /\ listenning_
      /\ backlog \in Nat \ {0}
  BY ServerAssumption DEF IInv, TypeOK, CountersOK, Accept, Conns
<1>1. /\ l \in Loops /\ Base \in Loops /\ queue \in [Loops -> Seq(Functor)] /\ Single(queue)
  <2>1. l \in Loops
    BY NextLoopType
  <2>2. Base \in Loops
    BY ServerAssumption DEF Base, Loops
  <2>3. queue \in [Loops -> Seq(Functor)] /\ Single(queue)
    BY DEF IInv, TypeOK, Functor
  <2> QED
    BY <2>1, <2>2, <2>3
<1>2. state_[c] = "none" /\ c \notin connections_ /\ polled[c] = "no"
  <2>1. StageOK(c) /\ ~(c < nextConnId_)
    BY <1>0 DEF IInv, StagesOK, Conns
  <2> QED
    BY <2>1 DEF StageOK
<1>3. /\ ioLoop' = [ioLoop EXCEPT ![c] = l] /\ next_' = NextIndex /\ nextConnId_' = c + 1
      /\ connections_' = connections_ \cup {c} /\ backlog' = backlog - 1
      /\ UNCHANGED <<numThreads_, listenning_, loops_, handling, eof>>
  BY DEF Accept
<1>4. /\ ioLoop'[c] = l /\ \A d \in Conns \ {c} : ioLoop'[d] = ioLoop[d]
  BY <1>0, <1>3 DEF IInv, TypeOK
<1>5. \/ /\ state_' = [state_ EXCEPT ![c] = "kConnected"]
         /\ polled' = [polled EXCEPT ![c] = "reading"] /\ queue' = queue
      \/ /\ state_' = [state_ EXCEPT ![c] = "kConnecting"]
         /\ polled' = polled /\ queue' = Appended(queue, l, <<"connectEstablished", c>>)
  BY DEF Accept, Established, Appended
<1> HIDE DEF c, l
<1>6. /\ \A d \in Conns \ {c} : state_'[d] = state_[d] /\ polled'[d] = polled[d]
      /\ \/ state_'[c] = "kConnected" /\ polled'[c] = "reading" /\ queue' = queue
         \/ /\ state_'[c] = "kConnecting" /\ polled'[c] = "no"
            /\ queue' = Appended(queue, l, <<"connectEstablished", c>>)
  BY <1>0, <1>2, <1>5 DEF IInv, TypeOK
<1>7. PICK x \in Functor : x = <<"connectEstablished", c>>
  BY <1>0 DEF Functor, Functors
<1>8. x \notin Pending(queue, l)
  BY <1>0, <1>1, <1>2, <1>7, NoFunctor DEF Functors
<1>9. /\ queue' \in [Loops -> Seq(Functor)] /\ Single(queue')
      /\ \A k \in Loops : /\ Pending(queue, k) \subseteq Pending(queue', k)
                          /\ Pending(queue', k) \subseteq Pending(queue, k) \cup {x}
                          /\ x \in Pending(queue', k) => k = l /\ state_'[c] = "kConnecting"
      /\ state_'[c] = "kConnecting" => x \in Pending(queue', l)
  <2>0. \A k \in Loops : x \notin Pending(queue, k)
    BY <1>0, <1>2, <1>7, NoFunctor DEF Functors
  <2>1. CASE queue' = queue /\ state_'[c] = "kConnected"
    BY <1>1, <2>0, <2>1
  <2>2. CASE queue' = Appended(queue, l, x) /\ state_'[c] = "kConnecting"
    <3>1. /\ queue' \in [Loops -> Seq(Functor)] /\ Single(queue')
          /\ \A k \in Loops : Pending(queue', k) =
                IF k = l THEN Pending(queue, k) \cup {x} ELSE Pending(queue, k)
      BY <1>1, <1>8, <2>2, QueueAppended
    <3> QED
      BY <1>1, <2>0, <2>2, <3>1
  <2> QED
    BY <1>6, <1>7, <2>1, <2>2
<1>10. TypeOK'
  <2>1. ioLoop' \in [Conns -> Loops]
    BY <1>1, <1>3 DEF IInv, TypeOK
  <2>2. connections_' \subseteq Conns
    BY <1>0, <1>3 DEF IInv, TypeOK
  <2>3. /\ state_' \in [Conns -> {"none", "kConnecting", "kConnected",
                                  "kDisconnecting", "kDisconnected"}]
        /\ polled' \in [Conns -> {"no", "reading", "disabled"}]
    BY <1>5 DEF IInv, TypeOK
  <2>4. next_' \in 0..numThreads_' /\ nextConnId_' \in 1..(MaxConns + 1)
    BY <1>0, <1>3, NextLoopType DEF c
  <2>5. backlog' \in 0..MaxBacklog
    BY <1>0, <1>3, ServerAssumption DEF IInv, TypeOK
  <2> QED
    BY <1>3, <1>9, <2>1, <2>2, <2>3, <2>4, <2>5 DEF IInv, TypeOK, Functor
<1>11. CountersOK'
  <2>1. next_' = 0 \/ next_' < loops_'
    BY <1>3, NextLoopType
  <2>2. nextConnId_' + backlog' <= MaxConns + 1
    BY <1>0, <1>3, ServerAssumption DEF IInv, CountersOK, c, Conns
  <2> QED
    BY <1>0, <1>3, <2>1, <2>2 DEF IInv, CountersOK
<1>12. StagesOK'
  <2> SUFFICES ASSUME NEW d \in Conns PROVE StageOK(d)'
    BY DEF StagesOK
  <2>0. StageOK(d) /\ ioLoop[d] \in Loops
    BY DEF IInv, StagesOK, TypeOK
  <2>1. CASE d = c
    <3>1. d < nextConnId_' /\ d \in connections_'
      BY <1>0, <1>3, <2>1 DEF Conns
    <3> QED
      BY <1>4, <1>6, <1>7, <1>9, <2>1, <3>1 DEF StageOK
  <2>2. CASE d # c
    <3>1. /\ d >= nextConnId_ => d >= nextConnId_'
          /\ d < nextConnId_ => d < nextConnId_'
          /\ d \in connections_' <=> d \in connections_
      BY <1>0, <1>3, <2>2 DEF c, Conns
    <3> QED
      BY <1>1, <1>4, <1>6, <1>9, <2>0, <2>2, <3>1 DEF StageOK
  <2> QED
    BY <2>1, <2>2
<1>13. FunctorsOK'
  <2> SUFFICES ASSUME NEW k \in Loops, NEW h \in Functors, NEW d \in Conns,
                      <<h, d>> \in Pending(queue', k)
               PROVE  FunctorOK(k, h, d)'
    BY DEF FunctorsOK
  <2>1. CASE <<h, d>> \in Pending(queue, k)
    <3>1. FunctorOK(k, h, d)
      BY <2>1 DEF IInv, FunctorsOK
    <3>2. d # c
      BY <1>0, <1>2, <2>1, NoFunctor
    <3> QED
      BY <1>3, <1>4, <1>6, <3>1, <3>2 DEF FunctorOK
  <2>2. CASE <<h, d>> = x
    <3>1. h = "connectEstablished" /\ d = c
      BY <1>7, <2>2
    <3>2. k = l /\ state_'[c] = "kConnecting"
      BY <1>9, <2>2
    <3> QED
      BY <1>4, <3>1, <3>2 DEF FunctorOK
  <2> QED
    BY <1>9, <2>1, <2>2
<1>14. HandlersOK'
  <2> SUFFICES ASSUME NEW k \in Loops, handling[k] # 0
               PROVE  state_'[handling[k]] = "kDisconnected" /\ ioLoop'[handling[k]] = k
    BY <1>3 DEF HandlersOK, HandlerOK
  <2>1. /\ handling[k] \in Conns /\ state_[handling[k]] = "kDisconnected"
        /\ ioLoop[handling[k]] = k
    BY DEF IInv, TypeOK, HandlersOK, HandlerOK
  <2> QED
    BY <1>2, <1>4, <1>6, <2>1
<1> QED
  BY <1>9, <1>10, <1>11, <1>12, <1>13, <1>14 DEF IInv

\* No step breaks it.
LEMMA NextIInv == IInv /\ [Next]_vars => IInv'
<1> SUFFICES ASSUME IInv, [Next]_vars PROVE IInv'
  OBVIOUS
<1>1. CASE UNCHANGED vars
  <2>1. TypeOK' /\ CountersOK'
    BY <1>1 DEF vars, IInv, TypeOK, CountersOK
  <2>2. UNCHANGED ConnVars
    BY <1>1 DEF vars, ConnVars
  <2> QED
    BY <2>1, <2>2, ConnsUntouched, Zenon DEF IInv
<1>2. CASE AcceptorHandleRead
  BY <1>2, AcceptIInv, NotAcceptedIInv DEF AcceptorHandleRead
<1>3. CASE \E l \in Loops : RunFunctor(l)
  BY <1>3, ConnectEstablishedIInv, RemoveConnectionInLoopIInv, ConnectDestroyedIInv DEF RunFunctor
<1> QED
  BY <1>1, <1>2, <1>3, StartLoopIInv, ListenIInv, ClientConnectsIInv, ShutdownIInv,
     HandleCloseIInv, PeerClosesIInv, HandlerReturnsIInv DEF Next

\* Every step of every interleaving of the loops keeps the connections in
\* their stages, and the functors of connectEstablished, removeConnection and
\* connectDestroyed queued for the stages they end.
THEOREM Invariance == Spec => []IInv
BY InitIInv, NextIInv, PTL DEF Spec
-----------------------------------------------------------------------------
(* What it implies. *)

\* The variables keep their types; newConnection never indexes loops_ outside
\* of the pool, and never numbers more connections than there are.
THEOREM TypeCorrect == Spec => []TypeOK
<1>1. IInv => TypeOK
  BY DEF IInv
<1> QED
  BY <1>1, Invariance, PTL

\* The asserts of connectEstablished, removeConnectionInLoop (n == 1) and
\* connectDestroyed hold whenever the functor runs, and none is queued twice.
THEOREM AssertsHold == Spec => []FunctorsFindTheirState
<1>1. IInv => FunctorsFindTheirState
  <2> SUFFICES ASSUME IInv, NEW l \in Loops, NEW i \in 1..Len(queue[l])
               PROVE  LET f == queue[l][i][1]
                          c == queue[l][i][2]
                      IN  /\ QueuedOnce(l, f, c)
                          /\ f = "connectEstablished" =>
                                l = ioLoop[c] /\ state_[c] = "kConnecting" /\ polled[c] = "no"
                          /\ f = "removeConnectionInLoop" =>
                                l = Base /\ c \in connections_ /\ state_[c] = "kDisconnected"
                          /\ f = "connectDestroyed" =>
                                /\ l = ioLoop[c] /\ c \notin connections_
                                /\ state_[c] = "kDisconnected" /\ polled[c] = "disabled"
    BY DEF FunctorsFindTheirState
  <2>1. queue[l] \in Seq(Functors \X Conns) /\ IsInjective(queue[l])
    BY DEF IInv, TypeOK, Single
  <2>2. DOMAIN queue[l] = 1..Len(queue[l]) /\ queue[l][i] \in Functors \X Conns
    BY <2>1
  <2>3. PICK f \in Functors, c \in Conns : queue[l][i] = <<f, c>>
    BY <2>2
  <2>4. <<f, c>> \in Pending(queue, l)
    BY <2>2, <2>3 DEF Pending, Range
  <2>5. FunctorOK(l, f, c) /\ StageOK(c)
    BY <2>4 DEF IInv, FunctorsOK, StagesOK
  <2>6. QueuedOnce(l, f, c)
    BY <2>1, <2>2, <2>3 DEF QueuedOnce, IsInjective
  <2>7. state_[c] = "kConnecting" => polled[c] = "no"
    BY <2>5 DEF StageOK
  <2> QED
    BY <2>3, <2>5, <2>6, <2>7 DEF FunctorOK
<1> QED
  BY <1>1, Invariance, PTL

\* A connection is queued when a functor on it is pending in some loop.
LEMMA QueuedIffPending ==
    ASSUME NEW q \in [Loops -> Seq(Functor)], NEW c \in Conns
    PROVE  (\E l \in Loops : \E i \in 1..Len(q[l]) : q[l][i][2] = c)
              <=> (\E l \in Loops, f \in Functors : <<f, c>> \in Pending(q, l))
<1>1. ASSUME NEW l \in Loops, NEW i \in 1..Len(q[l]), q[l][i][2] = c
      PROVE  \E f \in Functors : <<f, c>> \in Pending(q, l)
  <2>1. q[l] \in Seq(Functor)
    OBVIOUS
  <2>2. q[l][i] \in Functor /\ DOMAIN q[l] = 1..Len(q[l])
    BY <2>1
  <2>3. PICK f \in Functors : q[l][i] = <<f, c>>
    BY <1>1, <2>2 DEF Functor
  <2> QED
    BY <2>2, <2>3 DEF Pending, Range
<1>2. ASSUME NEW l \in Loops, NEW f \in Functors, <<f, c>> \in Pending(q, l)
      PROVE  \E i \in 1..Len(q[l]) : q[l][i][2] = c
  <2>1. q[l] \in Seq(Functor)
    OBVIOUS
  <2>2. DOMAIN q[l] = 1..Len(q[l])
    BY <2>1
  <2>3. PICK i \in 1..Len(q[l]) : q[l][i] = <<f, c>>
    BY <1>2, <2>2 DEF Pending, Range
  <2> QED
    BY <2>3
<1> QED
  BY <1>1, <1>2

\* fillActiveChannels: a poller never knows the channel of a TcpConnection
\* that has been destroyed, whichever loop dropped the last shared_ptr.
THEOREM PolledOwned == Spec => []PolledIsOwned
<1>1. IInv => PolledIsOwned
  <2> SUFFICES ASSUME IInv, NEW c \in Conns, polled[c] # "no" PROVE Held(c)
    BY DEF PolledIsOwned
  <2>1. \/ c \in connections_
        \/ <<"connectDestroyed", c>> \in Pending(queue, ioLoop[c])
    BY DEF IInv, StagesOK, StageOK
  <2>2. ioLoop[c] \in Loops /\ queue \in [Loops -> Seq(Functor)]
    BY DEF IInv, TypeOK, Functor
  <2>3. <<"connectDestroyed", c>> \in Pending(queue, ioLoop[c]) => Queued(c)
    BY <2>2, QueuedIffPending DEF Queued, Functors
  <2> QED
    BY <2>1, <2>3 DEF Held
<1> QED
  BY <1>1, Invariance, PTL
-----------------------------------------------------------------------------
(* getNextLoop. *)

\* The loops before the index have been given one connection more.
LoadInv == numThreads_ > 0 =>
              /\ Assigned(Base) = 0
              /\ \E a \in Nat : \A l \in 1..numThreads_ :
                    Assigned(l) = IF l <= next_ THEN a + 1 ELSE a

\* What one more connection does to the load of a loop.
LEMMA AssignedStep ==
    ASSUME IInv, Accept, NEW l \in Loops
    PROVE  /\ Assigned(l) \in Nat
           /\ Assigned(l)' = IF l = getNextLoop THEN Assigned(l) + 1 ELSE Assigned(l)
<1> DEFINE c == nextConnId_
           S == {d \in 1..(c - 1) : ioLoop[d] = l}
           T == {d \in 1..c : ioLoop'[d] = l}
<1>0. c \in Conns /\ c \in Nat /\ c >= 1
  BY ServerAssumption DEF IInv, TypeOK, CountersOK, Accept, Conns
<1>1. IsFiniteSet(S) /\ Cardinality(S) \in Nat
  <2>1. IsFiniteSet(1..(c - 1))
    BY <1>0, FS_Interval
  <2> QED
    BY <2>1, FS_Subset, FS_CardinalityType
<1>2. nextConnId_' = c + 1 /\ ioLoop' = [ioLoop EXCEPT ![c] = getNextLoop]
  BY DEF Accept
<1>3. ioLoop'[c] = getNextLoop /\ \A d \in 1..(c - 1) : ioLoop'[d] = ioLoop[d]
  BY <1>0, <1>2 DEF IInv, TypeOK, Conns
<1>4. T = IF l = getNextLoop THEN S \cup {c} ELSE S
  BY <1>0, <1>3
<1>5. c \notin S
  BY <1>0
<1>6. Assigned(l) = Cardinality(S) /\ Assigned(l)' = Cardinality(T)
  BY <1>0, <1>2 DEF Assigned
<1>7. Cardinality(S \cup {c}) = Cardinality(S) + 1
  BY <1>1, <1>5, FS_AddElement
<1> HIDE DEF S, T, c
<1> QED
  BY <1>1, <1>4, <1>6, <1>7

\* No loop has a connection at the start.
LEMMA InitLoad == Init => LoadInv
<1> SUFFICES ASSUME Init PROVE LoadInv
  OBVIOUS
<1>1. next_ = 0 /\ nextConnId_ = 1
  BY DEF Init
<1>2. \A l : {c \in 1..(nextConnId_ - 1) : ioLoop[c] = l} = {}
  BY <1>1
<1>3. \A l : Assigned(l) = 0
  BY <1>2, FS_EmptySet, Zenon DEF Assigned
<1>4. \A l \in 1..numThreads_ : Assigned(l) = IF l <= next_ THEN 0 + 1 ELSE 0
  BY <1>1, <1>3
<1> QED
  BY <1>3, <1>4 DEF LoadInv

\* getNextLoop gives the next connection to the loop after the last one.
LEMMA AcceptLoad == ASSUME IInv, LoadInv, Accept PROVE LoadInv'
<1> SUFFICES ASSUME numThreads_ > 0
             PROVE  /\ Assigned(Base)' = 0
                    /\ \E a \in Nat : \A l \in 1..numThreads_ :
                          Assigned(l)' = IF l <= next_' THEN a + 1 ELSE a
  BY DEF LoadInv, Accept
<1>1. /\ numThreads_ \in 1..MaxThreads /\ loops_ = numThreads_
      /\ next_ \in 0..(numThreads_ - 1) /\ MaxThreads \in Nat
  BY ServerAssumption DEF IInv, TypeOK, CountersOK, Accept
<1>2. getNextLoop = next_ + 1 /\ next_' = NextIndex
  BY <1>1 DEF getNextLoop, Accept
<1>3. Base \in Loops /\ \A l \in 1..numThreads_ : l \in Loops
  BY <1>1 DEF Base, Loops
<1>4. Assigned(Base)' = 0
  BY <1>1, <1>2, <1>3, AssignedStep DEF LoadInv, Base
<1>5. PICK a \in Nat : \A l \in 1..numThreads_ : Assigned(l) = IF l <= next_ THEN a + 1 ELSE a
  BY DEF LoadInv
<1>6. \A l \in 1..numThreads_ : Assigned(l)' = IF l <= next_ + 1 THEN a + 1 ELSE a
  <2> SUFFICES ASSUME NEW l \in 1..numThreads_
               PROVE  Assigned(l)' = IF l <= next_ + 1 THEN a + 1 ELSE a
    OBVIOUS
  <2>1. Assigned(l)' = IF l = next_ + 1 THEN Assigned(l) + 1 ELSE Assigned(l)
    BY <1>2, <1>3, AssignedStep
  <2> QED
    BY <1>1, <1>5, <2>1
<1>7. CASE next_ + 1 = numThreads_
  <2>1. next_' = 0
    BY <1>1, <1>2, <1>7 DEF NextIndex
  <2>2. \A l \in 1..numThreads_ : Assigned(l)' = IF l <= next_' THEN (a + 1) + 1 ELSE a + 1
    BY <1>1, <1>6, <1>7, <2>1
  <2> QED
    BY <1>4, <2>2
<1>8. CASE next_ + 1 # numThreads_
  <2>1. next_' = next_ + 1
    BY <1>1, <1>2, <1>8 DEF NextIndex
  <2> QED
    BY <1>4, <1>6, <2>1
<1> QED
  BY <1>7, <1>8

\* Only accepting changes the load.
LEMMA NextLoad == IInv /\ LoadInv /\ [Next]_vars => LoadInv'
<1> SUFFICES ASSUME IInv, LoadInv, [Next]_vars PROVE LoadInv'
  OBVIOUS
<1>1. CASE Accept
  BY <1>1, AcceptLoad
<1>2. CASE UNCHANGED <<numThreads_, next_, nextConnId_, ioLoop>>
  <2>1. \A l : Assigned(l)' = Assigned(l)
    BY <1>2, Zenon DEF Assigned
  <2>2. numThreads_' = numThreads_ /\ next_' = next_
    BY <1>2
  <2> QED
    BY <2>1, <2>2 DEF LoadInv
<1>3. Accept \/ UNCHANGED <<numThreads_, next_, nextConnId_, ioLoop>>
  BY Zenon DEF Next, vars, poolVars, StartLoop, Listen, AcceptorHandleRead, AcceptAtLimit, AcceptAborted,
     ClientConnects, Shutdown, HandleClose, PeerCloses, RunFunctor, HandlerReturns,
     ConnectEstablished, RemoveConnectionInLoop, ConnectDestroyed
<1> QED
  BY <1>1, <1>2, <1>3

\* Round-robin: however many connections, the loops of the pool are given the
\* same number of them, give or take one, and the base loop none.
THEOREM LoadBalanced == Spec => []LoadIsBalanced
<1>1. IInv /\ LoadInv => LoadIsBalanced
  <2> SUFFICES ASSUME IInv, LoadInv, numThreads_ > 0,
                      NEW k \in 1..numThreads_, NEW l \in 1..numThreads_
               PROVE  Assigned(Base) = 0 /\ Assigned(k) - Assigned(l) <= 1
    BY DEF LoadIsBalanced, IInv, TypeOK
  <2> QED
    BY DEF LoadInv
<1> QED
  BY <1>1, InitLoad, NextLoad, Invariance, PTL DEF Spec
-----------------------------------------------------------------------------
(* TcpServer implements ConnectionLifecycle. *)

\* The functors on connection d are the same in the queues q and r.
SameFor(d, q, r) == \A l \in Loops, f \in Functors :
                       <<f, d>> \in Pending(r, l) <=> <<f, d>> \in Pending(q, l)

\* queueInLoop leaves the other functors queued.
LEMMA AppendOthers ==
    ASSUME NEW q \in [Loops -> Seq(Functor)], NEW l \in Loops, NEW f \in Functors, NEW c \in Conns
    PROVE  /\ <<f, c>> \in Pending(Appended(q, l, <<f, c>>), l)
           /\ \A d \in Conns \ {c} : SameFor(d, q, Appended(q, l, <<f, c>>))
<1>1. PICK x \in Functor : x = <<f, c>>
  BY DEF Functor
<1>2. PICK r : r = Appended(q, l, x)
  OBVIOUS
<1>3. \A k \in Loops : Pending(r, k) = IF k = l THEN Pending(q, k) \cup {x} ELSE Pending(q, k)
  BY <1>2, QueueAppended
<1>4. x \in Pending(r, l) /\ \A d \in Conns \ {c} : SameFor(d, q, r)
  BY <1>1, <1>3 DEF SameFor
<1> QED
  BY <1>1, <1>2, <1>4

\* Which connections are held, in terms of what is pending.
LEMMA HeldIff ==
    ASSUME IInv, NEW c \in Conns
    PROVE  Held(c) <=> \/ c \in connections_
                       \/ \E l \in Loops, f \in Functors : <<f, c>> \in Pending(queue, l)
                       \/ \E l \in Loops : handling[l] = c
<1>1. queue \in [Loops -> Seq(Functor)]
  BY DEF IInv, TypeOK, Functor
<1> QED
  BY <1>1, QueuedIffPending DEF Held, Queued

\* What holds a connection, in the next state.
LEMMA HeldIffNext ==
    ASSUME IInv', NEW c \in Conns
    PROVE  Held(c)' <=> \/ c \in connections_'
                        \/ \E l \in Loops, f \in Functors : <<f, c>> \in Pending(queue', l)
                        \/ \E l \in Loops : handling'[l] = c
<1>1. queue' \in [Loops -> Seq(Functor)]
  BY DEF IInv, TypeOK, Functor
<1> QED
  BY <1>1, QueuedIffPending DEF Held, Queued

\* A connection no step touches keeps its phase.
LEMMA PhaseSame ==
    ASSUME IInv, IInv', NEW d \in Conns,
           state_'[d] = state_[d], d \in connections_' <=> d \in connections_,
           SameFor(d, queue, queue'),
           \A l \in Loops : handling'[l] = d <=> handling[l] = d
    PROVE  Phase(d)' = Phase(d)
<1>1. Held(d)' <=> Held(d)
  BY HeldIff, HeldIffNext DEF SameFor
<1> QED
  BY <1>1 DEF Phase

\* The phase is read off the stage.
LEMMA PhaseOfStage ==
    ASSUME IInv, NEW c \in Conns
    PROVE  /\ state_[c] \in {"none", "kConnecting"} => Phase(c) = "new"
           /\ state_[c] \in {"kConnected", "kDisconnecting"} => Phase(c) = "up"
           /\ state_[c] = "kDisconnected" => Phase(c) = IF Held(c) THEN "down" ELSE "gone"
<1>1. state_[c] \in {"kConnecting", "kConnected", "kDisconnecting"} => Held(c)
  BY DEF IInv, StagesOK, StageOK, Held
<1> QED
  BY <1>1 DEF Phase

\* The phase of a connection in the next state, from its stage.
LEMMA PhaseOfStageNext ==
    ASSUME IInv', NEW c \in Conns
    PROVE  /\ state_'[c] \in {"none", "kConnecting"} => Phase(c)' = "new"
           /\ state_'[c] \in {"kConnected", "kDisconnecting"} => Phase(c)' = "up"
           /\ state_'[c] = "kDisconnected" => Phase(c)' = IF Held(c)' THEN "down" ELSE "gone"
<1>1. state_'[c] \in {"kConnecting", "kConnected", "kDisconnecting"} => Held(c)'
  BY DEF IInv, StagesOK, StageOK, Held
<1> QED
  BY <1>1 DEF Phase

phases == [c \in Conns |-> Phase(c)]

\* One connection takes one step of its life, or none.
PhaseStep(c) == /\ \A d \in Conns \ {c} : Phase(d)' = Phase(d)
                /\ <<Phase(c), Phase(c)'>> \in {<<"new", "up">>, <<"up", "down">>, <<"down", "gone">>}
                      \/ Phase(c)' = Phase(c)

\* A step that moves one connection along is a step of the lifecycle.
LEMMA PhaseStepImplements ==
    ASSUME NEW c \in Conns, PhaseStep(c)
    PROVE  [Lifecycle!Next]_phases
<1>1. CASE Phase(c)' = Phase(c)
  <2>1. \A d \in Conns : Phase(d)' = Phase(d)
    BY <1>1 DEF PhaseStep
  <2> QED
    BY <2>1, Zenon DEF phases
<1>2. CASE Phase(c)' # Phase(c)
  <2>1. phases' = [phases EXCEPT ![c] = Phase(c)'] /\ phases[c] = Phase(c)
    BY DEF phases, PhaseStep
  <2>2. Lifecycle!Up(c) \/ Lifecycle!Down(c) \/ Lifecycle!Destroyed(c)
    BY <1>2, <2>1 DEF PhaseStep, phases, Lifecycle!Up, Lifecycle!Down, Lifecycle!Destroyed
  <2> QED
    BY <2>2 DEF Lifecycle!Next
<1> QED
  BY <1>1, <1>2
\* Every step of the server is a step of the lifecycle, or none.
LEMMA NextRefines == IInv /\ IInv' /\ [Next]_vars => [Lifecycle!Next]_phases
<1> SUFFICES ASSUME IInv, IInv', [Next]_vars PROVE [Lifecycle!Next]_phases
  OBVIOUS
<1>0. /\ queue \in [Loops -> Seq(Functor)] /\ Base \in Loops
      /\ \A c \in Conns : ioLoop[c] \in Loops /\ c # 0
  <2>1. Base \in Loops /\ 0 \notin Conns
    BY ServerAssumption DEF Base, Loops, Conns
  <2> QED
    BY <2>1 DEF IInv, TypeOK, Functor
\* Steps that leave the connections alone.
<1>1. CASE UNCHANGED <<connections_, state_, queue, handling>>
  <2>1. \A d \in Conns : Phase(d)' = Phase(d)
    BY <1>1, Zenon DEF Phase, Held, Queued
  <2> QED
    BY <2>1, Zenon DEF phases
<1>2. ASSUME NEW c \in Conns, Shutdown(c) PROVE [Lifecycle!Next]_phases
  <2>1. /\ state_[c] = "kConnected" /\ state_'[c] = "kDisconnecting"
        /\ \A d \in Conns \ {c} : state_'[d] = state_[d]
        /\ UNCHANGED <<connections_, queue, handling>>
    BY <1>2 DEF Shutdown, IInv, TypeOK
  <2>2. \A d \in Conns : SameFor(d, queue, queue')
    BY <2>1, Zenon DEF SameFor
  <2>3. \A d \in Conns \ {c} : Phase(d)' = Phase(d)
    BY <2>1, <2>2, PhaseSame
  <2>4. Phase(c) = "up" /\ Phase(c)' = "up"
    BY <2>1, PhaseOfStage, PhaseOfStageNext
  <2> QED
    BY <2>3, <2>4, PhaseStepImplements DEF PhaseStep
<1>3. ASSUME NEW c \in Conns, HandleClose(c) PROVE [Lifecycle!Next]_phases
  <2>1. /\ state_'[c] = "kDisconnected"
        /\ \A d \in Conns \ {c} : state_'[d] = state_[d]
        /\ \A l \in Loops : handling'[l] = IF l = ioLoop[c] THEN c ELSE handling[l]
        /\ handling[ioLoop[c]] = 0
        /\ state_[c] \in {"kConnected", "kDisconnecting"}
    BY <1>3, ReadingIsUp DEF HandleClose, Readable, IInv, TypeOK
  <2>2. PICK n \in Loops, f \in Functors : queue' = Appended(queue, n, <<f, c>>)
    <3>1. CASE ioLoop[c] = Base
      BY <1>0, <1>3, <3>1 DEF HandleClose, ConnectionErased, Appended, Functors
    <3>2. CASE ioLoop[c] # Base
      BY <1>0, <1>3, <3>2 DEF HandleClose, Appended, Functors
    <3> QED
      BY <3>1, <3>2
  <2>3. \A d \in Conns \ {c} : /\ d \in connections_' <=> d \in connections_
                               /\ SameFor(d, queue, queue')
    <3>1. \A d \in Conns \ {c} : d \in connections_' <=> d \in connections_
      BY <1>3 DEF HandleClose
    <3>2. \A d \in Conns \ {c} : SameFor(d, queue, queue')
      BY <1>0, <2>2, AppendOthers
    <3> QED
      BY <3>1, <3>2
  <2>4. \A d \in Conns \ {c}, l \in Loops : handling'[l] = d <=> handling[l] = d
    BY <1>0, <2>1
  <2>5. \A d \in Conns \ {c} : Phase(d)' = Phase(d)
    BY <2>1, <2>3, <2>4, PhaseSame
  <2>6. Held(c)'
    BY <1>0, <2>1 DEF Held
  <2>7. Phase(c) = "up" /\ Phase(c)' = "down"
    BY <2>1, <2>6, PhaseOfStage, PhaseOfStageNext
  <2> QED
    BY <2>5, <2>7, PhaseStepImplements DEF PhaseStep
<1>4. ASSUME NEW l \in Loops, HandlerReturns(l) PROVE [Lifecycle!Next]_phases
  <2>1. PICK c \in Conns : c = handling[l]
    BY <1>4 DEF HandlerReturns, IInv, TypeOK
  <2>2. /\ state_[c] = "kDisconnected" /\ state_'[c] = "kDisconnected"
        /\ UNCHANGED <<connections_, queue, state_>>
        /\ \A k \in Loops : handling'[k] = IF k = l THEN 0 ELSE handling[k]
    BY <1>4, <2>1 DEF HandlerReturns, IInv, TypeOK, HandlersOK, HandlerOK
  <2>3. \A d \in Conns : SameFor(d, queue, queue')
    BY <2>2, Zenon DEF SameFor
  <2>4. \A d \in Conns \ {c} : Phase(d)' = Phase(d)
    BY <1>0, <2>1, <2>2, <2>3, PhaseSame
  <2>5. Held(c)
    BY <2>1 DEF Held
  <2>6. Phase(c) = "down" /\ Phase(c)' \in {"down", "gone"}
    BY <2>2, <2>5, PhaseOfStage, PhaseOfStageNext
  <2> QED
    BY <2>4, <2>6, PhaseStepImplements DEF PhaseStep
<1>5. CASE Accept
  <2>1. PICK c \in Conns : c = nextConnId_
    BY <1>5, ServerAssumption DEF IInv, TypeOK, CountersOK, Accept, Conns
  <2>2. state_[c] = "none"
    <3>1. StageOK(c) /\ ~(c < nextConnId_)
      BY <2>1 DEF IInv, StagesOK, Conns
    <3> QED
      BY <3>1 DEF StageOK
  <2>3. /\ state_'[c] \in {"kConnected", "kConnecting"}
        /\ \A d \in Conns \ {c} : state_'[d] = state_[d]
        /\ \A d \in Conns \ {c} : d \in connections_' <=> d \in connections_
        /\ UNCHANGED handling
    BY <1>5, <2>1 DEF Accept, Established, IInv, TypeOK
  <2>4. PICK l \in Loops : queue' = queue \/ queue' = Appended(queue, l, <<"connectEstablished", c>>)
    BY <1>5, <2>1, NextLoopType DEF Accept, Appended
  <2>5. \A d \in Conns \ {c} : SameFor(d, queue, queue')
    <3>1. CASE queue' = queue
      BY <3>1, Zenon DEF SameFor
    <3>2. CASE queue' = Appended(queue, l, <<"connectEstablished", c>>)
      BY <1>0, <2>1, <3>2, AppendOthers DEF Functors
    <3> QED
      BY <2>4, <3>1, <3>2
  <2>6. \A d \in Conns \ {c} : Phase(d)' = Phase(d)
    BY <2>3, <2>5, PhaseSame
  <2>7. Phase(c) = "new" /\ Phase(c)' \in {"new", "up"}
    BY <2>1, <2>2, <2>3, PhaseOfStage, PhaseOfStageNext
  <2> QED
    BY <2>1, <2>6, <2>7, PhaseStepImplements DEF PhaseStep
<1>6. ASSUME NEW l \in Loops, NEW c \in Conns, ConnectEstablished(l, c)
      PROVE  [Lifecycle!Next]_phases
  <2>1. FunctorOK(l, "connectEstablished", c)
    BY <1>6, FunctorRuns DEF ConnectEstablished, Functors
  <2>2. /\ state_[c] = "kConnecting" /\ state_'[c] = "kConnected"
        /\ \A d \in Conns \ {c} : state_'[d] = state_[d]
        /\ UNCHANGED <<connections_, handling>> /\ queue' = Popped(l)
    BY <1>6, <2>1 DEF ConnectEstablished, Established, FunctorOK, IInv, TypeOK
  <2>3. \A k \in Loops : Pending(Popped(l), k) =
           IF k = l THEN Pending(queue, k) \ {<<"connectEstablished", c>>} ELSE Pending(queue, k)
    BY <1>6, FunctorRuns DEF ConnectEstablished, Functors
  <2>4. \A d \in Conns \ {c} : SameFor(d, queue, queue')
    BY <2>2, <2>3 DEF SameFor
  <2>5. \A d \in Conns \ {c} : Phase(d)' = Phase(d)
    BY <2>2, <2>4, PhaseSame
  <2>6. Phase(c) = "new" /\ Phase(c)' = "up"
    BY <2>2, PhaseOfStage, PhaseOfStageNext
  <2> QED
    BY <2>5, <2>6, PhaseStepImplements DEF PhaseStep
<1>7. ASSUME NEW l \in Loops, NEW c \in Conns, RemoveConnectionInLoop(l, c)
      PROVE  [Lifecycle!Next]_phases
  <2>1. FunctorOK(l, "removeConnectionInLoop", c)
    BY <1>7, FunctorRuns DEF RemoveConnectionInLoop, Functors
  <2>2. /\ state_[c] = "kDisconnected" /\ c \in connections_
        /\ \A d \in Conns \ {c} : d \in connections_' <=> d \in connections_
        /\ UNCHANGED <<state_, handling>>
        /\ queue' = Appended(Popped(l), ioLoop[c], <<"connectDestroyed", c>>)
    BY <1>7, <2>1 DEF RemoveConnectionInLoop, ConnectionErased, Appended, FunctorOK
  <2>3. /\ Popped(l) \in [Loops -> Seq(Functor)]
        /\ \A k \in Loops : Pending(Popped(l), k) =
              IF k = l THEN Pending(queue, k) \ {<<"removeConnectionInLoop", c>>}
              ELSE Pending(queue, k)
    BY <1>7, FunctorRuns DEF RemoveConnectionInLoop, Functors
  <2>4. PICK q : q = Popped(l)
    OBVIOUS
  <2>5. /\ <<"connectDestroyed", c>> \in Pending(queue', ioLoop[c])
        /\ \A d \in Conns \ {c} : SameFor(d, q, queue')
    BY <1>0, <2>2, <2>3, <2>4, AppendOthers DEF Functors
  <2>6. \A d \in Conns \ {c} : SameFor(d, queue, queue')
    BY <2>3, <2>4, <2>5 DEF SameFor
  <2>7. \A d \in Conns \ {c} : Phase(d)' = Phase(d)
    BY <2>2, <2>6, PhaseSame
  <2>8. Held(c) /\ Held(c)'
    BY <1>0, <2>2, <2>5, HeldIffNext DEF Held, Functors
  <2>9. Phase(c) = "down" /\ Phase(c)' = "down"
    BY <2>2, <2>8, PhaseOfStage, PhaseOfStageNext
  <2> QED
    BY <2>7, <2>9, PhaseStepImplements DEF PhaseStep
<1>8. ASSUME NEW l \in Loops, NEW c \in Conns, ConnectDestroyed(l, c)
      PROVE  [Lifecycle!Next]_phases
  <2>1. /\ FunctorOK(l, "connectDestroyed", c)
        /\ <<"connectDestroyed", c>> \in Pending(queue, l)
        /\ \A k \in Loops : Pending(Popped(l), k) =
              IF k = l THEN Pending(queue, k) \ {<<"connectDestroyed", c>>}
              ELSE Pending(queue, k)
    BY <1>8, FunctorRuns DEF ConnectDestroyed, Functors
  <2>2. /\ state_[c] = "kDisconnected" /\ queue' = Popped(l)
        /\ UNCHANGED <<state_, connections_, handling>>
    BY <1>8, <2>1 DEF ConnectDestroyed, FunctorOK
  <2>3. \A d \in Conns \ {c} : SameFor(d, queue, queue')
    BY <2>1, <2>2 DEF SameFor
  <2>4. \A d \in Conns \ {c} : Phase(d)' = Phase(d)
    BY <2>2, <2>3, PhaseSame
  <2>5. Held(c)
    BY <2>1, HeldIff DEF Functors
  <2>6. Phase(c) = "down" /\ Phase(c)' \in {"down", "gone"}
    BY <2>2, <2>5, PhaseOfStage, PhaseOfStageNext
  <2> QED
    BY <2>4, <2>6, PhaseStepImplements DEF PhaseStep
<1>9. CASE UNCHANGED vars \/ StartLoop \/ Listen \/ ClientConnects \/ AcceptAtLimit \/ AcceptAborted
           \/ \E c \in Conns : PeerCloses(c)
  <2>1. UNCHANGED <<connections_, state_, queue, handling>>
    BY <1>9, Zenon DEF vars, StartLoop, Listen, ClientConnects, AcceptAtLimit, AcceptAborted, PeerCloses
  <2> QED
    BY <1>1, <2>1
<1> QED
  BY <1>2, <1>3, <1>4, <1>5, <1>6, <1>7, <1>8, <1>9 DEF Next, AcceptorHandleRead, RunFunctor

\* The connection callback reports every connection up once and down once,
\* and ~TcpConnection comes only after that: handleClose, the two hops between
\* the loops and the return of the handler, in every order they can happen.
THEOREM Implements == Spec => LifecycleOK
<1>1. Init => Lifecycle!Init
  BY DEF Init, Lifecycle!Init, Phase
<1>2. IInv /\ IInv' /\ [Next]_vars => [Lifecycle!Next]_([c \in Conns |-> Phase(c)])
  BY NextRefines DEF phases
<1> QED
  BY <1>1, <1>2, Invariance, PTL DEF Spec, LifecycleOK, Lifecycle!Spec
=============================================================================
