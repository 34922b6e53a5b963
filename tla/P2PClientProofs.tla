-------------------------- MODULE P2PClientProofs --------------------------
(***************************************************************************)
(* Theorems about the client process, for any number of TcpClients made    *)
(* one after the other, neighbours and levels.                             *)
(***************************************************************************)
EXTENDS P2PClient, SequenceTheorems, WellFoundedInduction, TLAPS

-----------------------------------------------------------------------------
(* Short sequences: the poller, the active channels and the functors never *)
(* hold more than two elements of this side.                               *)

One(a) == <<a>>
Two(a, b) == <<a, b>>

\* Their heads, tails and extensions.
LEMMA ShortSeqs ==
    ASSUME NEW a, NEW b
    PROVE  /\ One(a) # <<>> /\ Head(One(a)) = a /\ Tail(One(a)) = <<>>
           /\ Two(a, b) # <<>> /\ Head(Two(a, b)) = a /\ Tail(Two(a, b)) = One(b)
           /\ Append(<<>>, a) = One(a) /\ Append(One(a), b) = Two(a, b)
<1>1. One(a) # <<>> /\ Head(One(a)) = a
  BY DEF One
<1>2. Tail(One(a)) = <<>>
  BY DEF One
<1>3. Two(a, b) # <<>> /\ Head(Two(a, b)) = a
  BY DEF Two
<1>4. Tail(Two(a, b)) = One(b)
  BY DEF One, Two
<1>5. Append(<<>>, a) = One(a)
  BY DEF One
<1>6. Append(One(a), b) = Two(a, b)
  <2>1. /\ One(a) \in Seq({a, b}) /\ Len(One(a)) = 1 /\ One(a)[1] = a
        /\ Two(a, b) \in Seq({a, b}) /\ Len(Two(a, b)) = 2
        /\ Two(a, b)[1] = a /\ Two(a, b)[2] = b
    BY DEF One, Two
  <2>2. PICK s, t, S : s = One(a) /\ t = Two(a, b) /\ S = {a, b}
    OBVIOUS
  <2>3. /\ s \in Seq(S) /\ Len(s) = 1 /\ s[1] = a /\ b \in S
        /\ t \in Seq(S) /\ Len(t) = 2 /\ t[1] = a /\ t[2] = b
    BY <2>1, <2>2
  <2>4. /\ Append(s, b) \in Seq(S) /\ Len(Append(s, b)) = Len(s) + 1
        /\ Append(s, b)[Len(s) + 1] = b /\ \A i \in 1..Len(s) : Append(s, b)[i] = s[i]
    <3>1. \A q \in Seq(S), e \in S : /\ Append(q, e) \in Seq(S) /\ Len(Append(q, e)) = Len(q) + 1
                                     /\ Append(q, e)[Len(q) + 1] = e
                                     /\ \A i \in 1..Len(q) : Append(q, e)[i] = q[i]
      BY AppendProperties
    <3> QED
      BY <2>3, <3>1
  <2>5. PICK r : r = Append(s, b)
    OBVIOUS
  <2>6. r \in Seq(S) /\ Len(r) = 2 /\ r[1] = a /\ r[2] = b
    BY <2>3, <2>4, <2>5
  <2>7. r = t
    BY <2>3, <2>6, SeqEqual
  <2> QED
    BY <2>2, <2>5, <2>7
<1> QED
  BY <1>1, <1>2, <1>3, <1>4, <1>5, <1>6

\* Their lengths and elements.
LEMMA ShortElements ==
    ASSUME NEW a, NEW b
    PROVE  /\ Len(One(a)) = 1 /\ One(a)[1] = a
           /\ Len(Two(a, b)) = 2 /\ Two(a, b)[1] = a /\ Two(a, b)[2] = b
           /\ ToSet(<<>>) = {} /\ ToSet(One(a)) = {a} /\ ToSet(Two(a, b)) = {a, b}
BY DEF One, Two, ToSet

\* A sequence of one or two elements is known by them.
LEMMA ShortEqual ==
    ASSUME NEW a, NEW b, NEW s
    PROVE  /\ s = [i \in 1..1 |-> a] => s = One(a)
           /\ s = [i \in 1..2 |-> IF i = 1 THEN a ELSE b] => s = Two(a, b)
BY DEF One, Two

\* PollPoller::removeChannel on them.
LEMMA ShortRemove ==
    ASSUME NEW a, NEW b, a # b
    PROVE  /\ RemoveChannel(One(a), a) = <<>>
           /\ RemoveChannel(Two(a, b), a) = One(b)
           /\ RemoveChannel(Two(a, b), b) = One(a)
<1>1. RemoveChannel(One(a), a) = <<>>
  <2> DEFINE i == CHOOSE j \in 1..Len(One(a)) : One(a)[j] = a
             fds == [One(a) EXCEPT ![i] = Last(One(a))]
  <2>1. i = 1
    <3>1. Len(One(a)) = 1 /\ One(a)[1] = a
      BY ShortElements
    <3>2. i \in 1..Len(One(a))
      BY <3>1
    <3> QED
      BY <3>1, <3>2
  <2>2. fds \in Seq({a}) /\ Len(fds) = 1
    <3>1. One(a) \in Seq({a}) /\ Len(One(a)) = 1 /\ Last(One(a)) = a
      BY ShortElements DEF One, Last
    <3> HIDE DEF i
    <3> QED
      BY <2>1, <3>1
  <2> HIDE DEF fds
  <2>3. Front(fds) = <<>>
    BY <2>2 DEF Front
  <2> QED
    BY <2>3 DEF RemoveChannel, fds
<1>2. ASSUME NEW ch \in {a, b}
      PROVE  RemoveChannel(Two(a, b), ch) = One(IF ch = a THEN b ELSE a)
  <2> DEFINE i == CHOOSE j \in 1..Len(Two(a, b)) : Two(a, b)[j] = ch
             fds == [Two(a, b) EXCEPT ![i] = Last(Two(a, b))]
             other == IF ch = a THEN b ELSE a
  <2>1. i = IF ch = a THEN 1 ELSE 2
    <3>1. Len(Two(a, b)) = 2 /\ Two(a, b)[1] = a /\ Two(a, b)[2] = b
      BY ShortElements
    <3>2. i \in 1..Len(Two(a, b)) /\ Two(a, b)[i] = ch
      BY <1>2, <3>1
    <3> HIDE DEF i
    <3> QED
      BY <1>2, <3>1, <3>2
  <2>2. fds \in Seq({a, b}) /\ Len(fds) = 2 /\ fds[1] = other
    <3>1. Two(a, b) \in Seq({a, b}) /\ Len(Two(a, b)) = 2 /\ Last(Two(a, b)) = b
      BY ShortElements DEF Two, Last
    <3> HIDE DEF i
    <3> QED
      BY <1>2, <2>1, <3>1, ShortElements
  <2> HIDE DEF fds, other
  <2>3. Front(fds) \in Seq({a, b}) /\ Len(Front(fds)) = 1 /\ Front(fds)[1] = fds[1]
    <3>1. Front(fds) = SubSeq(fds, 1, 1) /\ \A l \in 1..1 : fds[l] \in {a, b}
      BY <2>2 DEF Front, other
    <3> QED
      BY <3>1, SubSeqProperties
  <2>4. Front(fds) = One(other)
    <3>1. One(other) \in Seq({other}) /\ Len(One(other)) = 1 /\ One(other)[1] = other
      BY ShortElements DEF One
    <3>2. PICK s : s = Front(fds)
      OBVIOUS
    <3>3. s \in Seq({a, b}) /\ Len(s) = 1 /\ s[1] = other
      BY <2>2, <2>3, <3>2
    <3> QED
      BY <3>1, <3>2, <3>3
  <2> QED
    BY <2>4 DEF RemoveChannel, fds, other
<1> QED
  BY <1>1, <1>2

\* Channels are told apart by their kind and their number.
LEMMA ChannelsDiffer ==
    ASSUME NEW j, NEW k
    PROVE  /\ ConnChannel(j) # ConnectorChannel(k)
           /\ ConnChannel(j) = ConnChannel(k) => j = k
           /\ ConnectorChannel(j) = ConnectorChannel(k) => j = k
           /\ ConnChannel(k)[1] = "conn" /\ ConnChannel(k)[2] = k
           /\ ConnectorChannel(k)[1] = "connector" /\ ConnectorChannel(k)[2] = k
BY DEF ConnChannel, ConnectorChannel
-----------------------------------------------------------------------------
(* The inductive invariant: which TcpClients, connections, channels and    *)
(* functors there can be at each point of the main thread.                 *)

\* The connection made before the current one; 0 when there is none.
Old == client_ - 1

ResetFn(k) == <<"resetChannel", k>>
DestroyFn(k) == <<"connectDestroyed", k>>

\* The current TcpClient is connecting, its connect has failed, or it is up.
Connecting == connector[client_] = "connecting"
Failed == connector[client_] = "disconnected"
Up == connector[client_] = "connected"

\* The client has left the old connection, which is not closed yet.
Leaving == client_ > 1 /\ tcp[Old] = "disconnecting"

\* The old connection's connectDestroyed, and the current connector's
\* resetChannel, are queued.
DestroyQueued == \/ functors = One(DestroyFn(Old))
                 \/ functors = Two(DestroyFn(Old), ResetFn(client_))
ResetQueued == \/ functors = One(ResetFn(client_))
               \/ functors = Two(DestroyFn(Old), ResetFn(client_))

\* The old connection still has its entry in the poller.
OldPolled == Leaving \/ pc = "closed" \/ DestroyQueued

\* The poller has at most two entries: the old connection's and, after it,
\* that of the current connector or connection.
PollInv ==
    /\ Connecting /\ OldPolled => pollfds_ = Two(ConnChannel(Old), ConnectorChannel(client_))
    /\ Connecting /\ ~OldPolled => pollfds_ = One(ConnectorChannel(client_))
    /\ Up /\ OldPolled => pollfds_ = Two(ConnChannel(Old), ConnChannel(client_))
    /\ Up /\ ~OldPolled => pollfds_ = One(ConnChannel(client_))
    /\ Failed /\ OldPolled => pollfds_ = One(ConnChannel(Old))
    /\ Failed /\ ~OldPolled => pollfds_ = <<>>

\* No other functors are queued, and channel_ is set until resetChannel runs.
FunctorInv ==
    /\ functors = <<>> \/ DestroyQueued \/ ResetQueued
    /\ DestroyQueued => client_ > 1 /\ tcp[Old] = "disconnected" /\ pc \in {"events", "functors"}
    /\ ResetQueued => ~Connecting /\ pc \in {"events", "functors"}
    /\ channel_[client_] <=> (Connecting \/ ResetQueued)

\* The current TcpClient, its connection, connection_ and the old one.
CurrentInv ==
    /\ ~Up => /\ tcp[client_] = "none" /\ state_ # "kConnected"
              /\ Leaving => connection_ = Old
              /\ ~Leaving => connection_ = 0
              /\ request[client_] = "none" /\ inbox[client_] = NoAnswer
    /\ Up /\ pc # "change" =>
          tcp[client_] = "connected" /\ connection_ = client_ /\ state_ = "kConnected"
    /\ inbox[client_] # NoAnswer => request[client_] = "none"
    /\ Leaving => request[Old] = "none" /\ inbox[Old] = NoAnswer

\* The TcpClients to come.
FutureInv == \A k \in Clients : k > client_ =>
                /\ connector[k] = "disconnected" /\ ~channel_[k] /\ tcp[k] = "none"
                /\ request[k] = "none" /\ inbox[k] = NoAnswer

\* The channels still to be handled after a poll(): the old connection's
\* before the current connector's.
ActiveInv ==
    \/ activeChannels_ = <<>>
    \/ /\ activeChannels_ = One(ConnectorChannel(client_))
       /\ Connecting /\ pc \in {"events", "closed"}
    \/ /\ activeChannels_ = One(ConnChannel(client_))
       /\ Up /\ pc = "events" /\ functors = <<>> /\ ~Leaving
    \/ /\ activeChannels_ = One(ConnChannel(Old))
       /\ ~Up /\ pc = "events" /\ functors = <<>> /\ Leaving
    \/ /\ activeChannels_ = Two(ConnChannel(Old), ConnectorChannel(client_))
       /\ Connecting /\ pc = "events" /\ functors = <<>> /\ Leaving

\* Where the main thread is.
PcInv ==
    /\ pc \in {"poll", "functors", "undefined", "asleep", "change"} => activeChannels_ = <<>>
    /\ pc \in {"poll", "undefined", "asleep", "change", "closed"} => functors = <<>>
    /\ pc \in {"poll", "functors", "undefined", "events"} => cur = 0
    /\ pc \in {"asleep", "change"} => Up /\ cur = client_ /\ ~Leaving
    /\ pc = "asleep" => inbox[client_] = NoAnswer /\ request[client_] = "none"
    /\ pc = "change" =>
          \/ closing /\ tcp[client_] = "disconnected" /\ connection_ = 0
          \/ /\ ~closing /\ tcp[client_] \in {"connected", "disconnecting"}
             /\ connection_ = client_
             /\ inbox[client_] = NoAnswer /\ request[client_] = "none"
    /\ pc = "closed" => client_ > 1 /\ cur = Old /\ ~Up /\ tcp[Old] = "disconnected"
    /\ closing => pc \in {"closed", "change"}

\* The types, the sequences' elements aside: the invariant says more of them.
ThreadTypes ==
    /\ pc \in {"poll", "events", "asleep", "change", "closed", "functors", "undefined"}
    /\ cur \in Clients \cup {0} /\ closing \in BOOLEAN
    /\ client_ \in Clients /\ connection_ \in Clients \cup {0}
    /\ connector \in [Clients -> {"disconnected", "connecting", "connected"}]
    /\ channel_ \in [Clients -> BOOLEAN]
    /\ tcp \in [Clients -> {"none", "connected", "disconnecting", "disconnected"}]
    /\ state_ \in {"uninitialized", "kConnecting", "kConnected"}

\* Those of the update and of the network.
FileTypes ==
    /\ isFirst \in BOOLEAN /\ IP \in Addresses \cup {NoAddress} /\ res \in {0, 1}
    /\ updateFile \in Level
    /\ neiIP \in [Peers -> Level \cup {Unknown, AssumedFile}]
NetTypes ==
    /\ dest \in [Clients -> Addresses \cup {NoAddress}]
    /\ attempt \in [Clients -> {"pending", "connected", "refused"}]
    /\ request \in [Clients -> {"none", "a", "c"}]
    /\ inbox \in [Clients -> Answer \cup {NoAnswer}]
    /\ eof \in [Clients -> BOOLEAN]

Types == ThreadTypes /\ FileTypes /\ NetTypes

\* The inductive invariant.
IInv == /\ Types
        /\ PollInv /\ FunctorInv /\ CurrentInv /\ FutureInv /\ ActiveInv /\ PcInv

\* Functors are told apart.
LEMMA FunctorsDiffer ==
    ASSUME NEW j, NEW k
    PROVE  /\ ResetFn(j) # DestroyFn(k)
           /\ ResetFn(k)[1] = "resetChannel" /\ ResetFn(k)[2] = k
           /\ DestroyFn(k)[1] = "connectDestroyed" /\ DestroyFn(k)[2] = k
BY DEF ResetFn, DestroyFn

\* What the queue of functors begins and ends with.
LEMMA QueueShapes ==
    ASSUME NEW j, NEW k
    PROVE  /\ One(DestroyFn(j)) # One(ResetFn(k))
           /\ One(DestroyFn(j)) # Two(DestroyFn(j), ResetFn(k))
           /\ One(ResetFn(k)) # Two(DestroyFn(j), ResetFn(k))
<1>1. /\ Head(One(DestroyFn(j))) = DestroyFn(j) /\ Head(One(ResetFn(k))) = ResetFn(k)
      /\ Head(Two(DestroyFn(j), ResetFn(k))) = DestroyFn(j)
      /\ Tail(One(DestroyFn(j))) = <<>> /\ Tail(Two(DestroyFn(j), ResetFn(k))) = One(ResetFn(k))
      /\ One(ResetFn(k)) # <<>>
  BY ShortSeqs
<1>2. ResetFn(k) # DestroyFn(j)
  BY FunctorsDiffer
<1>3. One(DestroyFn(j)) # One(ResetFn(k))
  BY <1>1, <1>2
<1>4. One(DestroyFn(j)) # Two(DestroyFn(j), ResetFn(k))
  BY <1>1
<1>5. One(ResetFn(k)) # Two(DestroyFn(j), ResetFn(k))
  BY <1>1, <1>2
<1> QED
  BY <1>3, <1>4, <1>5

\* The current number and the one before it.
LEMMA Numbers ==
    ASSUME Types
    PROVE  /\ client_ \in Clients /\ client_ \in Nat /\ Old # client_ /\ MaxClients \in Nat
           /\ client_ > 1 => Old \in Clients
           /\ \A k \in Clients : k > client_ => k # client_ /\ k # Old
           /\ 0 \notin Clients /\ Clients \subseteq Nat
<1>1. client_ \in 1..MaxClients /\ MaxClients \in Nat
  BY ClientAssumption DEF Types, ThreadTypes, Clients
<1>2. client_ \in Nat /\ client_ >= 1 /\ client_ <= MaxClients /\ Old = client_ - 1
  BY <1>1 DEF Old
<1> QED
  BY <1>1, <1>2 DEF Clients
-----------------------------------------------------------------------------
(* Handlers. *)

Shape == PollInv /\ FunctorInv /\ CurrentInv /\ FutureInv /\ ActiveInv /\ PcInv

\* A connector's channel is handled: it is the current one's, and the last.
LEMMA ConnectorHandled ==
    ASSUME IInv, NEW k \in Clients, Handling(ConnectorChannel(k)), Handled
    PROVE  /\ k = client_ /\ Connecting /\ pc = "events" /\ cur = 0
           /\ activeChannels_' = <<>> /\ ~ResetQueued
<1>1. /\ pc = "events" /\ cur = 0 /\ activeChannels_ # <<>>
      /\ Head(activeChannels_) = ConnectorChannel(k)
      /\ activeChannels_' = Tail(activeChannels_)
  BY DEF Handling, Handled
<1>2. \A j, b : /\ Head(One(ConnChannel(j))) # ConnectorChannel(k)
                /\ Head(Two(ConnChannel(j), b)) # ConnectorChannel(k)
  BY ShortSeqs, ChannelsDiffer
<1>3. activeChannels_ = One(ConnectorChannel(client_)) /\ Connecting
  BY <1>1, <1>2 DEF IInv, ActiveInv
<1>4. Head(One(ConnectorChannel(client_))) = ConnectorChannel(client_)
  BY ShortSeqs
<1>5. k = client_
  BY <1>1, <1>3, <1>4, ChannelsDiffer
<1>6. activeChannels_' = <<>>
  BY <1>1, <1>3, ShortSeqs
<1>7. ~ResetQueued
  BY <1>3 DEF IInv, FunctorInv
<1> QED
  BY <1>1, <1>3, <1>5, <1>6, <1>7

\* A connection's channel is handled: it is the only entry, or the connection
\* that was left, before the current connector's.
LEMMA ConnHandled ==
    ASSUME IInv, NEW k \in Clients, Handling(ConnChannel(k)), Handled
    PROVE  /\ pc = "events" /\ cur = 0 /\ functors = <<>>
           /\ \/ k = client_ /\ Up /\ ~Leaving /\ activeChannels_' = <<>>
              \/ /\ k = Old /\ ~Up /\ Leaving
                 /\ \/ activeChannels_' = <<>>
                    \/ Connecting /\ activeChannels_' = One(ConnectorChannel(client_))
<1>1. /\ pc = "events" /\ cur = 0 /\ activeChannels_ # <<>>
      /\ Head(activeChannels_) = ConnChannel(k)
      /\ activeChannels_' = Tail(activeChannels_)
  BY DEF Handling, Handled
<1>2. CASE activeChannels_ = One(ConnectorChannel(client_))
  <2>1. Head(activeChannels_) = ConnectorChannel(client_)
    BY <1>2, ShortSeqs
  <2>2. ConnChannel(k) # ConnectorChannel(client_)
    BY ChannelsDiffer
  <2> QED
    BY <1>1, <2>1, <2>2
<1>3. CASE /\ activeChannels_ = One(ConnChannel(client_))
           /\ Up /\ functors = <<>> /\ ~Leaving
  <2>1. Head(activeChannels_) = ConnChannel(client_) /\ Tail(activeChannels_) = <<>>
    BY <1>3, ShortSeqs
  <2>2. k = client_
    BY <1>1, <2>1, ChannelsDiffer
  <2> QED
    BY <1>1, <1>3, <2>1, <2>2
<1>4. CASE /\ activeChannels_ = One(ConnChannel(Old))
           /\ ~Up /\ functors = <<>> /\ Leaving
  <2>1. Head(activeChannels_) = ConnChannel(Old) /\ Tail(activeChannels_) = <<>>
    BY <1>4, ShortSeqs
  <2>2. k = Old
    BY <1>1, <2>1, ChannelsDiffer
  <2> QED
    BY <1>1, <1>4, <2>1, <2>2
<1>5. CASE /\ activeChannels_ = Two(ConnChannel(Old), ConnectorChannel(client_))
           /\ Connecting /\ functors = <<>> /\ Leaving
  <2>1. /\ Head(activeChannels_) = ConnChannel(Old)
        /\ Tail(activeChannels_) = One(ConnectorChannel(client_))
    BY <1>5, ShortSeqs
  <2>2. k = Old
    BY <1>1, <2>1, ChannelsDiffer
  <2>3. ~Up
    BY <1>5 DEF Connecting, Up
  <2> QED
    BY <1>1, <1>5, <2>1, <2>2, <2>3
<1> QED
  BY <1>1, <1>2, <1>3, <1>4, <1>5 DEF IInv, ActiveInv

\* Connector::removeAndResetChannel takes the current connector's entry out.
LEMMA ConnectorRemoved ==
    ASSUME IInv, Connecting
    PROVE  LET rest == RemoveChannel(pollfds_, ConnectorChannel(client_))
           IN  (OldPolled => rest = One(ConnChannel(Old))) /\ (~OldPolled => rest = <<>>)
<1>1. ConnChannel(Old) # ConnectorChannel(client_)
  BY ChannelsDiffer
<1>2. /\ RemoveChannel(One(ConnectorChannel(client_)), ConnectorChannel(client_)) = <<>>
      /\ RemoveChannel(Two(ConnChannel(Old), ConnectorChannel(client_)),
                       ConnectorChannel(client_)) = One(ConnChannel(Old))
  BY <1>1, ShortRemove
<1> QED
  BY <1>2 DEF IInv, PollInv

\* Connector::handleError and retry: the current connector gives up.
LEMMA ConnectFailedShape == ASSUME IInv, NEW k \in Clients, ConnectFailed(k) PROVE Shape'
<1>1. /\ k = client_ /\ Connecting /\ pc = "events" /\ cur = 0
      /\ activeChannels_' = <<>> /\ ~ResetQueued
  BY ConnectorHandled DEF ConnectFailed
<1>2. /\ pollfds_' = RemoveChannel(pollfds_, ConnectorChannel(client_))
      /\ functors' = Append(functors, ResetFn(client_))
      /\ connector' = [connector EXCEPT ![client_] = "disconnected"]
      /\ pc' = pc /\ cur' = cur /\ closing' = closing /\ client_' = client_
      /\ channel_' = channel_ /\ tcp' = tcp /\ connection_' = connection_ /\ state_' = state_
      /\ request' = request /\ inbox' = inbox
  BY <1>1 DEF ConnectFailed, ResetFn, netVars
<1>3. /\ client_ \in Clients /\ (\A j \in Clients : j > client_ => j # client_)
      /\ connector \in [Clients -> {"disconnected", "connecting", "connected"}]
  BY Numbers DEF IInv, Types, ThreadTypes
<1>4. Failed' /\ ~Connecting' /\ ~Up' /\ (Leaving' <=> Leaving) /\ Old' = Old
  BY <1>2, <1>3 DEF Failed, Connecting, Up, Leaving, Old
<1>5. /\ functors = <<>> => functors' = One(ResetFn(client_))
      /\ DestroyQueued => functors' = Two(DestroyFn(Old), ResetFn(client_))
  BY <1>1, <1>2, ShortSeqs DEF DestroyQueued, ResetQueued
<1>6. functors = <<>> \/ DestroyQueued
  BY <1>1 DEF IInv, FunctorInv
<1>7. ResetQueued' /\ (DestroyQueued' <=> DestroyQueued)
  BY <1>2, <1>4, <1>5, <1>6, QueueShapes, ShortSeqs DEF ResetQueued, DestroyQueued
<1>8. OldPolled' <=> OldPolled
  BY <1>2, <1>4, <1>7 DEF OldPolled
<1>9. /\ OldPolled => pollfds_' = One(ConnChannel(Old))
      /\ ~OldPolled => pollfds_' = <<>>
  BY <1>1, <1>2, ConnectorRemoved
<1>10. PollInv'
  BY <1>2, <1>4, <1>8, <1>9 DEF PollInv
<1>11. FunctorInv'
  BY <1>1, <1>2, <1>4, <1>7 DEF IInv, FunctorInv
<1>12. CurrentInv'
  BY <1>1, <1>2, <1>4 DEF IInv, CurrentInv, Connecting, Up
<1>13. FutureInv'
  BY <1>2, <1>3 DEF IInv, FutureInv
<1>14. ActiveInv' /\ PcInv'
  BY <1>1, <1>2 DEF IInv, ActiveInv, PcInv
<1> QED
  BY <1>10, <1>11, <1>12, <1>13, <1>14 DEF Shape

\* Connector::handleWrite, TcpClient::newConnection: the current one is up.
LEMMA ConnectionUpShape == ASSUME IInv, NEW k \in Clients, ConnectionUp(k) PROVE Shape'
<1>1. /\ k = client_ /\ Connecting /\ pc = "events" /\ cur = 0
      /\ activeChannels_' = <<>> /\ ~ResetQueued
  BY ConnectorHandled DEF ConnectionUp
<1>2. /\ pollfds_' = Append(RemoveChannel(pollfds_, ConnectorChannel(client_)),
                            ConnChannel(client_))
      /\ functors' = Append(functors, ResetFn(client_))
      /\ connector' = [connector EXCEPT ![client_] = "connected"]
      /\ tcp' = [tcp EXCEPT ![client_] = "connected"]
      /\ request' = [request EXCEPT ![client_] = IF isFirst THEN "a" ELSE "c"]
      /\ connection_' = client_ /\ state_' = "kConnected"
      /\ pc' = pc /\ cur' = cur /\ closing' = closing /\ client_' = client_
      /\ channel_' = channel_ /\ inbox' = inbox
  BY <1>1 DEF ConnectionUp, ResetFn
<1>3. /\ client_ \in Clients /\ Old # client_ /\ (client_ > 1 => Old \in Clients)
      /\ (\A j \in Clients : j > client_ => j # client_)
      /\ connector \in [Clients -> {"disconnected", "connecting", "connected"}]
      /\ tcp \in [Clients -> {"none", "connected", "disconnecting", "disconnected"}]
      /\ request \in [Clients -> {"none", "a", "c"}]
  BY Numbers DEF IInv, Types, ThreadTypes, NetTypes
<1>4. ~Failed' /\ ~Connecting' /\ Up' /\ (Leaving' <=> Leaving) /\ Old' = Old
  BY <1>2, <1>3 DEF Failed, Connecting, Up, Leaving, Old
<1>5. /\ functors = <<>> => functors' = One(ResetFn(client_))
      /\ DestroyQueued => functors' = Two(DestroyFn(Old), ResetFn(client_))
  BY <1>1, <1>2, ShortSeqs DEF DestroyQueued, ResetQueued
<1>6. functors = <<>> \/ DestroyQueued
  BY <1>1 DEF IInv, FunctorInv
<1>7. ResetQueued' /\ (DestroyQueued' <=> DestroyQueued)
  BY <1>2, <1>4, <1>5, <1>6, QueueShapes, ShortSeqs DEF ResetQueued, DestroyQueued
<1>8. OldPolled' <=> OldPolled
  BY <1>2, <1>4, <1>7 DEF OldPolled
<1>9. /\ OldPolled => pollfds_' = Two(ConnChannel(Old), ConnChannel(client_))
      /\ ~OldPolled => pollfds_' = One(ConnChannel(client_))
  BY <1>1, <1>2, ConnectorRemoved, ShortSeqs
<1>10. PollInv'
  BY <1>2, <1>4, <1>8, <1>9 DEF PollInv
<1>11. FunctorInv'
  <2>1. client_ > 1 => tcp'[Old] = tcp[Old]
    BY <1>2, <1>3
  <2> QED
    BY <1>1, <1>2, <1>4, <1>7, <2>1 DEF IInv, FunctorInv
<1>12. CurrentInv'
  <2>1. tcp'[client_] = "connected" /\ (client_ > 1 => request'[Old] = request[Old])
    BY <1>2, <1>3
  <2>2. inbox[client_] = NoAnswer
    BY <1>1 DEF IInv, CurrentInv, Connecting, Up
  <2> QED
    BY <1>1, <1>2, <1>4, <2>1, <2>2 DEF IInv, CurrentInv, Leaving
<1>13. FutureInv'
  BY <1>2, <1>3 DEF IInv, FutureInv
<1>14. ActiveInv' /\ PcInv'
  BY <1>1, <1>2 DEF IInv, ActiveInv, PcInv
<1> QED
  BY <1>10, <1>11, <1>12, <1>13, <1>14 DEF Shape

\* P2PClient::onStringMessage: the message came on the current connection,
\* because nothing is asked on one that was left.
LEMMA MessageReadShape == ASSUME IInv, NEW k \in Clients, MessageRead(k) PROVE Shape'
<1>1. /\ pc = "events" /\ cur = 0 /\ functors = <<>>
      /\ \/ k = client_ /\ Up /\ ~Leaving /\ activeChannels_' = <<>>
         \/ /\ k = Old /\ ~Up /\ Leaving
            /\ \/ activeChannels_' = <<>>
               \/ Connecting /\ activeChannels_' = One(ConnectorChannel(client_))
  BY ConnHandled DEF MessageRead
<1>2. /\ inbox[k] # NoAnswer /\ inbox' = [inbox EXCEPT ![k] = NoAnswer]
      /\ cur' = k /\ closing' = FALSE /\ pc' = "asleep"
      /\ pollfds_' = pollfds_ /\ functors' = functors /\ request' = request
      /\ client_' = client_ /\ connector' = connector /\ channel_' = channel_
      /\ tcp' = tcp /\ connection_' = connection_ /\ state_' = state_
  BY DEF MessageRead, objVars
<1>3. k = client_ /\ Up /\ ~Leaving /\ activeChannels_' = <<>>
  BY <1>1, <1>2 DEF IInv, CurrentInv
<1>4. /\ client_ \in Clients /\ Old # client_
      /\ inbox \in [Clients -> Answer \cup {NoAnswer}]
  BY Numbers DEF IInv, Types, NetTypes
<1>5. Up' /\ ~Failed' /\ ~Connecting' /\ ~Leaving' /\ Old' = Old
  BY <1>2, <1>3 DEF Up, Failed, Connecting, Leaving, Old
<1>6. (DestroyQueued' <=> DestroyQueued) /\ (ResetQueued' <=> ResetQueued)
  BY <1>2, <1>5 DEF DestroyQueued, ResetQueued
<1>7. ~DestroyQueued /\ ~ResetQueued
  BY <1>1, ShortSeqs DEF DestroyQueued, ResetQueued
<1>8. ~OldPolled /\ ~OldPolled'
  BY <1>1, <1>2, <1>3, <1>5, <1>6, <1>7 DEF OldPolled
<1>9. PollInv'
  BY <1>2, <1>3, <1>5, <1>8 DEF IInv, PollInv
<1>10. FunctorInv'
  BY <1>1, <1>2, <1>3, <1>5, <1>6, <1>7 DEF IInv, FunctorInv, Connecting
<1>11. CurrentInv'
  BY <1>1, <1>2, <1>3, <1>4, <1>5 DEF IInv, CurrentInv
<1>12. FutureInv'
  BY <1>2, <1>4 DEF IInv, FutureInv
<1>13. ActiveInv' /\ PcInv'
  BY <1>1, <1>2, <1>3, <1>4, <1>5 DEF IInv, CurrentInv, ActiveInv, PcInv
<1> QED
  BY <1>9, <1>10, <1>11, <1>12, <1>13 DEF Shape

\* TcpConnection::handleClose: of the current connection, which makes the
\* client look for another one, or of the one that was left.
LEMMA ConnectionDownShape == ASSUME IInv, NEW k \in Clients, ConnectionDown(k) PROVE Shape'
<1>1. /\ pc = "events" /\ cur = 0 /\ functors = <<>>
      /\ \/ k = client_ /\ Up /\ ~Leaving /\ activeChannels_' = <<>>
         \/ /\ k = Old /\ ~Up /\ Leaving
            /\ \/ activeChannels_' = <<>>
               \/ Connecting /\ activeChannels_' = One(ConnectorChannel(client_))
  BY ConnHandled DEF ConnectionDown
<1>2. /\ tcp' = [tcp EXCEPT ![k] = "disconnected"] /\ connection_' = 0
      /\ cur' = k /\ closing' = TRUE
      /\ state_ = "kConnected" => pc' = "change"
      /\ state_ # "kConnected" => pc' = "closed"
      /\ pollfds_' = pollfds_ /\ functors' = functors /\ request' = request /\ inbox' = inbox
      /\ client_' = client_ /\ connector' = connector /\ channel_' = channel_ /\ state_' = state_
  BY DEF ConnectionDown, netVars
<1>3. /\ client_ \in Clients /\ Old # client_ /\ (client_ > 1 => Old \in Clients)
      /\ (\A j \in Clients : j > client_ => j # client_ /\ j # Old)
      /\ tcp \in [Clients -> {"none", "connected", "disconnecting", "disconnected"}]
  BY Numbers DEF IInv, Types, ThreadTypes
<1>4. (Up' <=> Up) /\ (Failed' <=> Failed) /\ (Connecting' <=> Connecting) /\ Old' = Old
  BY <1>2 DEF Up, Failed, Connecting, Old
<1>5. ~DestroyQueued /\ ~ResetQueued /\ ~DestroyQueued' /\ ~ResetQueued'
  BY <1>1, <1>2, ShortSeqs DEF DestroyQueued, ResetQueued
<1>6. CASE k = client_ /\ Up /\ ~Leaving /\ activeChannels_' = <<>>
  <2>1. pc' = "change" /\ tcp'[client_] = "disconnected" /\ ~Leaving'
    BY <1>1, <1>2, <1>3, <1>4, <1>6 DEF IInv, CurrentInv, Leaving
  <2>2. ~OldPolled /\ ~OldPolled'
    BY <1>1, <1>5, <1>6, <2>1 DEF OldPolled
  <2>3. PollInv'
    BY <1>2, <1>4, <1>6, <2>2 DEF IInv, PollInv, Up, Failed, Connecting
  <2>4. FunctorInv'
    BY <1>1, <1>2, <1>4, <1>5 DEF IInv, FunctorInv
  <2>5. CurrentInv'
    BY <1>2, <1>4, <1>6, <2>1 DEF IInv, CurrentInv
  <2>6. FutureInv'
    BY <1>2, <1>3, <1>6 DEF IInv, FutureInv
  <2>7. ActiveInv' /\ PcInv'
    BY <1>1, <1>2, <1>4, <1>6, <2>1 DEF ActiveInv, PcInv
  <2> QED
    BY <2>3, <2>4, <2>5, <2>6, <2>7 DEF Shape
<1>7. CASE /\ k = Old /\ ~Up /\ Leaving
           /\ \/ activeChannels_' = <<>>
              \/ Connecting /\ activeChannels_' = One(ConnectorChannel(client_))
  <2>1. client_ > 1
    BY <1>7 DEF Leaving
  <2>2. pc' = "closed" /\ tcp'[Old] = "disconnected" /\ tcp'[client_] = tcp[client_] /\ ~Leaving'
    BY <1>1, <1>2, <1>3, <1>4, <1>7, <2>1 DEF IInv, CurrentInv, Leaving
  <2>3. OldPolled /\ OldPolled'
    BY <1>7, <2>2 DEF OldPolled
  <2>4. PollInv'
    BY <1>2, <1>4, <2>3 DEF IInv, PollInv
  <2>5. FunctorInv'
    BY <1>1, <1>2, <1>4, <1>5 DEF IInv, FunctorInv
  <2>6. CurrentInv'
    BY <1>2, <1>4, <1>7, <2>2 DEF IInv, CurrentInv
  <2>7. FutureInv'
    BY <1>2, <1>3, <1>7 DEF IInv, FutureInv
  <2>8. ActiveInv' /\ PcInv'
    BY <1>1, <1>2, <1>4, <1>7, <2>1, <2>2 DEF ActiveInv, PcInv
  <2> QED
    BY <2>4, <2>5, <2>6, <2>7, <2>8 DEF Shape
<1> QED
  BY <1>1, <1>6, <1>7

\* closeCallback_: the connection's connectDestroyed is queued.
LEMMA CloseCallbackShape == ASSUME IInv, CloseCallback PROVE Shape'
<1>1. /\ pc = "closed" /\ functors = <<>> /\ client_ > 1 /\ cur = Old /\ ~Up
      /\ tcp[Old] = "disconnected"
  BY DEF CloseCallback, IInv, PcInv
<1>2. /\ functors' = Append(functors, DestroyFn(Old))
      /\ cur' = 0 /\ closing' = FALSE /\ pc' = "events"
      /\ activeChannels_' = activeChannels_ /\ pollfds_' = pollfds_
      /\ client_' = client_ /\ connector' = connector /\ channel_' = channel_ /\ tcp' = tcp
      /\ connection_' = connection_ /\ state_' = state_ /\ request' = request /\ inbox' = inbox
  BY <1>1 DEF CloseCallback, DestroyFn, objVars, netVars
<1>3. /\ (Up' <=> Up) /\ (Failed' <=> Failed) /\ (Connecting' <=> Connecting) /\ Old' = Old
      /\ (Leaving' <=> Leaving)
  BY <1>2 DEF Up, Failed, Connecting, Leaving, Old
<1>4. functors' = One(DestroyFn(Old))
  BY <1>1, <1>2, ShortSeqs
<1>5. DestroyQueued' /\ ~ResetQueued' /\ ~ResetQueued
  BY <1>1, <1>2, <1>3, <1>4, QueueShapes, ShortSeqs DEF DestroyQueued, ResetQueued
<1>6. OldPolled /\ OldPolled'
  BY <1>1, <1>5 DEF OldPolled
<1>7. PollInv'
  BY <1>2, <1>3, <1>6 DEF IInv, PollInv
<1>8. FunctorInv'
  BY <1>1, <1>2, <1>3, <1>5 DEF IInv, FunctorInv
<1>9. CurrentInv' /\ FutureInv'
  BY <1>1, <1>2, <1>3 DEF IInv, CurrentInv, FutureInv
<1>10. ActiveInv' /\ PcInv'
  BY <1>1, <1>2, <1>3 DEF IInv, ActiveInv, PcInv
<1> QED
  BY <1>7, <1>8, <1>9, <1>10 DEF Shape

\* onStringMessage after its sleep, and the ends of the phases of the loop:
\* nothing is made or destroyed.
LEMMA ControlShape ==
    ASSUME IInv, UpdateDone \/ AskAgain \/ LeaveConnection \/ EventsDone \/ FunctorsDone
    PROVE  Shape'
<1>1. /\ activeChannels_' = activeChannels_ /\ pollfds_' = pollfds_ /\ functors' = functors
      /\ closing' = closing /\ client_' = client_ /\ connector' = connector
      /\ channel_' = channel_ /\ tcp' = tcp /\ connection_' = connection_ /\ state_' = state_
      /\ inbox' = inbox
  BY DEF UpdateDone, AskAgain, LeaveConnection, EventsDone, FunctorsDone, objVars, netVars
<1>2. /\ (Up' <=> Up) /\ (Failed' <=> Failed) /\ (Connecting' <=> Connecting) /\ Old' = Old
      /\ (Leaving' <=> Leaving)
  BY <1>1 DEF Up, Failed, Connecting, Leaving, Old
<1>3. (DestroyQueued' <=> DestroyQueued) /\ (ResetQueued' <=> ResetQueued)
  BY <1>1, <1>2 DEF DestroyQueued, ResetQueued
<1>4. pc # "closed" /\ pc' # "closed"
  BY DEF UpdateDone, AskAgain, LeaveConnection, EventsDone, FunctorsDone
<1>5. OldPolled' <=> OldPolled
  BY <1>2, <1>3, <1>4 DEF OldPolled
<1>6. PollInv'
  BY <1>1, <1>2, <1>5 DEF IInv, PollInv
<1>7. functors = <<>> => ~DestroyQueued /\ ~ResetQueued
  BY ShortSeqs DEF DestroyQueued, ResetQueued
<1>8. /\ pc = "asleep" => activeChannels_ = <<>> /\ functors = <<>>
      /\ pc = "asleep" => Up /\ cur = client_ /\ ~Leaving /\ tcp[client_] = "connected"
      /\ pc = "asleep" => connection_ = client_ /\ state_ = "kConnected" /\ ~closing
      /\ pc = "asleep" => inbox[client_] = NoAnswer /\ request[client_] = "none"
  BY DEF IInv, PcInv, CurrentInv
<1>9. CASE UpdateDone
  <2>1. pc = "asleep" /\ cur' = 0 /\ pc' = "events" /\ request' = request
    BY <1>9 DEF UpdateDone, netVars
  <2>2. FunctorInv' /\ CurrentInv' /\ FutureInv'
    BY <1>1, <1>2, <1>3, <1>7, <1>8, <2>1 DEF IInv, FunctorInv, CurrentInv, FutureInv
  <2>3. ActiveInv' /\ PcInv'
    BY <1>1, <1>2, <1>8, <2>1 DEF ActiveInv, PcInv
  <2> QED
    BY <1>6, <2>2, <2>3 DEF Shape
<1>10. CASE AskAgain
  <2>1. pc = "asleep" /\ cur' = 0 /\ pc' = "events"
    BY <1>10 DEF AskAgain
  <2>2. request' = [request EXCEPT ![client_] = "c"]
    BY <1>8, <1>10, Numbers DEF AskAgain, IInv
  <2>3. /\ client_ \in Clients /\ Old # client_
        /\ (\A j \in Clients : j > client_ => j # client_)
        /\ request \in [Clients -> {"none", "a", "c"}]
    BY Numbers DEF IInv, Types, NetTypes
  <2>4. FunctorInv'
    BY <1>1, <1>2, <1>3, <1>7, <1>8, <2>1 DEF IInv, FunctorInv
  <2>5. CurrentInv' /\ FutureInv'
    BY <1>1, <1>2, <1>8, <2>1, <2>2, <2>3 DEF IInv, CurrentInv, FutureInv
  <2>6. ActiveInv' /\ PcInv'
    BY <1>1, <1>2, <1>8, <2>1 DEF ActiveInv, PcInv
  <2> QED
    BY <1>6, <2>4, <2>5, <2>6 DEF Shape
<1>11. CASE LeaveConnection
  <2>1. pc = "asleep" /\ cur' = cur /\ pc' = "change" /\ request' = request
    BY <1>11 DEF LeaveConnection, netVars
  <2>2. FunctorInv' /\ CurrentInv' /\ FutureInv'
    BY <1>1, <1>2, <1>3, <1>7, <1>8, <2>1 DEF IInv, FunctorInv, CurrentInv, FutureInv
  <2>3. ActiveInv' /\ PcInv'
    BY <1>1, <1>2, <1>8, <2>1 DEF ActiveInv, PcInv
  <2> QED
    BY <1>6, <2>2, <2>3 DEF Shape
<1>12. CASE EventsDone
  <2>1. /\ pc = "events" /\ cur' = cur /\ cur = 0 /\ pc' = "functors" /\ request' = request
        /\ activeChannels_ = <<>> 
    BY <1>12 DEF EventsDone, netVars
  <2>2. FunctorInv' /\ CurrentInv' /\ FutureInv'
    BY <1>1, <1>2, <1>3, <2>1 DEF IInv, FunctorInv, CurrentInv, FutureInv
  <2>3. ActiveInv' /\ PcInv'
    BY <1>1, <1>2, <2>1 DEF IInv, ActiveInv, PcInv
  <2> QED
    BY <1>6, <2>2, <2>3 DEF Shape
<1>13. CASE FunctorsDone
  <2>1. /\ pc = "functors" /\ cur' = cur /\ pc' = "poll" /\ request' = request
        /\ functors = <<>>
    BY <1>13 DEF FunctorsDone, netVars
  <2>2. FunctorInv' /\ CurrentInv' /\ FutureInv'
    BY <1>1, <1>2, <1>3, <1>7, <2>1 DEF IInv, FunctorInv, CurrentInv, FutureInv
  <2>3. ActiveInv' /\ PcInv'
    BY <1>1, <1>2, <2>1 DEF IInv, ActiveInv, PcInv
  <2> QED
    BY <1>6, <2>2, <2>3 DEF Shape
<1> QED
  BY <1>9, <1>10, <1>11, <1>12, <1>13

\* doPendingFunctors: connectDestroyed takes the old connection's entry out,
\* resetChannel clears channel_.
LEMMA RunFunctorShape == ASSUME IInv, RunFunctor PROVE Shape'
<1>1. /\ pc = "functors" /\ functors # <<>> /\ functors' = Tail(functors)
      /\ pc' = pc /\ activeChannels_' = activeChannels_ /\ cur' = cur /\ closing' = closing
      /\ client_' = client_ /\ connector' = connector /\ tcp' = tcp
      /\ connection_' = connection_ /\ state_' = state_ /\ request' = request /\ inbox' = inbox
  BY DEF RunFunctor, netVars
<1>2. /\ (Up' <=> Up) /\ (Failed' <=> Failed) /\ (Connecting' <=> Connecting) /\ Old' = Old
      /\ (Leaving' <=> Leaving)
  BY <1>1 DEF Up, Failed, Connecting, Leaving, Old
<1>3. activeChannels_ = <<>> /\ cur = 0
  BY <1>1 DEF IInv, PcInv
<1>4. DestroyQueued \/ functors = One(ResetFn(client_))
  BY <1>1 DEF IInv, FunctorInv, DestroyQueued, ResetQueued
<1>5. CurrentInv'
  BY <1>1, <1>2 DEF IInv, CurrentInv
<1>6. ActiveInv' /\ PcInv'
  BY <1>1, <1>2, <1>3 DEF IInv, ActiveInv, PcInv
<1>7. /\ client_ \in Clients /\ Old # client_
      /\ (\A j \in Clients : j > client_ => j # client_)
      /\ channel_ \in [Clients -> BOOLEAN]
  BY Numbers DEF IInv, Types, ThreadTypes
<1>8. CASE functors = One(ResetFn(client_))
  <2>1. Head(functors) = ResetFn(client_) /\ functors' = <<>>
    BY <1>1, <1>8, ShortSeqs
  <2>2. channel_' = [channel_ EXCEPT ![client_] = FALSE] /\ pollfds_' = pollfds_
    BY <2>1, FunctorsDiffer DEF RunFunctor
  <2>3. ~DestroyQueued /\ ResetQueued /\ ~DestroyQueued' /\ ~ResetQueued'
    BY <1>8, <2>1, QueueShapes, ShortSeqs DEF DestroyQueued, ResetQueued
  <2>4. OldPolled' <=> OldPolled
    BY <1>1, <1>2, <2>3 DEF OldPolled
  <2>5. PollInv'
    BY <1>1, <1>2, <2>2, <2>4 DEF IInv, PollInv
  <2>6. FunctorInv'
    <3>1. ~channel_'[client_] /\ ~Connecting
      BY <1>7, <2>2, <2>3 DEF IInv, FunctorInv
    <3> QED
      BY <1>1, <1>2, <2>1, <2>3, <3>1 DEF FunctorInv
  <2>7. FutureInv'
    BY <1>1, <1>7, <2>2 DEF IInv, FutureInv
  <2> QED
    BY <1>5, <1>6, <2>5, <2>6, <2>7 DEF Shape
<1>9. CASE DestroyQueued
  <2>1. /\ Head(functors) = DestroyFn(Old)
        /\ functors = One(DestroyFn(Old)) => functors' = <<>>
        /\ functors = Two(DestroyFn(Old), ResetFn(client_)) => functors' = One(ResetFn(client_))
    BY <1>1, <1>9, ShortSeqs DEF DestroyQueued
  <2>2. channel_' = channel_ /\ pollfds_' = RemoveChannel(pollfds_, ConnChannel(Old))
    BY <2>1, FunctorsDiffer DEF RunFunctor
  <2>3. ~DestroyQueued' /\ (ResetQueued' <=> ResetQueued)
    BY <1>1, <1>2, <1>9, <2>1, QueueShapes, ShortSeqs DEF DestroyQueued, ResetQueued
  <2>4. OldPolled /\ ~OldPolled'
    BY <1>1, <1>2, <1>9, <2>3 DEF OldPolled, IInv, FunctorInv, Leaving
  <2>5. /\ RemoveChannel(One(ConnChannel(Old)), ConnChannel(Old)) = <<>>
        /\ RemoveChannel(Two(ConnChannel(Old), ConnChannel(client_)), ConnChannel(Old))
             = One(ConnChannel(client_))
        /\ RemoveChannel(Two(ConnChannel(Old), ConnectorChannel(client_)), ConnChannel(Old))
             = One(ConnectorChannel(client_))
    <3>1. /\ ConnChannel(Old) # ConnChannel(client_)
          /\ ConnChannel(Old) # ConnectorChannel(client_)
      BY <1>7, ChannelsDiffer
    <3> QED
      BY <3>1, ShortRemove
  <2>6. PollInv'
    BY <1>1, <1>2, <2>2, <2>4, <2>5 DEF IInv, PollInv
  <2>7. FunctorInv'
    BY <1>1, <1>2, <1>9, <2>1, <2>2, <2>3 DEF IInv, FunctorInv, DestroyQueued, ResetQueued
  <2>8. FutureInv'
    BY <1>1, <2>2 DEF IInv, FutureInv
  <2> QED
    BY <1>5, <1>6, <2>6, <2>7, <2>8 DEF Shape
<1> QED
  BY <1>4, <1>8, <1>9

\* changeServer finds the current connection made, and nothing else polled or
\* queued.
LEMMA AtChange ==
    ASSUME IInv, pc = "change"
    PROVE  /\ Up /\ cur = client_ /\ ~Leaving /\ activeChannels_ = <<>> /\ functors = <<>>
           /\ ~DestroyQueued /\ ~ResetQueued /\ ~channel_[client_]
           /\ pollfds_ = One(ConnChannel(client_))
           /\ closing => tcp[client_] = "disconnected" /\ connection_ = 0
           /\ ~closing => /\ tcp[client_] \in {"connected", "disconnecting"}
                          /\ connection_ = client_
                          /\ inbox[client_] = NoAnswer /\ request[client_] = "none"
<1>1. Up /\ cur = client_ /\ ~Leaving /\ activeChannels_ = <<>> /\ functors = <<>>
  BY DEF IInv, PcInv
<1>2. ~DestroyQueued /\ ~ResetQueued
  BY <1>1, ShortSeqs DEF DestroyQueued, ResetQueued
<1>3. ~channel_[client_]
  BY <1>1, <1>2 DEF IInv, FunctorInv, Up, Connecting
<1>4. ~OldPolled
  BY <1>1, <1>2 DEF OldPolled
<1>5. pollfds_ = One(ConnChannel(client_))
  BY <1>1, <1>4 DEF IInv, PollInv
<1>6. /\ closing => tcp[client_] = "disconnected" /\ connection_ = 0
      /\ ~closing => /\ tcp[client_] \in {"connected", "disconnecting"}
                     /\ connection_ = client_
                     /\ inbox[client_] = NoAnswer /\ request[client_] = "none"
  BY DEF IInv, PcInv
<1> QED
  BY <1>1, <1>2, <1>3, <1>5, <1>6

\* client_->disconnect(): the connection that is left is closed, or half closed.
LEMMA DisconnectedEffect ==
    ASSUME IInv, pc = "change"
    PROVE  /\ Disconnected \in [Clients -> {"none", "connected", "disconnecting", "disconnected"}]
           /\ \A k \in Clients : k # client_ => Disconnected[k] = tcp[k]
           /\ closing => Disconnected[client_] = "disconnected"
           /\ ~closing => Disconnected[client_] = "disconnecting"
<1>1. /\ client_ \in Clients /\ 0 \notin Clients
      /\ tcp \in [Clients -> {"none", "connected", "disconnecting", "disconnected"}]
  BY Numbers DEF IInv, Types, ThreadTypes
<1>2. /\ closing => tcp[client_] = "disconnected" /\ connection_ = 0
      /\ ~closing => tcp[client_] \in {"connected", "disconnecting"} /\ connection_ = client_
  BY AtChange
<1> QED
  BY <1>1, <1>2 DEF Disconnected

\* changeServer whose test connection is refused.
LEMMA ChangeFailsShape == ASSUME IInv, ChangeFails PROVE Shape'
<1>0. pc = "change"
  BY DEF ChangeFails
<1>1. /\ pc' = pc /\ activeChannels_' = activeChannels_ /\ pollfds_' = pollfds_
      /\ functors' = functors /\ cur' = cur /\ closing' = closing
      /\ client_' = client_ /\ connector' = connector /\ channel_' = channel_
      /\ tcp' = Disconnected /\ connection_' = connection_
      /\ request' = request /\ inbox' = inbox
  BY DEF ChangeFails, loopVars, netVars
<1>2. /\ Up /\ cur = client_ /\ ~Leaving /\ activeChannels_ = <<>> /\ functors = <<>>
      /\ ~DestroyQueued /\ ~ResetQueued /\ ~channel_[client_]
      /\ pollfds_ = One(ConnChannel(client_))
      /\ closing => tcp[client_] = "disconnected" /\ connection_ = 0
      /\ ~closing => /\ tcp[client_] \in {"connected", "disconnecting"}
                     /\ connection_ = client_
                     /\ inbox[client_] = NoAnswer /\ request[client_] = "none"
  BY <1>0, AtChange
<1>3. /\ client_ \in Clients /\ Old # client_ /\ (client_ > 1 => Old \in Clients)
      /\ (\A j \in Clients : j > client_ => j # client_)
  BY Numbers DEF IInv
<1>4. /\ \A k \in Clients : k # client_ => tcp'[k] = tcp[k]
      /\ closing => tcp'[client_] = "disconnected"
      /\ ~closing => tcp'[client_] = "disconnecting"
  BY <1>0, <1>1, DisconnectedEffect
<1>5. Up' /\ ~Failed' /\ ~Connecting' /\ ~Leaving' /\ Old' = Old
  BY <1>1, <1>2, <1>3, <1>4 DEF Up, Failed, Connecting, Leaving, Old
<1>6. ~DestroyQueued' /\ ~ResetQueued'
  BY <1>1, <1>2, ShortSeqs DEF DestroyQueued, ResetQueued
<1>7. ~OldPolled'
  BY <1>0, <1>1, <1>5, <1>6 DEF OldPolled
<1>8. PollInv'
  BY <1>1, <1>2, <1>5, <1>7 DEF PollInv
<1>9. FunctorInv'
  BY <1>1, <1>2, <1>5, <1>6 DEF FunctorInv
<1>10. CurrentInv'
  BY <1>0, <1>1, <1>5 DEF IInv, CurrentInv
<1>11. FutureInv'
  BY <1>1, <1>3, <1>4 DEF IInv, FutureInv
<1>12. ActiveInv' /\ PcInv'
  BY <1>0, <1>1, <1>2, <1>4, <1>5 DEF ActiveInv, PcInv
<1> QED
  BY <1>8, <1>9, <1>10, <1>11, <1>12 DEF Shape

\* changeServer that succeeds: the current connection becomes the old one.
LEMMA ChangeSucceedsShape ==
    ASSUME IInv, NEW refused \in BOOLEAN, ChangeSucceeds(refused)
    PROVE  Shape'
<1>0. pc = "change" /\ client_ < MaxClients
  BY DEF ChangeSucceeds
<1>1. /\ client_' = client_ + 1 /\ tcp' = Disconnected /\ state_' = "kConnecting"
      /\ StartConnector(client_ + 1, refused)
      /\ closing => pc' = "closed" /\ cur' = cur
      /\ ~closing => pc' = "events" /\ cur' = 0
      /\ activeChannels_' = activeChannels_ /\ functors' = functors /\ closing' = closing
      /\ connection_' = connection_ /\ request' = request /\ inbox' = inbox
  BY DEF ChangeSucceeds
<1>2. /\ Up /\ cur = client_ /\ ~Leaving /\ activeChannels_ = <<>> /\ functors = <<>>
      /\ pollfds_ = One(ConnChannel(client_))
      /\ closing => connection_ = 0
      /\ ~closing => /\ connection_ = client_
                     /\ inbox[client_] = NoAnswer /\ request[client_] = "none"
  BY <1>0, AtChange
<1>3. /\ client_ \in Clients /\ client_ \in Nat /\ client_ >= 1 /\ client_' \in Clients
      /\ Old' = client_ /\ client_' > 1 /\ client_' > client_ /\ client_' # client_
      /\ \A j \in Clients : j > client_' => j > client_ /\ j # client_ /\ j # client_'
  <2>1. client_ \in 1..MaxClients /\ MaxClients \in Nat
    BY ClientAssumption DEF IInv, Types, ThreadTypes, Clients
  <2> QED
    BY <1>0, <1>1, <2>1 DEF Clients, Old
<1>4. /\ \A k \in Clients : k # client_ => tcp'[k] = tcp[k]
      /\ closing => tcp'[client_] = "disconnected"
      /\ ~closing => tcp'[client_] = "disconnecting"
  BY <1>0, <1>1, DisconnectedEffect
<1>5. /\ connector[client_'] = "disconnected" /\ ~channel_[client_'] /\ tcp'[client_'] = "none"
      /\ request[client_'] = "none" /\ inbox[client_'] = NoAnswer
  BY <1>3, <1>4 DEF IInv, FutureInv
<1>6. /\ connector \in [Clients -> {"disconnected", "connecting", "connected"}]
      /\ channel_ \in [Clients -> BOOLEAN]
  BY DEF IInv, Types, ThreadTypes
<1>7. \/ /\ connector' = connector /\ channel_' = channel_ /\ pollfds_' = pollfds_
      \/ /\ connector' = [connector EXCEPT ![client_'] = "connecting"]
         /\ channel_' = [channel_ EXCEPT ![client_'] = TRUE]
         /\ pollfds_' = Append(pollfds_, ConnectorChannel(client_'))
  BY <1>1 DEF StartConnector
<1>8. /\ ~Up' /\ (Leaving' <=> ~closing)
      /\ \/ Failed' /\ ~Connecting' /\ ~channel_'[client_'] /\ pollfds_' = One(ConnChannel(client_))
         \/ /\ Connecting' /\ ~Failed' /\ channel_'[client_']
            /\ pollfds_' = Two(ConnChannel(client_), ConnectorChannel(client_'))
  <2>1. Leaving' <=> ~closing
    BY <1>3, <1>4 DEF Leaving
  <2>2. Append(pollfds_, ConnectorChannel(client_'))
           = Two(ConnChannel(client_), ConnectorChannel(client_'))
    BY <1>2, ShortSeqs
  <2> QED
    BY <1>2, <1>3, <1>5, <1>6, <1>7, <2>1, <2>2 DEF Up, Failed, Connecting
<1>9. ~DestroyQueued' /\ ~ResetQueued'
  BY <1>1, <1>2, ShortSeqs DEF DestroyQueued, ResetQueued
<1>10. OldPolled'
  BY <1>1, <1>8 DEF OldPolled
<1>11. PollInv'
  BY <1>3, <1>8, <1>10 DEF PollInv
<1>12. FunctorInv'
  BY <1>1, <1>2, <1>8, <1>9 DEF FunctorInv
<1>13. CurrentInv'
  <2>1. state_' # "kConnected"
    BY <1>1
  <2>2. request'[client_'] = "none" /\ inbox'[client_'] = NoAnswer /\ tcp'[client_'] = "none"
    BY <1>1, <1>5
  <2>3. (Leaving' => connection_' = Old') /\ (~Leaving' => connection_' = 0)
    BY <1>1, <1>2, <1>3, <1>8
  <2>4. Leaving' => request'[Old'] = "none" /\ inbox'[Old'] = NoAnswer
    BY <1>1, <1>2, <1>3, <1>8
  <2> QED
    BY <1>8, <2>1, <2>2, <2>3, <2>4 DEF CurrentInv
<1>14. FutureInv'
  <2> SUFFICES ASSUME NEW k \in Clients, k > client_'
               PROVE  /\ connector'[k] = "disconnected" /\ ~channel_'[k] /\ tcp'[k] = "none"
                      /\ request'[k] = "none" /\ inbox'[k] = NoAnswer
    BY DEF FutureInv
  <2>1. k > client_ /\ k # client_ /\ k # client_'
    BY <1>3
  <2>2. /\ connector[k] = "disconnected" /\ ~channel_[k] /\ tcp[k] = "none"
        /\ request[k] = "none" /\ inbox[k] = NoAnswer
    BY <2>1 DEF IInv, FutureInv
  <2> QED
    BY <1>1, <1>4, <1>6, <1>7, <2>1, <2>2
<1>15. ActiveInv'
  BY <1>1, <1>2 DEF ActiveInv
<1>16. PcInv'
  BY <1>1, <1>2, <1>3, <1>4, <1>8 DEF PcInv
<1> QED
  BY <1>11, <1>12, <1>13, <1>14, <1>15, <1>16 DEF Shape
-----------------------------------------------------------------------------
(* poll() and the network. *)

\* fillActiveChannels over two entries.
LEMMA ReportedOfTwo ==
    ASSUME NEW a, NEW b, pollfds_ = Two(a, b), NEW n \in 1..Len(pollfds_),
           NEW entry \in [1..n -> 1..Len(pollfds_)], ReportedInOrder(n, entry)
    PROVE  activeChannels_' \in {One(a), One(b), Two(a, b)}
<1>1. Len(pollfds_) = 2 /\ pollfds_[1] = a /\ pollfds_[2] = b
  BY ShortElements
<1>2. CASE n = 1
  <2>1. entry[1] \in 1..2
    BY <1>1, <1>2
  <2>2. activeChannels_' = [i \in 1..1 |-> pollfds_[entry[i]]]
    BY <1>2 DEF ReportedInOrder
  <2>3. activeChannels_' = [i \in 1..1 |-> pollfds_[entry[1]]]
    BY <2>2
  <2>4. activeChannels_' = One(pollfds_[entry[1]])
    BY <2>3, ShortEqual
  <2> QED
    BY <1>1, <2>1, <2>4
<1>3. CASE n = 2
  <2>1. entry[1] \in 1..2 /\ entry[2] \in 1..2 /\ entry[1] < entry[2]
    BY <1>1, <1>3 DEF ReportedInOrder
  <2>2. entry[1] = 1 /\ entry[2] = 2
    BY <2>1
  <2>3. activeChannels_' = [i \in 1..2 |-> pollfds_[entry[i]]]
    BY <1>3 DEF ReportedInOrder
  <2>4. activeChannels_' = [i \in 1..2 |-> IF i = 1 THEN a ELSE b]
    BY <1>1, <2>2, <2>3
  <2> QED
    BY <2>4, ShortEqual
<1> QED
  BY <1>1, <1>2, <1>3

\* fillActiveChannels over one entry.
LEMMA ReportedOfOne ==
    ASSUME NEW a, pollfds_ = One(a), NEW n \in 1..Len(pollfds_),
           NEW entry \in [1..n -> 1..Len(pollfds_)], ReportedInOrder(n, entry)
    PROVE  activeChannels_' = One(a)
<1>1. Len(pollfds_) = 1 /\ pollfds_[1] = a
  BY ShortElements
<1>2. n = 1 /\ entry[1] = 1
  BY <1>1
<1>3. activeChannels_' = [i \in 1..1 |-> pollfds_[entry[i]]]
  BY <1>2 DEF ReportedInOrder
<1>4. activeChannels_' = [i \in 1..1 |-> a]
  BY <1>1, <1>2, <1>3
<1> QED
  BY <1>4, ShortEqual

\* poll() reports channels that exist, or finds that one of them does not.
LEMMA PollShape == ASSUME IInv, Poll PROVE Shape'
<1>1. /\ pc = "poll" /\ pollfds_' = pollfds_ /\ functors' = functors /\ cur' = cur
      /\ closing' = closing /\ client_' = client_ /\ connector' = connector
      /\ channel_' = channel_ /\ tcp' = tcp /\ connection_' = connection_ /\ state_' = state_
      /\ request' = request /\ inbox' = inbox /\ pc' \in {"events", "undefined"}
  BY DEF Poll, objVars, netVars
<1>2. activeChannels_ = <<>> /\ functors = <<>> /\ cur = 0 /\ ~closing
  BY <1>1 DEF IInv, PcInv
<1>3. /\ (Up' <=> Up) /\ (Failed' <=> Failed) /\ (Connecting' <=> Connecting) /\ Old' = Old
      /\ (Leaving' <=> Leaving)
  BY <1>1 DEF Up, Failed, Connecting, Leaving, Old
<1>4. ~DestroyQueued /\ ~ResetQueued /\ ~DestroyQueued' /\ ~ResetQueued'
  BY <1>1, <1>2, ShortSeqs DEF DestroyQueued, ResetQueued
<1>5. (OldPolled' <=> OldPolled) /\ (OldPolled <=> Leaving)
  BY <1>1, <1>3, <1>4 DEF OldPolled
<1>6. PollInv'
  BY <1>1, <1>3, <1>5 DEF IInv, PollInv
<1>7. FunctorInv' /\ CurrentInv' /\ FutureInv'
  BY <1>1, <1>2, <1>3, <1>4 DEF IInv, FunctorInv, CurrentInv, FutureInv
<1>8. CASE pc' = "undefined"
  <2>1. activeChannels_' = activeChannels_
    BY <1>8 DEF Poll
  <2> QED
    BY <1>1, <1>2, <1>6, <1>7, <1>8, <2>1 DEF Shape, ActiveInv, PcInv
<1>9. CASE pc' = "events"
  <2>1. \A i \in 1..Len(pollfds_) : Alive(pollfds_[i])
    BY <1>9 DEF Poll
  <2>2. PICK n \in 1..Len(pollfds_) : \E entry \in [1..n -> 1..Len(pollfds_)] :
           ReportedInOrder(n, entry)
    BY <1>9 DEF Poll
  <2>3. Failed \/ Connecting \/ Up
    BY Numbers DEF IInv, Types, ThreadTypes, Failed, Connecting, Up
  <2>4. ~(Up /\ Leaving)
    <3> SUFFICES ASSUME Up, Leaving PROVE FALSE
      OBVIOUS
    <3>1. pollfds_ = Two(ConnChannel(Old), ConnChannel(client_))
      BY <1>5 DEF IInv, PollInv
    <3>2. Alive(ConnChannel(Old))
      <4>1. Len(pollfds_) = 2 /\ pollfds_[1] = ConnChannel(Old)
        BY <3>1, ShortElements
      <4> QED
        BY <2>1, <4>1
    <3>3. Held(Old)
      BY <3>2, ChannelsDiffer DEF Alive
    <3>4. connection_ = client_ /\ Old # client_ /\ Old # 0
      BY <1>1, Numbers DEF IInv, CurrentInv, Leaving
    <3>5. Len(functors) = 0
      BY <1>2
    <3> QED
      BY <1>2, <3>3, <3>4, <3>5 DEF Held
  <2>5. CASE Leaving
    <3>1. CASE Connecting
      <4>1. pollfds_ = Two(ConnChannel(Old), ConnectorChannel(client_))
        BY <1>5, <2>5, <3>1 DEF IInv, PollInv
      <4>2. activeChannels_' \in {One(ConnChannel(Old)), One(ConnectorChannel(client_)),
                                  Two(ConnChannel(Old), ConnectorChannel(client_))}
        BY <2>2, <4>1, ReportedOfTwo
      <4>3. ~Up
        BY <3>1 DEF Connecting, Up
      <4> QED
        BY <1>1, <1>2, <1>3, <1>6, <1>7, <1>9, <2>5, <3>1, <4>2, <4>3 DEF Shape, ActiveInv, PcInv
    <3>2. CASE Failed
      <4>1. pollfds_ = One(ConnChannel(Old)) /\ ~Up
        BY <1>5, <2>5, <3>2 DEF IInv, PollInv, Failed, Up
      <4>2. activeChannels_' = One(ConnChannel(Old))
        BY <2>2, <4>1, ReportedOfOne
      <4> QED
        BY <1>1, <1>2, <1>3, <1>6, <1>7, <1>9, <2>5, <4>1, <4>2 DEF Shape, ActiveInv, PcInv
    <3> QED
      BY <2>3, <2>4, <2>5, <3>1, <3>2
  <2>6. CASE ~Leaving
    <3>1. CASE Connecting
      <4>1. pollfds_ = One(ConnectorChannel(client_))
        BY <1>5, <2>6, <3>1 DEF IInv, PollInv
      <4>2. activeChannels_' = One(ConnectorChannel(client_))
        BY <2>2, <4>1, ReportedOfOne
      <4> QED
        BY <1>1, <1>2, <1>3, <1>6, <1>7, <1>9, <3>1, <4>2 DEF Shape, ActiveInv, PcInv
    <3>2. CASE Up
      <4>1. pollfds_ = One(ConnChannel(client_))
        BY <1>5, <2>6, <3>2 DEF IInv, PollInv
      <4>2. activeChannels_' = One(ConnChannel(client_))
        BY <2>2, <4>1, ReportedOfOne
      <4> QED
        BY <1>1, <1>2, <1>3, <1>6, <1>7, <1>9, <2>6, <3>2, <4>2 DEF Shape, ActiveInv, PcInv
    <3>3. CASE Failed
      <4>1. pollfds_ = <<>>
        BY <1>5, <2>6, <3>3 DEF IInv, PollInv
      <4>2. Len(pollfds_) = 0
        BY <4>1
      <4> QED
        BY <2>2, <4>2
    <3> QED
      BY <2>3, <3>1, <3>2, <3>3
  <2> QED
    BY <2>5, <2>6
<1> QED
  BY <1>1, <1>8, <1>9

\* The network answers, refuses and closes; P2PCServer's threads take notes.
LEMMA NetworkShape == ASSUME IInv, Network PROVE Shape'
<1>1. /\ pc' = pc /\ activeChannels_' = activeChannels_ /\ pollfds_' = pollfds_
      /\ functors' = functors /\ cur' = cur /\ closing' = closing
      /\ client_' = client_ /\ connector' = connector /\ channel_' = channel_
      /\ tcp' = tcp /\ connection_' = connection_ /\ state_' = state_
  BY DEF Network, ConnectEnds, Answers, PeerCloses, PeerAsks, loopVars, objVars
<1>2. \/ request' = request /\ inbox' = inbox
      \/ \E k \in Clients : /\ request[k] # "none"
                            /\ request' = [request EXCEPT ![k] = "none"]
                            /\ \E answer \in Answer : inbox' = [inbox EXCEPT ![k] = answer]
  BY DEF Network, ConnectEnds, Answers, PeerCloses, PeerAsks, netVars
<1>3. /\ (Up' <=> Up) /\ (Failed' <=> Failed) /\ (Connecting' <=> Connecting) /\ Old' = Old
      /\ (Leaving' <=> Leaving)
  BY <1>1 DEF Up, Failed, Connecting, Leaving, Old
<1>4. (DestroyQueued' <=> DestroyQueued) /\ (ResetQueued' <=> ResetQueued)
  BY <1>1, <1>3 DEF DestroyQueued, ResetQueued
<1>5. OldPolled' <=> OldPolled
  BY <1>1, <1>3, <1>4 DEF OldPolled
<1>6. PollInv' /\ FunctorInv'
  BY <1>1, <1>3, <1>4, <1>5 DEF IInv, PollInv, FunctorInv
<1>7. ActiveInv'
  BY <1>1, <1>3 DEF IInv, ActiveInv
<1>8. /\ client_ \in Clients /\ (client_ > 1 => Old \in Clients)
      /\ request \in [Clients -> {"none", "a", "c"}]
      /\ inbox \in [Clients -> Answer \cup {NoAnswer}]
  BY Numbers DEF IInv, Types, NetTypes
<1>9. \A k \in Clients : \/ request'[k] = request[k] /\ inbox'[k] = inbox[k]
                         \/ request[k] # "none" /\ request'[k] = "none"
  BY <1>2, <1>8
<1>10. CurrentInv'
  <2>1. ~Up => request'[client_] = "none" /\ inbox'[client_] = NoAnswer
    BY <1>8, <1>9 DEF IInv, CurrentInv
  <2>2. inbox'[client_] # NoAnswer => request'[client_] = "none"
    BY <1>8, <1>9 DEF IInv, CurrentInv
  <2>3. Leaving => request'[Old] = "none" /\ inbox'[Old] = NoAnswer
    BY <1>8, <1>9 DEF IInv, CurrentInv, Leaving
  <2> QED
    BY <1>1, <1>3, <2>1, <2>2, <2>3 DEF IInv, CurrentInv
<1>11. FutureInv'
  BY <1>1, <1>9 DEF IInv, FutureInv
<1>12. PcInv'
  BY <1>1, <1>3, <1>8, <1>9 DEF IInv, PcInv
<1> QED
  BY <1>6, <1>7, <1>10, <1>11, <1>12 DEF Shape
-----------------------------------------------------------------------------
(* Types. *)

Notes == [Peers -> Level \cup {Unknown, AssumedFile}]

\* Of the neighbours noted above a level one has the least address.
LEMMA LeastAddress ==
    ASSUME NEW S, S \subseteq Nat, S # {}
    PROVE  \E a \in S : \A b \in S : a <= b
<1>1. PICK a \in S : \A b \in S : ~(<<b, a>> \in OpToRel(<, Nat))
  <2> DEFINE R == OpToRel(<, Nat)
  <2>1. IsWellFoundedOn(R, Nat)
    BY NatLessThanWellFounded
  <2> HIDE DEF R
  <2>2. \E a \in S : \A b \in S : ~(<<b, a>> \in R)
    BY <2>1, WFMin, Zenon
  <2> QED
    BY <2>2 DEF R
<1>2. \A b \in S : ~(b < a)
  BY <1>1 DEF OpToRel
<1> QED
  BY <1>2

\* findNeiIP always finds an address: the server's when no neighbour is better.
LEMMA FindsAddress ==
    ASSUME NEW nei, NEW level
    PROVE  findNeiIP(nei, level) \in Addresses
<1> DEFINE better == {a \in Peers : nei[a] > level}
<1>1. CASE better = {}
  BY <1>1 DEF findNeiIP, Addresses
<1>2. CASE better # {}
  <2>1. better \subseteq Nat
    BY NeighbourAssumption DEF Addresses
  <2>2. PICK a \in better : \A b \in better : a <= b
    BY <1>2, <2>1, LeastAddress
  <2>3. findNeiIP(nei, level) \in better
    BY <1>2, <2>2 DEF findNeiIP
  <2> QED
    BY <2>3 DEF Addresses
<1> QED
  BY <1>1, <1>2

\* What is noted of the neighbours stays a level, or the assumed one.
LEMMA NotesKept ==
    ASSUME NEW nei \in Notes, NEW ip, NEW file \in Level, NEW list
    PROVE  /\ insertNeiIP(nei, ip, file) \in Notes
           /\ insertList(nei, list) \in Notes
           /\ removeNeiIP(nei, ip) \in Notes
<1>1. insertNeiIP(nei, ip, file) \in Notes
  BY DEF insertNeiIP, Notes
<1>2. insertList(nei, list) \in Notes
  BY DEF insertList, Notes
<1>3. removeNeiIP(nei, ip) \in Notes
  BY DEF removeNeiIP, Notes
<1> QED
  BY <1>1, <1>2, <1>3

\* A level is gained only from a source above it, so that none is past MaxFile.
LEMMA LevelGained ==
    ASSUME NEW file \in Level, NEW level \in Level
    PROVE  /\ processUpdateFile(level, file) \in {0, 1}
           /\ file + processUpdateFile(level, file) \in Level
BY ClientAssumption DEF processUpdateFile, Level

\* An answer is one of the two kinds of message.
LEMMA AnswerParts ==
    ASSUME NEW answer \in Answer \cup {NoAnswer}, answer # NoAnswer, answer.type # "b"
    PROVE  answer.level \in Level
BY DEF Answer, NoAnswer

\* The loop's own steps and the functors.
LEMMA LoopTypes ==
    ASSUME Types, Poll \/ EventsDone \/ FunctorsDone \/ RunFunctor
    PROVE  Types'
<1>1. FileTypes' /\ NetTypes'
  <2>1. UNCHANGED <<fileVars, netVars>>
    BY DEF Poll, EventsDone, FunctorsDone, RunFunctor
  <2> QED
    BY <2>1 DEF Types, FileTypes, NetTypes, fileVars, netVars
<1>2. ThreadTypes'
  <2>1. CASE Poll \/ EventsDone \/ FunctorsDone
    BY <2>1 DEF Poll, EventsDone, FunctorsDone, objVars, Types, ThreadTypes
  <2>2. CASE RunFunctor
    BY <2>2 DEF RunFunctor, Types, ThreadTypes
  <2> QED
    BY <2>1, <2>2
<1> QED
  BY <1>1, <1>2 DEF Types

\* The Connector's handlers.
LEMMA ConnectorTypes ==
    ASSUME Types, NEW k \in Clients, ConnectFailed(k) \/ ConnectionUp(k)
    PROVE  Types'
<1>1. CASE ConnectFailed(k)
  <2>1. ThreadTypes'
    BY <1>1 DEF ConnectFailed, Types, ThreadTypes
  <2>2. FileTypes' /\ NetTypes'
    BY <1>1 DEF ConnectFailed, Types, FileTypes, NetTypes, fileVars, netVars
  <2> QED
    BY <2>1, <2>2 DEF Types
<1>2. CASE ConnectionUp(k)
  <2>1. ThreadTypes'
    BY <1>2 DEF ConnectionUp, Types, ThreadTypes
  <2>2. FileTypes'
    BY <1>2 DEF ConnectionUp, Types, FileTypes
  <2>3. NetTypes'
    BY <1>2 DEF ConnectionUp, Types, NetTypes
  <2> QED
    BY <2>1, <2>2, <2>3 DEF Types
<1> QED
  BY <1>1, <1>2

\* onStringMessage, up to the sleep.
LEMMA MessageReadTypes == ASSUME Types, NEW k \in Clients, MessageRead(k) PROVE Types'
<1>1. ThreadTypes'
  BY DEF MessageRead, Types, ThreadTypes, objVars
<1>2. NetTypes'
  BY DEF MessageRead, Types, NetTypes
<1>3. /\ inbox[k] \in Answer \cup {NoAnswer} /\ inbox[k] # NoAnswer
      /\ neiIP \in Notes /\ updateFile \in Level
  BY DEF MessageRead, Types, NetTypes, FileTypes, Notes
<1>4. neiIP' \in Notes /\ res' \in {0, 1} /\ updateFile' \in Level
  <2>1. CASE inbox[k].type = "b"
    <3>1. neiIP' = insertList(neiIP, inbox[k].list) /\ res' = 0 /\ updateFile' = updateFile
      BY <2>1 DEF MessageRead
    <3>2. 1 \in Level
      BY ClientAssumption DEF Level
    <3> QED
      BY <1>3, <3>1, <3>2, NotesKept
  <2>2. CASE inbox[k].type # "b"
    <3>1. /\ neiIP' = insertNeiIP(neiIP, dest[k], inbox[k].level)
          /\ res' = processUpdateFile(inbox[k].level, updateFile)
          /\ updateFile' = updateFile + res'
      BY <2>2 DEF MessageRead
    <3>2. inbox[k].level \in Level
      BY <1>3, <2>2, AnswerParts
    <3> QED
      BY <1>3, <3>1, <3>2, NotesKept, LevelGained
  <2> QED
    BY <2>1, <2>2
<1>5. FileTypes'
  BY <1>4 DEF MessageRead, Types, FileTypes, Notes
<1> QED
  BY <1>1, <1>2, <1>5 DEF Types

\* onStringMessage, after the sleep.
LEMMA AfterSleepTypes ==
    ASSUME Types, UpdateDone \/ AskAgain \/ LeaveConnection
    PROVE  Types'
<1>1. CASE UpdateDone
  BY <1>1 DEF UpdateDone, Types, ThreadTypes, FileTypes, NetTypes, objVars, fileVars, netVars
<1>2. CASE AskAgain
  <2>1. ThreadTypes' /\ FileTypes'
    BY <1>2 DEF AskAgain, Types, ThreadTypes, FileTypes, objVars, fileVars
  <2>2. connection_ \in Clients \cup {0} /\ request \in [Clients -> {"none", "a", "c"}]
    BY DEF Types, ThreadTypes, NetTypes
  <2>3. request' \in [Clients -> {"none", "a", "c"}]
    BY <1>2, <2>2 DEF AskAgain
  <2>4. NetTypes'
    BY <1>2, <2>3 DEF AskAgain, Types, NetTypes
  <2> QED
    BY <2>1, <2>4 DEF Types
<1>3. CASE LeaveConnection
  <2>1. ThreadTypes' /\ NetTypes'
    BY <1>3 DEF LeaveConnection, Types, ThreadTypes, NetTypes, objVars, netVars
  <2>2. IP' \in Addresses
    BY <1>3, FindsAddress DEF LeaveConnection
  <2>3. FileTypes'
    BY <1>3, <2>2 DEF LeaveConnection, Types, FileTypes
  <2> QED
    BY <2>1, <2>3 DEF Types
<1> QED
  BY <1>1, <1>2, <1>3

\* handleClose.
LEMMA CloseTypes ==
    ASSUME Types, CloseCallback \/ \E k \in Clients : ConnectionDown(k)
    PROVE  Types'
<1>1. CASE CloseCallback
  BY <1>1 DEF CloseCallback, Types, ThreadTypes, FileTypes, NetTypes, objVars, fileVars, netVars
<1>2. ASSUME NEW k \in Clients, ConnectionDown(k) PROVE Types'
  <2>1. ThreadTypes'
    BY <1>2 DEF ConnectionDown, Types, ThreadTypes
  <2>2. NetTypes'
    BY <1>2 DEF ConnectionDown, Types, NetTypes, netVars
  <2>3. neiIP \in Notes /\ 1 \in Level
    BY ClientAssumption DEF Types, FileTypes, Notes, Level
  <2>4. \/ neiIP' = removeNeiIP(neiIP, IP) /\ IP' = findNeiIP(neiIP', updateFile)
        \/ neiIP' = neiIP /\ IP' = IP
    BY <1>2 DEF ConnectionDown
  <2>5. neiIP' \in Notes
    BY <2>3, <2>4, NotesKept
  <2>6. IP' \in Addresses \cup {NoAddress}
    BY <2>4, FindsAddress DEF Types, FileTypes
  <2>7. isFirst' = isFirst /\ updateFile' = updateFile /\ res' = res
    BY <1>2 DEF ConnectionDown
  <2>8. FileTypes'
    BY <2>5, <2>6, <2>7 DEF Types, FileTypes, Notes
  <2> QED
    BY <2>1, <2>2, <2>8 DEF Types
<1> QED
  BY <1>1, <1>2

\* changeServer.
LEMMA ChangeTypes ==
    ASSUME IInv, ChangeFails \/ \E refused \in BOOLEAN : ChangeSucceeds(refused)
    PROVE  Types'
<1>1. tcp' \in [Clients -> {"none", "connected", "disconnecting", "disconnected"}]
  <2>1. pc = "change" /\ tcp' = Disconnected
    BY DEF ChangeFails, ChangeSucceeds
  <2> QED
    BY <2>1, DisconnectedEffect
<1>2. Types
  BY DEF IInv
<1>3. CASE ChangeFails
  <2>1. ThreadTypes'
    BY <1>1, <1>2, <1>3 DEF ChangeFails, Types, ThreadTypes, loopVars
  <2>2. NetTypes'
    BY <1>2, <1>3 DEF ChangeFails, Types, NetTypes, netVars
  <2>3. neiIP \in Notes /\ 1 \in Level
    BY <1>2, ClientAssumption DEF Types, FileTypes, Notes, Level
  <2>4. neiIP' = removeNeiIP(neiIP, IP) /\ IP' = findNeiIP(neiIP', updateFile)
    BY <1>3 DEF ChangeFails
  <2>5. neiIP' \in Notes
    BY <2>3, <2>4, NotesKept
  <2>6. IP' \in Addresses
    BY <2>4, FindsAddress
  <2>7. FileTypes'
    BY <1>2, <1>3, <2>5, <2>6 DEF ChangeFails, Types, FileTypes, Notes
  <2> QED
    BY <2>1, <2>2, <2>7 DEF Types
<1>4. ASSUME NEW refused \in BOOLEAN, ChangeSucceeds(refused) PROVE Types'
  <2>1. client_' = client_ + 1 /\ client_ < MaxClients /\ state_' = "kConnecting"
    BY <1>4 DEF ChangeSucceeds
  <2>2. client_' \in Clients
    <3>1. client_ \in Nat /\ MaxClients \in Nat
      BY <1>2, Numbers
    <3> QED
      BY <2>1, <3>1 DEF Clients
  <2>3. \/ UNCHANGED <<connector, channel_>>
        \/ /\ connector' = [connector EXCEPT ![client_'] = "connecting"]
           /\ channel_' = [channel_ EXCEPT ![client_'] = TRUE]
    BY <1>4 DEF ChangeSucceeds, StartConnector
  <2>4. /\ connector' \in [Clients -> {"disconnected", "connecting", "connected"}]
        /\ channel_' \in [Clients -> BOOLEAN]
    BY <1>2, <2>2, <2>3 DEF Types, ThreadTypes
  <2>5. /\ pc' \in {"closed", "events"} /\ cur' \in {cur, 0} /\ closing' = closing
        /\ connection_' = connection_
    BY <1>4 DEF ChangeSucceeds
  <2>6. ThreadTypes'
    BY <1>1, <1>2, <2>1, <2>2, <2>4, <2>5 DEF Types, ThreadTypes
  <2>7. FileTypes'
    BY <1>2, <1>4 DEF ChangeSucceeds, Types, FileTypes, fileVars
  <2>8. dest' = [dest EXCEPT ![client_'] = IP] /\ UNCHANGED <<attempt, request, inbox, eof>>
    BY <1>4 DEF ChangeSucceeds
  <2>9. NetTypes'
    BY <1>2, <2>2, <2>8 DEF Types, FileTypes, NetTypes
  <2> QED
    BY <2>6, <2>7, <2>9 DEF Types
<1> QED
  BY <1>3, <1>4

\* The network, the other processes and the threads of P2PCServer.
LEMMA NetworkTypes == ASSUME Types, Network PROVE Types'
<1>1. ThreadTypes'
  <2>1. UNCHANGED <<loopVars, objVars>>
    BY DEF Network, ConnectEnds, Answers, PeerCloses, PeerAsks
  <2> QED
    BY <2>1 DEF Types, ThreadTypes, loopVars, objVars
<1>2. ASSUME NEW k \in Clients, NEW o \in {"connected", "refused"}, ConnectEnds(k, o)
      PROVE  FileTypes' /\ NetTypes'
  BY <1>2 DEF ConnectEnds, Types, FileTypes, NetTypes, fileVars
<1>3. ASSUME NEW k \in Clients, NEW answer \in Answer, Answers(k, answer)
      PROVE  FileTypes' /\ NetTypes'
  <2>1. FileTypes'
    BY <1>3 DEF Answers, Types, FileTypes, fileVars
  <2>2. NetTypes'
    BY <1>3 DEF Answers, Types, NetTypes
  <2> QED
    BY <2>1, <2>2
<1>4. ASSUME NEW k \in Clients, PeerCloses(k) PROVE FileTypes' /\ NetTypes'
  BY <1>4 DEF PeerCloses, Types, FileTypes, NetTypes, fileVars
<1>5. ASSUME NEW ip \in Peers, NEW file \in Level, PeerAsks(ip, file)
      PROVE  FileTypes' /\ NetTypes'
  <2>1. neiIP' \in Notes
    BY <1>5, NotesKept DEF PeerAsks, Types, FileTypes, Notes
  <2>2. FileTypes'
    BY <1>5, <2>1 DEF PeerAsks, Types, FileTypes, Notes
  <2>3. NetTypes'
    BY <1>5 DEF PeerAsks, Types, NetTypes, netVars
  <2> QED
    BY <2>2, <2>3
<1> QED
  BY <1>1, <1>2, <1>3, <1>4, <1>5 DEF Network, Types
-----------------------------------------------------------------------------
(* Invariance. *)

\* The process starts with the first TcpClient connecting to the server.
LEMMA InitIInv == Init => IInv
<1> SUFFICES ASSUME Init PROVE IInv
  OBVIOUS
<1>1. 1 \in Clients /\ 1 \in Level /\ MaxClients \in Nat
  BY ClientAssumption DEF Clients, Level
<1>2. Types
  <2>1. ThreadTypes
    BY <1>1 DEF Init, ThreadTypes
  <2>2. FileTypes
    BY <1>1 DEF Init, FileTypes, NoNeighbours
  <2>3. NetTypes
    <3>1. /\ dest \in [Clients -> Addresses \cup {NoAddress}]
          /\ attempt \in [Clients -> {"pending", "connected", "refused"}]
      BY DEF Init, Addresses
    <3>2. request \in [Clients -> {"none", "a", "c"}] /\ eof \in [Clients -> BOOLEAN]
      BY DEF Init
    <3>3. inbox \in [Clients -> Answer \cup {NoAnswer}]
      BY DEF Init
    <3> QED
      BY <3>1, <3>2, <3>3 DEF NetTypes
  <2> QED
    BY <2>1, <2>2, <2>3 DEF Types
<1>3. /\ client_ = 1 /\ connector[1] = "connecting" /\ channel_[1] /\ tcp[1] = "none"
      /\ request[1] = "none" /\ inbox[1] = NoAnswer /\ connection_ = 0
      /\ state_ = "uninitialized" /\ pc = "poll" /\ cur = 0 /\ ~closing
      /\ activeChannels_ = <<>> /\ functors = <<>>
  BY <1>1 DEF Init
<1>4. pollfds_ = One(ConnectorChannel(1))
  BY DEF Init, One
<1>5. Connecting /\ ~Up /\ ~Failed /\ ~Leaving
  BY <1>3 DEF Connecting, Up, Failed, Leaving
<1>6. ~DestroyQueued /\ ~ResetQueued
  BY <1>3, ShortSeqs DEF DestroyQueued, ResetQueued
<1>7. ~OldPolled
  BY <1>3, <1>5, <1>6 DEF OldPolled
<1>8. PollInv
  BY <1>3, <1>4, <1>5, <1>7 DEF PollInv
<1>9. FunctorInv
  BY <1>3, <1>5, <1>6 DEF FunctorInv
<1>10. CurrentInv
  BY <1>3, <1>5 DEF CurrentInv
<1>11. FutureInv
  <2>1. ASSUME NEW k \in Clients, k > client_
        PROVE  /\ connector[k] = "disconnected" /\ ~channel_[k] /\ tcp[k] = "none"
               /\ request[k] = "none" /\ inbox[k] = NoAnswer
    <3>1. k # 1
      BY <1>3, <2>1, <1>1 DEF Clients
    <3>2. connector[k] = "disconnected" /\ tcp[k] = "none"
      BY <3>1 DEF Init
    <3>3. ~channel_[k]
      BY <3>1 DEF Init
    <3>4. request[k] = "none" /\ inbox[k] = NoAnswer
      BY DEF Init
    <3> QED
      BY <3>2, <3>3, <3>4
  <2> QED
    BY <2>1 DEF FutureInv
<1>12. ActiveInv
  BY <1>3 DEF ActiveInv
<1>13. PcInv
  BY <1>3, <1>5 DEF PcInv
<1> QED
  BY <1>2, <1>8, <1>9, <1>10, <1>11, <1>12, <1>13 DEF IInv

\* Every step keeps the types and the shape.
LEMMA NextIInv == IInv /\ [Next]_vars => IInv'
<1> SUFFICES ASSUME IInv, [Next]_vars PROVE Types' /\ Shape'
  BY DEF IInv, Shape
<1>0. Types
  BY DEF IInv
<1>1. CASE Network
  BY <1>0, <1>1, NetworkTypes, NetworkShape
<1>2. CASE Poll
  BY <1>0, <1>2, LoopTypes, PollShape
<1>3. CASE EventsDone \/ FunctorsDone
  BY <1>0, <1>3, LoopTypes, ControlShape
<1>4. CASE RunFunctor
  BY <1>0, <1>4, LoopTypes, RunFunctorShape
<1>5. ASSUME NEW k \in Clients, ConnectFailed(k) PROVE Types' /\ Shape'
  BY <1>0, <1>5, ConnectorTypes, ConnectFailedShape
<1>6. ASSUME NEW k \in Clients, ConnectionUp(k) PROVE Types' /\ Shape'
  BY <1>0, <1>6, ConnectorTypes, ConnectionUpShape
<1>7. ASSUME NEW k \in Clients, MessageRead(k) PROVE Types' /\ Shape'
  BY <1>0, <1>7, MessageReadTypes, MessageReadShape
<1>8. ASSUME NEW k \in Clients, ConnectionDown(k) PROVE Types' /\ Shape'
  BY <1>0, <1>8, CloseTypes, ConnectionDownShape
<1>9. CASE UpdateDone \/ AskAgain \/ LeaveConnection
  BY <1>0, <1>9, AfterSleepTypes, ControlShape
<1>10. CASE CloseCallback
  BY <1>0, <1>10, CloseTypes, CloseCallbackShape
<1>11. CASE ChangeFails
  BY <1>11, ChangeTypes, ChangeFailsShape
<1>12. ASSUME NEW refused \in BOOLEAN, ChangeSucceeds(refused) PROVE Types' /\ Shape'
  BY <1>12, ChangeTypes, ChangeSucceedsShape
<1>13. CASE UNCHANGED vars
  <2>1. /\ UNCHANGED <<pc, activeChannels_, pollfds_, functors, cur, closing>>
        /\ UNCHANGED <<client_, connector, channel_, tcp, connection_, state_>>
        /\ UNCHANGED <<isFirst, IP, updateFile, neiIP, res>>
        /\ UNCHANGED <<dest, attempt, request, inbox, eof>>
    BY <1>13 DEF vars, loopVars, objVars, fileVars, netVars
  <2>2. Types'
    BY <1>0, <2>1 DEF Types, ThreadTypes, FileTypes, NetTypes
  <2>3. /\ (Connecting' <=> Connecting) /\ (Failed' <=> Failed) /\ (Up' <=> Up)
        /\ Old' = Old /\ (Leaving' <=> Leaving)
    BY <2>1 DEF Connecting, Failed, Up, Old, Leaving
  <2>4. (DestroyQueued' <=> DestroyQueued) /\ (ResetQueued' <=> ResetQueued)
    BY <2>1, <2>3 DEF DestroyQueued, ResetQueued
  <2>5. OldPolled' <=> OldPolled
    BY <2>1, <2>3, <2>4 DEF OldPolled
  <2>6. PollInv' /\ FunctorInv'
    BY <2>1, <2>3, <2>4, <2>5 DEF IInv, PollInv, FunctorInv
  <2>7. CurrentInv' /\ FutureInv'
    BY <2>1, <2>3 DEF IInv, CurrentInv, FutureInv
  <2>8. ActiveInv' /\ PcInv'
    BY <2>1, <2>3 DEF IInv, ActiveInv, PcInv
  <2> QED
    BY <2>2, <2>6, <2>7, <2>8 DEF Shape
<1> QED
  BY <1>1, <1>2, <1>3, <1>4, <1>5, <1>6, <1>7, <1>8, <1>9, <1>10, <1>11, <1>12, <1>13
     DEF Next, MainLoop

\* Which TcpClients, connections, channels and functors there are at each
\* point of the main thread, whatever the network and the other processes do.
THEOREM Invariance == Spec => []IInv
BY InitIInv, NextIInv, PTL DEF Spec
-----------------------------------------------------------------------------
(* What the invariant says of the code. *)

\* The entries of the poller, the reported channels and the functors are known.
LEMMA Elements ==
    ASSUME IInv
    PROVE  /\ ToSet(pollfds_) \cup ToSet(activeChannels_)
                 \subseteq {ConnectorChannel(client_), ConnChannel(client_), ConnChannel(Old)}
           /\ ConnChannel(Old) \in ToSet(pollfds_) \cup ToSet(activeChannels_) => client_ > 1
           /\ ToSet(functors) \subseteq {ResetFn(client_), DestroyFn(Old)}
           /\ DestroyFn(Old) \in ToSet(functors) => DestroyQueued
<1>1. /\ ToSet(<<>>) = {}
      /\ \A a : ToSet(One(a)) = {a}
      /\ \A a, b : ToSet(Two(a, b)) = {a, b}
  BY ShortElements
<1>2. /\ ConnChannel(Old) # ConnectorChannel(client_) /\ ConnChannel(Old) # ConnChannel(client_)
      /\ ResetFn(client_) # DestroyFn(Old)
  BY ChannelsDiffer, FunctorsDiffer, Numbers DEF IInv
<1>3. OldPolled => client_ > 1
  BY DEF IInv, OldPolled, Leaving, PcInv, FunctorInv
<1>4. Connecting \/ Up \/ Failed
  BY Numbers DEF IInv, Types, ThreadTypes, Connecting, Up, Failed
<1>5. /\ ToSet(pollfds_)
            \subseteq {ConnectorChannel(client_), ConnChannel(client_), ConnChannel(Old)}
      /\ ConnChannel(Old) \in ToSet(pollfds_) => client_ > 1
  <2>1. CASE OldPolled
    BY <1>1, <1>3, <1>4, <2>1 DEF IInv, PollInv
  <2>2. CASE ~OldPolled
    BY <1>1, <1>2, <1>4, <2>2 DEF IInv, PollInv
  <2> QED
    BY <2>1, <2>2
<1>6. /\ ToSet(activeChannels_)
            \subseteq {ConnectorChannel(client_), ConnChannel(client_), ConnChannel(Old)}
      /\ ConnChannel(Old) \in ToSet(activeChannels_) => client_ > 1
  <2>1. Leaving => client_ > 1
    BY DEF Leaving
  <2> QED
    BY <1>1, <1>2, <2>1 DEF IInv, ActiveInv
<1>7. /\ ToSet(functors) \subseteq {ResetFn(client_), DestroyFn(Old)}
      /\ DestroyFn(Old) \in ToSet(functors) => DestroyQueued
  BY <1>1, <1>2 DEF IInv, FunctorInv, DestroyQueued, ResetQueued
<1> QED
  BY <1>5, <1>6, <1>7

\* The variables keep their types: in particular updateFile never passes
\* MaxFile, changeServer always has an address to go to, and only channels and
\* functors of TcpClients that were made are polled, reported and queued.
THEOREM TypeCorrect == Spec => []TypeOK
<1>1. IInv => TypeOK
  <2> SUFFICES ASSUME IInv PROVE TypeOK
    OBVIOUS
  <2>1. client_ \in Clients /\ (client_ > 1 => Old \in Clients)
    BY Numbers DEF IInv
  <2>2. \A ch \in ToSet(activeChannels_) \cup ToSet(pollfds_) :
           ch[1] \in {"connector", "conn"} /\ ch[2] \in Clients
    BY <2>1, Elements, ChannelsDiffer
  <2>3. DestroyQueued => client_ > 1
    BY DEF IInv, FunctorInv
  <2>4. \A f \in ToSet(functors) :
           f[1] \in {"resetChannel", "connectDestroyed"} /\ f[2] \in Clients
    BY <2>1, <2>3, Elements, FunctorsDiffer
  <2> QED
    BY <2>2, <2>4 DEF IInv, Types, ThreadTypes, FileTypes, NetTypes, TypeOK
<1> QED
  BY <1>1, Invariance, PTL

\* changeServer, ~TcpClient and ~Connector: the TcpClient that is replaced has
\* made its connection and its connector has reset its channel, and when
\* closeCallback_ runs the TcpClient that made the connection is gone.
THEOREM ReplacedConnected == Spec => []ReplacedWhileConnected
<1>1. IInv => ReplacedWhileConnected
  <2> SUFFICES ASSUME IInv PROVE ReplacedWhileConnected
    OBVIOUS
  <2>1. ASSUME pc = "change"
        PROVE  connector[client_] = "connected" /\ ~channel_[client_] /\ tcp[client_] # "none"
    <3>1. Up /\ ~channel_[client_]
      BY <2>1, AtChange
    <3>2. tcp[client_] # "none"
      BY <2>1 DEF IInv, PcInv
    <3> QED
      BY <3>1, <3>2 DEF Up
  <2>2. ASSUME pc = "closed" PROVE cur < client_
    <3>1. cur = client_ - 1 /\ client_ \in Nat
      BY <2>2, Numbers DEF IInv, PcInv, Old
    <3> QED
      BY <3>1
  <2> QED
    BY <2>1, <2>2 DEF ReplacedWhileConnected
<1> QED
  BY <1>1, Invariance, PTL

\* onStringMessage: connection_, on which the next request is written, is the
\* connection the message came on, and it is open.
THEOREM SameConnection == Spec => []AnswersOnSameConn
<1>1. IInv => AnswersOnSameConn
  BY DEF IInv, PcInv, CurrentInv, AnswersOnSameConn
<1> QED
  BY <1>1, Invariance, PTL

\* connectDestroyed is queued at most once, for a connection that is closed and
\* still known to the poller.
THEOREM DestroyedOnlyOnce == Spec => []DestroyedOnce
<1>1. IInv => DestroyedOnce
  <2> SUFFICES ASSUME IInv, NEW i \in 1..Len(functors), functors[i][1] = "connectDestroyed"
               PROVE  /\ tcp[functors[i][2]] = "disconnected"
                      /\ ConnChannel(functors[i][2]) \in ToSet(pollfds_)
                      /\ \A j \in 1..Len(functors) : functors[j] = functors[i] => i = j
    BY DEF DestroyedOnce
  <2>1. functors[i] \in ToSet(functors)
    BY DEF ToSet
  <2>2. functors[i] = DestroyFn(Old) /\ functors[i][2] = Old
    BY <2>1, Elements, FunctorsDiffer
  <2>3. DestroyQueued
    BY <2>1, <2>2, Elements
  <2>4. tcp[Old] = "disconnected"
    BY <2>3 DEF IInv, FunctorInv
  <2>5. ConnChannel(Old) \in ToSet(pollfds_)
    <3>1. OldPolled
      BY <2>3 DEF OldPolled
    <3>2. Connecting \/ Up \/ Failed
      BY Numbers DEF IInv, Types, ThreadTypes, Connecting, Up, Failed
    <3>3. \A a, b : a \in ToSet(One(a)) /\ a \in ToSet(Two(a, b))
      BY ShortElements
    <3> QED
      BY <3>1, <3>2, <3>3 DEF IInv, PollInv
  <2>6. \A j \in 1..Len(functors) : functors[j] = functors[i] => i = j
    <3>1. CASE functors = One(DestroyFn(Old))
      <4>1. Len(functors) = 1
        BY <3>1, ShortElements
      <4> QED
        BY <4>1
    <3>2. CASE functors = Two(DestroyFn(Old), ResetFn(client_))
      <4>1. Len(functors) = 2 /\ functors[2] = ResetFn(client_)
        BY <3>2, ShortElements
      <4>2. ResetFn(client_) # DestroyFn(Old)
        BY FunctorsDiffer
      <4> QED
        BY <2>2, <4>1, <4>2
    <3> QED
      BY <2>3, <3>1, <3>2 DEF DestroyQueued
  <2> QED
    BY <2>2, <2>4, <2>5, <2>6
<1> QED
  BY <1>1, Invariance, PTL

\* Channel::handleEvent: a channel poll() has reported is not destroyed before
\* its turn.
THEOREM ReportedExist == Spec => []ReportedIsAlive
<1>1. IInv => ReportedIsAlive
  <2> SUFFICES ASSUME IInv, NEW i \in 1..Len(activeChannels_)
               PROVE  Alive(activeChannels_[i])
    BY DEF ReportedIsAlive
  <2>1. activeChannels_[i] \in ToSet(activeChannels_)
    BY DEF ToSet
  <2>2. Alive(ConnectorChannel(client_))
    BY ChannelsDiffer DEF Alive
  <2>3. Alive(ConnChannel(client_))
    BY ChannelsDiffer DEF Alive, Held
  <2>4. ConnChannel(Old) \in ToSet(activeChannels_) => connection_ = Old
    <3>1. /\ ToSet(<<>>) = {}
          /\ ToSet(One(ConnectorChannel(client_))) = {ConnectorChannel(client_)}
          /\ ToSet(One(ConnChannel(client_))) = {ConnChannel(client_)}
      BY ShortElements
    <3>2. ConnChannel(Old) # ConnectorChannel(client_) /\ ConnChannel(Old) # ConnChannel(client_)
      BY ChannelsDiffer, Numbers DEF IInv
    <3>3. ConnChannel(Old) \in ToSet(activeChannels_) => ~Up /\ Leaving
      BY <3>1, <3>2 DEF IInv, ActiveInv, Connecting, Up
    <3> QED
      BY <3>3 DEF IInv, CurrentInv
  <2>5. connection_ = Old => Alive(ConnChannel(Old))
    BY ChannelsDiffer DEF Alive, Held
  <2> QED
    BY <2>1, <2>2, <2>3, <2>4, <2>5, Elements
<1> QED
  BY <1>1, Invariance, PTL

\* fillActiveChannels: poll() finds an entry whose channel was destroyed exactly
\* when the new connection came up before the one it replaces was closed:
\* onConnection has then overwritten connection_, the last pointer to the old
\* TcpConnection, whose descriptor is still polled.
THEOREM DanglesWhenOvertaken == Spec => [](pc = "poll" => (PolledIsAlive <=> ~(Up /\ Leaving)))
<1>1. ASSUME IInv, pc = "poll" PROVE PolledIsAlive <=> ~(Up /\ Leaving)
  <2>1. functors = <<>> /\ cur = 0
    BY <1>1 DEF IInv, PcInv
  <2>2. ~DestroyQueued
    BY <2>1, ShortSeqs DEF DestroyQueued
  <2>3. OldPolled <=> Leaving
    BY <1>1, <2>2 DEF OldPolled
  <2>4. client_ \in Nat /\ Old # client_ /\ (client_ > 1 => Old # 0)
    BY <1>1, Numbers DEF IInv
  <2>5. ASSUME Up, Leaving PROVE ~PolledIsAlive
    <3>1. pollfds_ = Two(ConnChannel(Old), ConnChannel(client_))
      BY <1>1, <2>3, <2>5 DEF IInv, PollInv
    <3>2. 1 \in 1..Len(pollfds_) /\ pollfds_[1] = ConnChannel(Old)
      BY <3>1, ShortElements
    <3>3. connection_ = client_ /\ client_ > 1
      BY <1>1, <2>5 DEF IInv, CurrentInv, Leaving
    <3>4. Len(functors) = 0
      BY <2>1
    <3>5. ~Held(Old)
      BY <2>1, <2>4, <3>3, <3>4 DEF Held
    <3>6. ~Alive(ConnChannel(Old))
      BY <3>5, ChannelsDiffer DEF Alive
    <3> QED
      BY <3>2, <3>6 DEF PolledIsAlive
  <2>6. ASSUME ~(Up /\ Leaving) PROVE PolledIsAlive
    <3> SUFFICES ASSUME NEW i \in 1..Len(pollfds_) PROVE Alive(pollfds_[i])
      BY DEF PolledIsAlive
    <3>1. pollfds_[i] \in ToSet(pollfds_)
      BY DEF ToSet
    <3>2. Alive(ConnectorChannel(client_)) /\ Alive(ConnChannel(client_))
      BY ChannelsDiffer DEF Alive, Held
    <3>3. CASE Leaving
      <4>1. connection_ = Old
        BY <1>1, <2>6, <3>3 DEF IInv, CurrentInv
      <4>2. Alive(ConnChannel(Old))
        BY <4>1, ChannelsDiffer DEF Alive, Held
      <4> QED
        BY <1>1, <3>1, <3>2, <4>2, Elements
    <3>4. CASE ~Leaving
      <4>1. /\ ToSet(<<>>) = {}
            /\ ToSet(One(ConnectorChannel(client_))) = {ConnectorChannel(client_)}
            /\ ToSet(One(ConnChannel(client_))) = {ConnChannel(client_)}
        BY ShortElements
      <4>2. Connecting \/ Up \/ Failed
        BY <1>1, Numbers DEF IInv, Types, ThreadTypes, Connecting, Up, Failed
      <4> QED
        BY <1>1, <2>3, <3>1, <3>2, <3>4, <4>1, <4>2 DEF IInv, PollInv
    <3> QED
      BY <3>3, <3>4
  <2> QED
    BY <2>5, <2>6
<1>2. IInv => (pc = "poll" => (PolledIsAlive <=> ~(Up /\ Leaving)))
  BY <1>1
<1> QED
  BY <1>2, Invariance, PTL
=============================================================================
