----------------------------- MODULE P2PClient -----------------------------
(***************************************************************************)
(* The downloading side of one client process: P2PClient, the succession   *)
(* of TcpClients it replaces each other, and of each TcpClient its         *)
(* Connector, its TcpConnection and their channels in the poller, all run  *)
(* by the process's main EventLoop.  TcpClient number k makes connection   *)
(* number k.  The network and the other processes answer, fail and close   *)
(* when they please; the threads of P2PCServer write neiIP concurrently.   *)
(*                                                                         *)
(* Three branches of the code are left out because the invariant           *)
(* ReplacedWhileConnected shows that they are never taken:                 *)
(* Connector::stopInLoop with a connecting connector, ~TcpClient without a *)
(* connection and TcpClient::removeConnection.  A timer armed by           *)
(* Connector::retry never fires (see TimerQueue), so retry only gives up.  *)
(* A behaviour ends at the first use of freed memory (pc = "undefined").   *)
(***************************************************************************)
EXTENDS Neighbours, Sequences, SequencesExt

CONSTANTS MaxFile,      \* the level at which the update is complete (100)
          MaxClients    \* bound on the TcpClients made in one behaviour

ASSUME ClientAssumption == /\ MaxFile \in Nat \ {0, 1} /\ AssumedFile > MaxFile
                           /\ MaxClients \in Nat \ {0}

Clients == 1..MaxClients

VARIABLES pc,           \* where the main thread is in loop()
          activeChannels_, pollfds_, functors,
          cur,          \* the connection whose handler runs, 0 for none
          closing,      \* the handler that runs is handleClose
          client_,      \* number of the current TcpClient
          connector,    \* k -> Connector::state_
          channel_,     \* k -> Connector::channel_ is set
          tcp,          \* k -> TcpConnection::state_, "none" before it exists
          connection_,  \* P2PClient::connection_, 0 for null
          state_,       \* P2PClient::state_
          isFirst, IP,
          updateFile, neiIP,
          dest,         \* k -> address it connects to
          attempt,      \* k -> what became of the connect() of its socket
          request,      \* k -> request not answered yet
          inbox,        \* k -> answer not read yet
          eof,          \* k -> the other end has closed
          res           \* result of processMessage

loopVars == <<pc, activeChannels_, pollfds_, functors, cur, closing>>
objVars == <<client_, connector, channel_, tcp, connection_, state_>>
fileVars == <<isFirst, IP, updateFile, neiIP, res>>
netVars == <<dest, attempt, request, inbox, eof>>
vars == <<loopVars, objVars, fileVars, netVars>>

Level == 1..MaxFile
NoAnswer == [type |-> "none"]
Answer == [type : {"b"}, list : SUBSET Addresses \ {{}}] \cup [type : {"d"}, level : Level]

ConnectorChannel(k) == <<"connector", k>>
ConnChannel(k) == <<"conn", k>>

Init == /\ pc = "poll" /\ activeChannels_ = <<>> /\ functors = <<>>
        /\ pollfds_ = <<ConnectorChannel(1)>>
        /\ cur = 0 /\ closing = FALSE
        /\ client_ = 1
        /\ connector = [k \in Clients |-> IF k = 1 THEN "connecting" ELSE "disconnected"]
        /\ channel_ = [k \in Clients |-> k = 1]
        /\ tcp = [k \in Clients |-> "none"]
        /\ connection_ = 0 /\ state_ = "uninitialized"
        /\ isFirst = TRUE /\ IP = NoAddress
        /\ updateFile = 1 /\ neiIP = NoNeighbours /\ res = 0
        /\ dest = [k \in Clients |-> IF k = 1 THEN Server ELSE NoAddress]
        /\ attempt = [k \in Clients |-> "pending"]
        /\ request = [k \in Clients |-> "none"]
        /\ inbox = [k \in Clients |-> NoAnswer]
        /\ eof = [k \in Clients |-> FALSE]
-----------------------------------------------------------------------------
(* Who owns what. *)

\* The shared_ptrs to connection k: P2PClient's, the one of the TcpClient that
\* made it, a queued connectDestroyed, and the guard of a running handler.
Held(k) == \/ connection_ = k
           \/ client_ = k
           \/ \E i \in 1..Len(functors) : functors[i] = <<"connectDestroyed", k>>
           \/ cur = k

\* The channel's owner still exists.
Alive(ch) == ch[1] = "conn" => Held(ch[2])

\* PollPoller::removeChannel: the last entry takes the place of the removed one.
RemoveChannel(fds, ch) ==
    LET i == CHOOSE j \in 1..Len(fds) : fds[j] = ch
    IN  Front([fds EXCEPT ![i] = Last(fds)])
-----------------------------------------------------------------------------
(* P2PCServer. *)

\* P2PCServer::onStringMessage, on a thread of its pool: another client asks.
PeerAsks(ip, file) == /\ pc # "undefined"
                      /\ neiIP' = insertNeiIP(neiIP, ip, file)
                      /\ UNCHANGED <<loopVars, objVars, isFirst, IP, updateFile, res, netVars>>
-----------------------------------------------------------------------------
(* The network and the other processes. *)

\* The non-blocking connect succeeds or is refused.
ConnectEnds(k, outcome) ==
    /\ connector[k] = "connecting" /\ attempt[k] = "pending"
    /\ attempt' = [attempt EXCEPT ![k] = outcome]
    /\ UNCHANGED <<loopVars, objVars, fileVars, dest, request, inbox, eof>>

\* The server answers a registration, anybody answers a request for the update.
Answers(k, answer) ==
    /\ request[k] # "none" /\ ~eof[k]
    /\ answer.type = IF request[k] = "a" THEN "b" ELSE "d"
    /\ dest[k] = Server /\ answer.type = "d" => answer.level = MaxFile
    /\ request' = [request EXCEPT ![k] = "none"]
    /\ inbox' = [inbox EXCEPT ![k] = answer]
    /\ UNCHANGED <<loopVars, objVars, fileVars, dest, attempt, eof>>

\* The other end closes: it crashed, it is done, or it saw our end close.
PeerCloses(k) ==
    /\ tcp[k] \in {"connected", "disconnecting"} /\ ~eof[k]
    /\ eof' = [eof EXCEPT ![k] = TRUE]
    /\ UNCHANGED <<loopVars, objVars, fileVars, dest, attempt, request, inbox>>
-----------------------------------------------------------------------------
(* EventLoop::loop. *)

Ready(ch) == LET k == ch[2]
             IN  IF ch[1] = "connector" THEN attempt[k] # "pending"
                 ELSE tcp[k] # "disconnected" /\ (inbox[k] # NoAnswer \/ eof[k])

MutantPoll == /\ pc = "poll"
              /\ IF \A i \in 1..Len(pollfds_) : Alive(pollfds_[i])
                 THEN /\ activeChannels_' = Reverse(SelectSeq(pollfds_, Ready))
                      /\ activeChannels_' # <<>>
                      /\ pc' = "events"
                 ELSE pc' = "undefined" /\ UNCHANGED activeChannels_
              /\ UNCHANGED <<pollfds_, functors, cur, closing, objVars, fileVars,
                             netVars>>

\* fillActiveChannels: the i-th of the n channels reported is that of the i-th
\* ready entry of pollfds_.
ReportedInOrder(n, entry) ==
    /\ \A i, j \in 1..n : i < j => entry[i] < entry[j]
    /\ {entry[i] : i \in 1..n} = {j \in 1..Len(pollfds_) : Ready(pollfds_[j])}
    /\ activeChannels_' = [i \in 1..n |-> pollfds_[entry[i]]]

\* poll() and fillActiveChannels: the ready channels in the order of pollfds_.
\* An entry whose channel was destroyed is reported (its descriptor is
\* closed) and looked up.
Poll == /\ pc = "poll"
        /\ IF \A i \in 1..Len(pollfds_) : Alive(pollfds_[i])
           THEN /\ \E n \in 1..Len(pollfds_) : \E entry \in [1..n -> 1..Len(pollfds_)] :
                      ReportedInOrder(n, entry)
                /\ pc' = "events"
           ELSE pc' = "undefined" /\ UNCHANGED activeChannels_
        /\ UNCHANGED <<pollfds_, functors, cur, closing, objVars, fileVars, netVars>>

\* The next active channel is about to be handled.
Handling(ch) == /\ pc = "events" /\ cur = 0 /\ activeChannels_ # <<>>
                /\ Head(activeChannels_) = ch

Handled == activeChannels_' = Tail(activeChannels_)

EventsDone == /\ pc = "events" /\ cur = 0 /\ activeChannels_ = <<>>
              /\ pc' = "functors"
              /\ UNCHANGED <<activeChannels_, pollfds_, functors, cur, closing,
                             objVars, fileVars, netVars>>

\* doPendingFunctors: Connector::resetChannel or TcpConnection::connectDestroyed.
RunFunctor ==
    /\ pc = "functors" /\ functors # <<>>
    /\ LET k == Head(functors)[2]
       IN  \/ /\ Head(functors)[1] = "resetChannel"
              /\ channel_' = [channel_ EXCEPT ![k] = FALSE]
              /\ UNCHANGED pollfds_
           \/ /\ Head(functors)[1] = "connectDestroyed"
              /\ pollfds_' = RemoveChannel(pollfds_, ConnChannel(k))
              /\ UNCHANGED channel_
    /\ functors' = Tail(functors)
    /\ UNCHANGED <<pc, activeChannels_, cur, closing, client_, connector, tcp,
                   connection_, state_, fileVars, netVars>>

FunctorsDone == /\ pc = "functors" /\ functors = <<>>
                /\ pc' = "poll"
                /\ UNCHANGED <<activeChannels_, pollfds_, functors, cur, closing,
                               objVars, fileVars, netVars>>
-----------------------------------------------------------------------------
(* Connector. *)

\* handleWrite with an error, or handleError: removeAndResetChannel and retry.
ConnectFailed(k) ==
    /\ Handling(ConnectorChannel(k)) /\ attempt[k] = "refused"
    /\ pollfds_' = RemoveChannel(pollfds_, ConnectorChannel(k))
    /\ functors' = Append(functors, <<"resetChannel", k>>)
    /\ connector' = [connector EXCEPT ![k] = "disconnected"]
    /\ Handled
    /\ UNCHANGED <<pc, cur, closing, client_, channel_, tcp, connection_, state_,
                   fileVars, netVars>>

\* handleWrite, TcpClient::newConnection, connectEstablished and the UP half of
\* P2PClient::onConnection, with the request it writes.
ConnectionUp(k) ==
    /\ Handling(ConnectorChannel(k)) /\ attempt[k] = "connected"
    /\ functors' = Append(functors, <<"resetChannel", k>>)
    /\ connector' = [connector EXCEPT ![k] = "connected"]
    /\ pollfds_' = Append(RemoveChannel(pollfds_, ConnectorChannel(k)), ConnChannel(k))
    /\ tcp' = [tcp EXCEPT ![k] = "connected"]
    /\ state_' = "kConnected" /\ connection_' = k
    /\ request' = [request EXCEPT ![k] = IF isFirst THEN "a" ELSE "c"]
    /\ isFirst' = FALSE
    /\ Handled
    /\ UNCHANGED <<pc, cur, closing, client_, channel_, IP, updateFile, neiIP, res,
                   dest, attempt, inbox, eof>>
-----------------------------------------------------------------------------
(* TcpConnection::handleRead with a message: codec, P2PClient::onStringMessage. *)

\* processMessage, up to the sleep() that follows it.
MessageRead(k) ==
    /\ Handling(ConnChannel(k)) /\ Held(k) /\ inbox[k] # NoAnswer
    /\ IF inbox[k].type = "b"
       THEN /\ neiIP' = insertList(neiIP, inbox[k].list)
            /\ res' = 0
            /\ UNCHANGED updateFile
       ELSE /\ neiIP' = insertNeiIP(neiIP, dest[k], inbox[k].level)
            /\ res' = processUpdateFile(inbox[k].level, updateFile)
            /\ updateFile' = updateFile + res'
    /\ inbox' = [inbox EXCEPT ![k] = NoAnswer]
    /\ cur' = k /\ closing' = FALSE /\ pc' = "asleep"
    /\ Handled
    /\ UNCHANGED <<pollfds_, functors, objVars, isFirst, IP, dest, attempt, request, eof>>

\* The update is complete.
UpdateDone == /\ pc = "asleep" /\ updateFile >= MaxFile
              /\ cur' = 0 /\ pc' = "events"
              /\ UNCHANGED <<activeChannels_, pollfds_, functors, closing, objVars,
                             fileVars, netVars>>

\* write(mes): the next request goes out on connection_.
AskAgain == /\ pc = "asleep" /\ updateFile < MaxFile /\ res = 1
            /\ request' = IF connection_ # 0 /\ tcp[connection_] = "connected"
                          THEN [request EXCEPT ![connection_] = "c"] ELSE request
            /\ cur' = 0 /\ pc' = "events"
            /\ UNCHANGED <<activeChannels_, pollfds_, functors, closing, objVars,
                           fileVars, dest, attempt, inbox, eof>>

MutantLeaveConnection ==
    /\ pc = "asleep" /\ updateFile < MaxFile /\ res = 0
    /\ IP' = findNeiIP(neiIP, updateFile)
    /\ request' = [request EXCEPT ![cur] = "c"]
    /\ pc' = "change"
    /\ UNCHANGED <<activeChannels_, pollfds_, functors, cur, closing, objVars,
                   isFirst, updateFile, neiIP, res, dest, attempt, inbox, eof>>

\* "change the conn".
LeaveConnection == /\ pc = "asleep" /\ updateFile < MaxFile /\ res = 0
                   /\ IP' = findNeiIP(neiIP, updateFile)
                   /\ pc' = "change"
                   /\ UNCHANGED <<activeChannels_, pollfds_, functors, cur, closing,
                                  objVars, isFirst, updateFile, neiIP, res, netVars>>
-----------------------------------------------------------------------------
(* TcpConnection::handleClose. *)

MutantConnectionDown(k) ==
    /\ Handling(ConnChannel(k)) /\ Held(k) /\ inbox[k] = NoAnswer /\ eof[k]
    /\ tcp' = [tcp EXCEPT ![k] = "disconnected"]
    /\ connection_' = 0
    /\ cur' = k /\ closing' = TRUE
    /\ pc' = "closed" /\ UNCHANGED <<IP, neiIP>>
    /\ Handled
    /\ UNCHANGED <<pollfds_, functors, client_, connector, channel_, state_,
                   isFirst, updateFile, res, netVars>>

MutantStaysOpen(k) ==
    /\ Handling(ConnChannel(k)) /\ Held(k) /\ inbox[k] = NoAnswer /\ eof[k]
    /\ connection_' = 0
    /\ cur' = k /\ closing' = TRUE
    /\ IF state_ = "kConnected"
       THEN /\ neiIP' = removeNeiIP(neiIP, IP)
            /\ IP' = findNeiIP(neiIP', updateFile)
            /\ pc' = "change"
       ELSE pc' = "closed" /\ UNCHANGED <<IP, neiIP>>
    /\ Handled
    /\ UNCHANGED <<pollfds_, functors, client_, connector, channel_, tcp, state_,
                   isFirst, updateFile, res, netVars>>

\* The DOWN half of P2PClient::onConnection, up to the first changeServer.
ConnectionDown(k) ==
    /\ Handling(ConnChannel(k)) /\ Held(k) /\ inbox[k] = NoAnswer /\ eof[k]
    /\ tcp' = [tcp EXCEPT ![k] = "disconnected"]
    /\ connection_' = 0
    /\ cur' = k /\ closing' = TRUE
    /\ IF state_ = "kConnected"
       THEN /\ neiIP' = removeNeiIP(neiIP, IP)
            /\ IP' = findNeiIP(neiIP', updateFile)
            /\ pc' = "change"
       ELSE pc' = "closed" /\ UNCHANGED <<IP, neiIP>>
    /\ Handled
    /\ UNCHANGED <<pollfds_, functors, client_, connector, channel_, state_,
                   isFirst, updateFile, res, netVars>>

\* closeCallback_: detail::removeConnection queues connectDestroyed.
CloseCallback == /\ pc = "closed"
                 /\ functors' = Append(functors, <<"connectDestroyed", cur>>)
                 /\ cur' = 0 /\ closing' = FALSE /\ pc' = "events"
                 /\ UNCHANGED <<activeChannels_, pollfds_, objVars, fileVars, netVars>>
-----------------------------------------------------------------------------
(* P2PClient::changeServer, called in a loop until it succeeds. *)

\* Connector::start, startInLoop and connect, in the loop's thread.
StartConnector(k, refused) ==
    IF refused THEN UNCHANGED <<connector, channel_, pollfds_>>
    ELSE /\ connector' = [connector EXCEPT ![k] = "connecting"]
         /\ channel_' = [channel_ EXCEPT ![k] = TRUE]
         /\ pollfds_' = Append(pollfds_, ConnectorChannel(k))

\* client_->disconnect() if there is a connection, then client_->stop().
Disconnected == IF connection_ # 0 /\ tcp[client_] = "connected"
                THEN [tcp EXCEPT ![client_] = "disconnecting"] ELSE tcp

\* The test connection is refused: the caller forgets IP and takes another.
ChangeFails == /\ pc = "change"
               /\ tcp' = Disconnected
               /\ state_' = "kConnecting"
               /\ neiIP' = removeNeiIP(neiIP, IP)
               /\ IP' = findNeiIP(neiIP', updateFile)
               /\ UNCHANGED <<loopVars, client_, connector, channel_, connection_,
                              isFirst, updateFile, res, netVars>>

\* It is accepted: client_ is deleted and replaced, and the new connector
\* starts; its connect() may be refused at once.
ChangeSucceeds(refused) ==
    /\ pc = "change" /\ client_ < MaxClients
    /\ LET new == client_ + 1
       IN  /\ tcp' = Disconnected
           /\ state_' = "kConnecting"
           /\ client_' = new
           /\ dest' = [dest EXCEPT ![new] = IP]
           /\ StartConnector(new, refused)
    /\ IF closing THEN pc' = "closed" /\ UNCHANGED cur ELSE pc' = "events" /\ cur' = 0
    /\ UNCHANGED <<activeChannels_, functors, closing, connection_, fileVars,
                   attempt, request, inbox, eof>>
-----------------------------------------------------------------------------
Network == \/ \E k \in Clients : \/ \E o \in {"connected", "refused"} : ConnectEnds(k, o)
                                 \/ \E answer \in Answer : Answers(k, answer)
                                 \/ PeerCloses(k)
           \/ \E ip \in Peers, file \in Level : PeerAsks(ip, file)

MainLoop == \/ Poll \/ EventsDone \/ RunFunctor \/ FunctorsDone
            \/ \E k \in Clients : \/ ConnectFailed(k) \/ ConnectionUp(k)
                                  \/ MessageRead(k) \/ ConnectionDown(k)
            \/ UpdateDone \/ AskAgain \/ LeaveConnection \/ CloseCallback
            \/ ChangeFails \/ \E refused \in BOOLEAN : ChangeSucceeds(refused)

Next == Network \/ MainLoop

Spec == Init /\ [][Next]_vars
-----------------------------------------------------------------------------
(* Properties. *)

\* The variables keep their types.
TypeOK ==
    /\ pc \in {"poll", "events", "asleep", "change", "closed", "functors", "undefined"}
    /\ \A ch \in ToSet(activeChannels_) \cup ToSet(pollfds_) :
          ch[1] \in {"connector", "conn"} /\ ch[2] \in Clients
    /\ \A f \in ToSet(functors) : f[1] \in {"resetChannel", "connectDestroyed"} /\ f[2] \in Clients
    /\ cur \in Clients \cup {0} /\ closing \in BOOLEAN
    /\ client_ \in Clients /\ connection_ \in Clients \cup {0}
    /\ connector \in [Clients -> {"disconnected", "connecting", "connected"}]
    /\ channel_ \in [Clients -> BOOLEAN]
    /\ tcp \in [Clients -> {"none", "connected", "disconnecting", "disconnected"}]
    /\ state_ \in {"uninitialized", "kConnecting", "kConnected"}
    /\ isFirst \in BOOLEAN /\ IP \in Addresses \cup {NoAddress} /\ res \in {0, 1}
    /\ updateFile \in Level
    /\ neiIP \in [Peers -> Level \cup {Unknown, AssumedFile}]
    /\ dest \in [Clients -> Addresses \cup {NoAddress}]
    /\ attempt \in [Clients -> {"pending", "connected", "refused"}]
    /\ request \in [Clients -> {"none", "a", "c"}]
    /\ inbox \in [Clients -> Answer \cup {NoAnswer}]
    /\ eof \in [Clients -> BOOLEAN]

\* changeServer, ~TcpClient and ~Connector: the TcpClient that is stopped and
\* deleted has made its connection and its connector has let go of its channel
\* (assert(!channel_)), so stopInLoop finds nothing to undo and the destructor
\* finds a connection to detach.  And handleClose never comes before: when
\* closeCallback_ is called the TcpClient that made the connection is gone, so
\* that its own removeConnection, with its reconnecting, is never called.
ReplacedWhileConnected ==
    /\ pc = "change" => /\ connector[client_] = "connected" /\ ~channel_[client_]
                        /\ tcp[client_] # "none"
    /\ pc = "closed" => cur < client_

\* onStringMessage: connection_, on which the next request is written, is the
\* connection the message came on ("still use the same conn"), and is open.
AnswersOnSameConn ==
    pc = "asleep" => connection_ = cur /\ client_ = cur /\ tcp[cur] = "connected"

\* connectDestroyed "should be called only once", and for a connection that is
\* closed and still known to the poller.
DestroyedOnce ==
    \A i \in 1..Len(functors) : functors[i][1] = "connectDestroyed" =>
       LET k == functors[i][2]
       IN  /\ tcp[k] = "disconnected"
           /\ ConnChannel(k) \in ToSet(pollfds_)
           /\ \A j \in 1..Len(functors) : functors[j] = functors[i] => i = j

\* Channel::handleEvent: a channel poll() has reported is not destroyed before
\* its turn.  When one poll() reports both the end of the old connection and
\* the success of the new connector, the old connection is handled first.
ReportedIsAlive == pc # "undefined" => \A i \in 1..Len(activeChannels_) : Alive(activeChannels_[i])

\* PollPoller.cpp:52, fillActiveChannels: assert(channel->fd() == pfd->fd), the
\* entries of pollfds_ belong to channels that exist.
PolledIsAlive == \A i \in 1..Len(pollfds_) : Alive(pollfds_[i])
=============================================================================
