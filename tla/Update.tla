------------------------------- MODULE Update -------------------------------
(***************************************************************************)
(* The update of several clients: client processes (p2pclient.cpp) that    *)
(* start, register with the server's catalogue, ask one another or the     *)
(* server for the update one level at a time, crash and start again.       *)
(*                                                                         *)
(* P2PClient models one client with its objects and descriptors; here a    *)
(* client is where its main thread stands (phase) and its one current      *)
(* connection, whose other end is source.  The server's catalogue is       *)
(* UserCatalogue; it never fails.  A client's P2PCServer accepts a         *)
(* connection on the main thread, between two events, and answers it on a  *)
(* thread of its pool, at any time.  A process that misuses memory (see    *)
(* P2PClient, PolledIsAlive) is taken to crash.  A message whose sender    *)
(* has crashed is dropped.                                                 *)
(***************************************************************************)
EXTENDS UserCatalogue

CONSTANTS AssumedFile,   \* 101
          MaxCrashes     \* bound on the crashes in one behaviour

Clients == Users \ {Server}

ASSUME UpdateAssumption == /\ Users \subseteq Nat \ {0} /\ IsFiniteSet(Users)
                           /\ AssumedFile \in Nat /\ AssumedFile > ServerFile
                           /\ ServerFile > 1 /\ 1 \in Files /\ MaxCrashes \in Nat
                           /\ MaxFds > Cardinality(Users) + MaxCrashes

INSTANCE Neighbours WITH Peers <- Clients

VARIABLES phase,      \* c -> where its main thread stands
          updateFile, \* c -> its level; the update is complete at ServerFile
          neiIP,      \* c -> what it knows of the others
          source,     \* c -> P2PClient::IP, the other end of its connection
          request,    \* c -> its request is not answered yet: "a", "c" or "none"
          accepted,   \* c -> the source's TcpServer has its connection
          inbox,      \* c -> the answer not read yet
          lost,       \* c -> the other end has closed
          res,        \* c -> result of processMessage
          crashes,    \* number of crashes so far
          best        \* history: c -> the highest level it ever had

threadVars == <<phase, updateFile, neiIP, source, res>>
connVars == <<request, accepted, inbox, lost>>
auxVars == <<crashes, best>>
vars == <<catalogueVars, threadVars, connVars, auxVars>>

NoAnswer == [type |-> "none"]

Init == /\ CatalogueInit
        /\ phase = [c \in Clients |-> "down"]
        /\ updateFile = [c \in Clients |-> 1]
        /\ neiIP = [c \in Clients |-> NoNeighbours]
        /\ source = [c \in Clients |-> Server]
        /\ request = [c \in Clients |-> "none"]
        /\ accepted = [c \in Clients |-> FALSE]
        /\ inbox = [c \in Clients |-> NoAnswer]
        /\ lost = [c \in Clients |-> FALSE]
        /\ res = [c \in Clients |-> 0]
        /\ crashes = 0
        /\ best = [c \in Clients |-> 1]
-----------------------------------------------------------------------------
(* Processes start and crash. *)

\* main: P2PClient connects to the server, P2PCServer listens.
Start(c) == /\ phase[c] = "down"
            /\ phase' = [phase EXCEPT ![c] = "starting"]
            /\ working' = working \cup {c}
            /\ UNCHANGED <<users, userQue, leaked, updateFile, neiIP, source, res, connVars,
                           auxVars>>

\* Its connections end, on both sides, and its level and neighbours are gone.
Crash(c) ==
    /\ phase[c] # "down" /\ crashes < MaxCrashes
    /\ crashes' = crashes + 1
    /\ phase' = [phase EXCEPT ![c] = "down"]
    /\ updateFile' = [updateFile EXCEPT ![c] = 1]
    /\ neiIP' = [neiIP EXCEPT ![c] = NoNeighbours]
    /\ source' = [source EXCEPT ![c] = Server]
    /\ res' = [res EXCEPT ![c] = 0]
    /\ request' = [request EXCEPT ![c] = "none"]
    /\ accepted' = [accepted EXCEPT ![c] = FALSE]
    /\ inbox' = [inbox EXCEPT ![c] = NoAnswer]
    /\ lost' = [d \in Clients |-> /\ d # c
                                  /\ lost[d] \/ (source[d] = c /\ phase[d] \in {"up", "asleep"})]
    /\ working' = working \ {c}
    /\ UNCHANGED <<users, userQue, leaked, best>>
-----------------------------------------------------------------------------
(* The main thread of a client: its loop, and the handlers it runs. *)

\* Connector::handleWrite, the UP half of P2PClient::onConnection.
ConnectionUp(c) ==
    /\ phase[c] \in {"starting", "connecting"} /\ source[c] \in working
    /\ request' = [request EXCEPT ![c] = IF phase[c] = "starting" THEN "a" ELSE "c"]
    /\ phase' = [phase EXCEPT ![c] = "up"]
    /\ UNCHANGED <<catalogueVars, updateFile, neiIP, source, res, accepted, inbox, lost,
                   auxVars>>

\* Connector::retry arms a timer that never fires (TimerQueue, AddedTimerRuns).
ConnectRefused(c) == /\ phase[c] = "connecting" /\ source[c] \notin working
                     /\ phase' = [phase EXCEPT ![c] = "stuck"]
                     /\ UNCHANGED <<catalogueVars, updateFile, neiIP, source, res, connVars,
                                    auxVars>>

\* onStringMessage, processMessage: a list of neighbours, or a level.
MessageRead(c) ==
    /\ phase[c] = "up" /\ inbox[c] # NoAnswer
    /\ LET answer == inbox[c]
       IN  IF answer.type = "b"
           THEN /\ neiIP' = [neiIP EXCEPT ![c] = insertList(@, answer.list)]
                /\ res' = [res EXCEPT ![c] = 0]
                /\ UNCHANGED updateFile
           ELSE /\ neiIP' = [neiIP EXCEPT ![c] = insertNeiIP(@, source[c], answer.level)]
                /\ res' = [res EXCEPT ![c] = processUpdateFile(answer.level, updateFile[c])]
                /\ updateFile' = [updateFile EXCEPT ![c] = @ + res'[c]]
    /\ best' = [best EXCEPT ![c] = IF updateFile'[c] > @ THEN updateFile'[c] ELSE @]
    /\ inbox' = [inbox EXCEPT ![c] = NoAnswer]
    /\ phase' = [phase EXCEPT ![c] = "asleep"]
    /\ UNCHANGED <<catalogueVars, source, request, accepted, lost, crashes>>

\* onStringMessage after its sleep(1): "Update File Done", or the next request
\* on the same connection.
Stay(c) ==
    /\ phase[c] = "asleep" /\ (updateFile[c] = ServerFile \/ res[c] = 1)
    /\ request' = [request EXCEPT ![c] = IF updateFile[c] < ServerFile THEN "c" ELSE "none"]
    /\ phase' = [phase EXCEPT ![c] = "up"]
    /\ UNCHANGED <<catalogueVars, updateFile, neiIP, source, res, accepted, inbox, lost,
                   auxVars>>

\* ... or "change the conn".
Leave(c) ==
    /\ phase[c] = "asleep" /\ updateFile[c] < ServerFile /\ res[c] = 0
    /\ source' = [source EXCEPT ![c] = findNeiIP(neiIP[c], updateFile[c])]
    /\ phase' = [phase EXCEPT ![c] = "change"]
    /\ UNCHANGED <<catalogueVars, updateFile, neiIP, res, connVars, auxVars>>

MutantNextSource(c) ==
    /\ source' = [source EXCEPT ![c] = findNeiIP(neiIP[c], updateFile[c])]
    /\ UNCHANGED neiIP

\* IP is forgotten and the next one taken.
NextSource(c) ==
    /\ neiIP' = [neiIP EXCEPT ![c] = removeNeiIP(@, source[c])]
    /\ source' = [source EXCEPT ![c] = findNeiIP(neiIP'[c], updateFile[c])]

\* The DOWN half of P2PClient::onConnection, up to the first changeServer.
ConnectionDown(c) ==
    /\ phase[c] = "up" /\ lost[c] /\ inbox[c] = NoAnswer
    /\ NextSource(c)
    /\ phase' = [phase EXCEPT ![c] = "change"]
    /\ UNCHANGED <<catalogueVars, updateFile, res, connVars, auxVars>>

\* changeServer: the test connection is refused, and the caller goes on.
ChangeFails(c) == /\ phase[c] = "change" /\ source[c] \notin working
                  /\ NextSource(c)
                  /\ UNCHANGED <<catalogueVars, phase, updateFile, res, connVars, auxVars>>

\* ... or accepted: the connection is replaced by a new one.
ChangeSucceeds(c) ==
    /\ phase[c] = "change" /\ source[c] \in working
    /\ phase' = [phase EXCEPT ![c] = "connecting"]
    /\ res' = [res EXCEPT ![c] = 0]
    /\ request' = [request EXCEPT ![c] = "none"]
    /\ accepted' = [accepted EXCEPT ![c] = FALSE]
    /\ lost' = [lost EXCEPT ![c] = FALSE]
    /\ UNCHANGED <<catalogueVars, updateFile, neiIP, source, inbox, auxVars>>
-----------------------------------------------------------------------------
(* The other end of a connection. *)

\* The main thread of p is at poll().
InLoop(p) == phase[p] \in {"starting", "connecting", "up", "stuck"}

\* The source's Acceptor hands the connection to a thread of its pool.
Accept(c) == /\ phase[c] = "up" /\ source[c] # Server /\ ~accepted[c] /\ ~lost[c]
             /\ InLoop(source[c])
             /\ accepted' = [accepted EXCEPT ![c] = TRUE]
             /\ UNCHANGED <<catalogueVars, threadVars, request, inbox, lost, auxVars>>

\* The answer to c's request is put on the wire.
Answered(c, answer) == /\ request' = [request EXCEPT ![c] = "none"]
                       /\ inbox' = [inbox EXCEPT ![c] = answer]

MutantPeerAnswers(c) ==
    LET p == source[c]
    IN  /\ request[c] = "c" /\ accepted[c] /\ ~lost[c]
        /\ neiIP' = [neiIP EXCEPT ![p] = insertNeiIP(@, c, updateFile[p])]
        /\ Answered(c, [type |-> "d", level |-> updateFile[p]])
        /\ UNCHANGED <<catalogueVars, phase, updateFile, source, res, accepted, lost, auxVars>>

\* P2PCServer::onStringMessage, on that thread.
PeerAnswers(c) ==
    LET p == source[c]
    IN  /\ request[c] = "c" /\ accepted[c] /\ ~lost[c]
        /\ neiIP' = [neiIP EXCEPT ![p] = insertNeiIP(@, c, updateFile[c])]
        /\ Answered(c, [type |-> "d", level |-> updateFile[p]])
        /\ UNCHANGED <<catalogueVars, phase, updateFile, source, res, accepted, lost, auxVars>>

\* The clients the server has a connection with.
ServerConns == {c \in Clients : phase[c] \in {"up", "asleep"} /\ source[c] = Server}

\* P2PServer::onStringMessage, 'a'; the server closes its end.
Register(c) ==
    /\ request[c] = "a"
    /\ insertUser(c, 1, Cardinality(ServerConns))
    /\ Answered(c, [type |-> "b", list |-> processMessage(c)'])
    /\ lost' = [lost EXCEPT ![c] = TRUE]
    /\ UNCHANGED <<working, threadVars, accepted, auxVars>>

\* P2PServer::onStringMessage, 'c'.
ServerAnswers(c) ==
    /\ request[c] = "c" /\ source[c] = Server /\ ~lost[c]
    /\ Answered(c, [type |-> "d", level |-> ServerFile])
    /\ UNCHANGED <<catalogueVars, threadVars, accepted, lost, auxVars>>
-----------------------------------------------------------------------------
MainThread(c) == \/ ConnectionUp(c) \/ ConnectRefused(c) \/ MessageRead(c)
                 \/ Stay(c) \/ Leave(c) \/ ConnectionDown(c)
                 \/ ChangeFails(c) \/ ChangeSucceeds(c)

OtherEnd(c) == PeerAnswers(c) \/ Register(c) \/ ServerAnswers(c)

Next == \E c \in Clients : \/ Start(c) \/ Crash(c) \/ MainThread(c) \/ Accept(c)
                           \/ OtherEnd(c)

Spec == Init /\ [][Next]_vars

\* Threads run, the network delivers, and poll() reports every descriptor that
\* is ready: a connection that waits is accepted when the main thread comes
\* back to its loop again and again.  Nothing makes a process start or crash.
Fairness == \A c \in Clients : /\ WF_vars(MainThread(c)) /\ WF_vars(OtherEnd(c))
                               /\ SF_vars(Accept(c))

FairSpec == Spec /\ Fairness
-----------------------------------------------------------------------------
(* Properties. *)

Level == 1..ServerFile

\* The variables keep their types.
TypeOK ==
    /\ CatalogueTypeOK
    /\ phase \in [Clients -> {"down", "starting", "connecting", "up", "asleep", "change", "stuck"}]
    /\ updateFile \in [Clients -> Level] /\ best \in [Clients -> Level]
    /\ neiIP \in [Clients -> [Clients -> Level \cup {Unknown, AssumedFile}]]
    /\ source \in [Clients -> Users]
    /\ request \in [Clients -> {"none", "a", "c"}]
    /\ {accepted, lost} \subseteq [Clients -> BOOLEAN]
    /\ inbox \in [Clients -> {NoAnswer} \cup [type : {"b"}, list : SUBSET Users]
                                        \cup [type : {"d"}, level : Level]]
    /\ res \in [Clients -> {0, 1}]
    /\ crashes \in 0..MaxCrashes

\* insertNeiIP, by both threads: a level noted for a neighbour is one it has
\* had, in this life or an earlier one, or the assumed one.
KnowledgeIsOld == \A c, p \in Clients : neiIP[c][p] <= best[p] \/ neiIP[c][p] = AssumedFile

\* onStringMessage, onConnection: the loop around changeServer ends, although
\* neighbours crash while they are tried and others are noted meanwhile.
SearchEnds == \A c \in Clients : phase[c] = "change" ~> phase[c] # "change"

\* A client that runs and still needs the update.
Updating(c) == phase[c] \notin {"down", "stuck"} /\ updateFile[c] < ServerFile

\* The whole protocol: a client that keeps running is updated completely,
\* unless its source crashed between the test and the connect, or it ends up
\* asking for ever, and only, clients that stay at level 1.
OnlyLevelOneHolds ==
    \A c \in Clients : <>[]Updating(c) => <>[](source[c] # Server /\ updateFile[source[c]] = 1)

\* p2pclient.cpp:37, "When there is no info of updatafile, just assume it's
\* 101": a neighbour that has told that it has nothing to give is not assumed
\* to have it, so that no client asks the same neighbour for ever.
NobodyIsHeld == \A c, p \in Clients : []<>(source[c] # p \/ ~Updating(c))
=============================================================================
