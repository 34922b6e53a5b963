----------------------------- MODULE P2PServer -----------------------------
(***************************************************************************)
(* The directory server (p2pserver/src/p2pserver.cpp): one thread that     *)
(* answers a client's registration ('a') with the other clients of its     *)
(* prefix.  A request for the update ('c') changes nothing here: see       *)
(* Update, ServerAnswers.                                                  *)
(* Clients start and stop at any time, also between the moment they send   *)
(* a message and the moment the server handles it.                         *)
(***************************************************************************)
EXTENDS UserCatalogue

CONSTANTS MaxConns,   \* connections the server has at its busiest
          MaxCached   \* bound on the records of a prefix

ASSUME ConnsAssumption == MaxConns \in Nat \ {0} /\ MaxConns <= MaxFds

VARIABLE reply  \* the message handed to codec_.send in this step, if any

serverVars == <<catalogueVars, reply>>

NoReply == [type |-> "none"]

ServerInit == CatalogueInit /\ reply = NoReply

\* The connections open when a message is handled, its own among them: TcpServer
\* models them.
Conns == {n \in 1..MaxConns : n + leaked <= MaxFds}

\* onStringMessage, 'a': record the client, then answer from the new record.
RegisterUser(ip, file, conns) ==
    /\ insertUser(ip, file, conns)
    /\ hasNeighbor(ip)' < MaxCached
    /\ reply' = [type |-> "b", to |-> ip, neighbours |-> processMessage(ip)']
    /\ UNCHANGED working

\* Clients come and go; the server always accepts its own probe.
ClientStarts(ip) == /\ ip \notin working
                    /\ working' = working \cup {ip}
                    /\ reply' = NoReply
                    /\ UNCHANGED <<users, userQue, leaked>>

ClientStops(ip) == /\ ip \in working
                   /\ working' = working \ {ip}
                   /\ reply' = NoReply
                   /\ UNCHANGED <<users, userQue, leaked>>

ServerNext == \E ip \in Users \ {Server} :
                 \/ \E file \in Files, conns \in Conns : RegisterUser(ip, file, conns)
                 \/ ClientStarts(ip)
                 \/ ClientStops(ip)

ServerSpec == ServerInit /\ [][ServerNext]_serverVars
-----------------------------------------------------------------------------
(* Properties. *)

\* The server's variables keep their types, and the sockets that probes leave
\* open never take its last descriptor.
ServerTypeOK == /\ CatalogueTypeOK
                /\ leaked < MaxFds
                /\ reply \in {NoReply}
                      \cup [type : {"b"}, to : Users, neighbours : SUBSET Users]

\* processMessage: a client that registers is told of at least one address
\* other than its own, so that it has somewhere to ask for the update.
ReplyOffersSource == reply.type = "b" => reply.neighbours \ {reply.to} # {}

\* insertUser, isClientWorking: a client that answers is never dropped, as long
\* as a descriptor is left for the probe and no client is recorded twice: erase
\* then removes one record, else everything between the two.
WorkingIsKept ==
    [][leaked + MaxConns < MaxFds =>
          \A p \in Prefixes : RecordedOnce(p) =>
             (Cached(p) \ Cached(p)') \cap working = {}]_serverVars
=============================================================================
