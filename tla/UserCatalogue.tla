--------------------------- MODULE UserCatalogue ---------------------------
(***************************************************************************)
(* The server's catalogue of clients (p2pserver/src/usercatalogue.cpp):    *)
(* for every address prefix the set of clients the server tells others     *)
(* about, users, and the queue that decides whom to drop, userQue.         *)
(*                                                                         *)
(* UserInfo::operator< (usercatalogue.h) answers "differs from", which is  *)
(* not an order, so what a set does depends on the shape of its tree: see  *)
(* StdSet.  A set is its members in iteration order and its tree.  No      *)
(* record for a prefix and the empty set are the same: a recorded set is   *)
(* never empty.                                                            *)
(***************************************************************************)
EXTENDS StdSet

CONSTANTS Users,           \* addresses: the server's and the clients'
          Server,          \* "1111"
          Prefixes,
          Prefix,          \* the first three characters of an address
          Files,           \* file levels a client can register with
          ServerFile,      \* 100
          kMaxCacheUsers,  \* MAXQUE
          MaxFds           \* descriptors the process may have for sockets

ASSUME UserAssumption == /\ Server \in Users
                         /\ Prefix \in [Users -> Prefixes]
                         /\ ServerFile \in Nat /\ Files \subseteq Nat
                         /\ {kMaxCacheUsers, MaxFds} \subseteq Nat \ {0}

VARIABLES users,     \* prefix -> the set of its cached clients
          userQue,   \* prefix -> addresses, oldest first
          working,   \* the addresses that accept connections now
          leaked     \* sockets of failed probes, never closed

catalogueVars == <<users, userQue, working, leaked>>

UserInfo == [userIP : Users, userFile : Files \cup {ServerFile}]

processIP(ip) == Prefix[ip]
-----------------------------------------------------------------------------
(* A std::set<UserInfo>. *)

NoUsers == [order |-> <<>>, tree |-> <<>>]

\* Where in the set the address is.
Records(uset, ip) == {i \in 1..Len(uset.order) : uset.order[i].userIP = ip}

\* The sequence without its i-th to j-th elements.
Without(s, i, j) == [k \in 1..(Len(s) - (j - i + 1)) |-> IF k < i THEN s[k] ELSE s[k + (j - i + 1)]]

Erasable(uset, ip) == MetBySearch(uset.tree, Records(uset, ip)) # {}

\* erase(key): removes everything from the first to the last equal it finds.
Erase(uset, ip) ==
    LET i == FirstEqual(uset.tree, Records(uset, ip))
        j == LastEqual(uset.tree, Records(uset, ip))
    IN  IF Erasable(uset, ip)
        THEN [order |-> Without(uset.order, i, j), tree |-> EraseNodes[uset.tree, i, j]]
        ELSE uset

\* insert(usr): an equal it meets stops it, else it becomes the first.
Insert(uset, usr) ==
    IF MetByInsert(uset.tree, Records(uset, usr.userIP)) THEN uset
    ELSE [order |-> <<usr>> \o uset.order, tree |-> InsertFirst[uset.tree]]

Cached(p) == {users[p].order[i].userIP : i \in 1..Len(users[p].order)}
-----------------------------------------------------------------------------
(* The operations. *)

CatalogueInit ==
    LET p == processIP(Server)
        usr == [userIP |-> Server, userFile |-> ServerFile]
    IN  /\ users = [[q \in Prefixes |-> NoUsers] EXCEPT ![p] = Insert(NoUsers, usr)]
        /\ userQue = [[q \in Prefixes |-> <<>>] EXCEPT ![p] = <<Server>>]
        /\ working = {Server}
        /\ leaked = 0

\* socket() fails at the limit; conns are the server's connections.
CanProbe(conns) == conns + leaked < MaxFds

\* Without a socket, connect() fails whatever the address.
isClientWorking(ip, conns) == CanProbe(conns) /\ ip \in working

MutantProbeLeaks(conns) == leaked' = leaked + 1

\* A refused connect() returns before the close().
ProbeLeaks(conns) == leaked' = IF CanProbe(conns) THEN leaked + 1 ELSE leaked

\* insertUser when the queue is full and its front answers: only the queue
\* turns, and the new client is not recorded.
KeepFront(p) == /\ userQue' = [userQue EXCEPT ![p] = Append(Tail(@), Head(@))]
                /\ UNCHANGED users

\* ... and when its front does not answer: the client takes its place.
ReplaceFront(ip, usr) ==
    LET p == processIP(ip)
    IN  /\ userQue' = [userQue EXCEPT ![p] = Append(Tail(@), ip)]
        /\ \E rest \in {Erase(users[p], Head(userQue[p]))} :
              users' = [users EXCEPT ![p] = Insert(rest, usr)]

\* The client is recorded; it joins the queue unless it was found in the set.
Record(ip, usr) ==
    LET p == processIP(ip)
    IN  /\ userQue' = IF Erasable(users[p], ip) THEN userQue
                      ELSE [userQue EXCEPT ![p] = Append(@, ip)]
        /\ \E rest \in {Erase(users[p], ip)} : users' = [users EXCEPT ![p] = Insert(rest, usr)]

MutantInsertUser(ip, file, conns) ==
    LET p == processIP(ip)
        usr == [userIP |-> ip, userFile |-> file]
        full == ~Erasable(users[p], ip) /\ Len(userQue[p]) > kMaxCacheUsers
        answers == isClientWorking(Head(userQue[p]), conns)
    IN  \/ ~full /\ Record(ip, usr) /\ UNCHANGED leaked
        \/ full /\ answers /\ KeepFront(p) /\ UNCHANGED leaked
        \/ full /\ ~answers /\ ReplaceFront(ip, usr) /\ ProbeLeaks(conns)

MutantInsertNoProbe(ip, file, conns) ==
    LET p == processIP(ip)
        usr == [userIP |-> ip, userFile |-> file]
        full == ~Erasable(users[p], ip) /\ kMaxCacheUsers <= Len(userQue[p])
    IN  \/ ~full /\ Record(ip, usr) /\ UNCHANGED leaked
        \/ full /\ ReplaceFront(ip, usr) /\ ProbeLeaks(conns)

insertUser(ip, file, conns) ==
    LET p == processIP(ip)
        usr == [userIP |-> ip, userFile |-> file]
        full == ~Erasable(users[p], ip) /\ kMaxCacheUsers <= Len(userQue[p])
        answers == isClientWorking(Head(userQue[p]), conns)
    IN  \/ ~full /\ Record(ip, usr) /\ UNCHANGED leaked
        \/ full /\ answers /\ KeepFront(p) /\ UNCHANGED leaked
        \/ full /\ ~answers /\ ReplaceFront(ip, usr) /\ ProbeLeaks(conns)

\* size() - 1.
hasNeighbor(ip) == Len(users[processIP(ip)].order) - 1

MutantProcessMessage(ip) ==
    IF users[processIP(ip)].order # <<>> THEN Cached(processIP(ip)) \ {ip} ELSE {Server}

\* retNeighborIP: the cached clients other than the asking one; processMyself:
\* the server, when hasNeighbor says that there is no neighbour.
processMessage(ip) ==
    IF hasNeighbor(ip) # 0 THEN Cached(processIP(ip)) \ {ip} ELSE {Server}
-----------------------------------------------------------------------------
(* Properties. *)

\* The catalogue keeps its types.
CatalogueTypeOK == /\ DOMAIN users = Prefixes
                   /\ \A p \in Prefixes : users[p].order \in Seq(UserInfo)
                   /\ userQue \in [Prefixes -> Seq(Users)]
                   /\ working \subseteq Users
                   /\ leaked \in Nat

\* MAXQUE: insertUser never lets the queue of a prefix outgrow the limit.
QueueBounded == \A p \in Prefixes : Len(userQue[p]) <= kMaxCacheUsers

\* No client is recorded twice under the prefix.
RecordedOnce(p) == \A i, j \in 1..Len(users[p].order) :
                      users[p].order[i].userIP = users[p].order[j].userIP => i = j

\* insertUser returns early only for a prefix that has a record, so hasNeighbor
\* and getNeighborUsers, which use users.find() unchecked, find one after it.
QueueImpliesRecord == \A p \in Prefixes : userQue[p] # <<>> => users[p].order # <<>>

\* kMaxCacheUsers: at most that many clients are cached for a prefix.
CacheBounded == \A p \in Prefixes : Len(users[p].order) <= kMaxCacheUsers
=============================================================================
