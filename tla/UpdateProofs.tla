---------------------------- MODULE UpdateProofs ----------------------------
(***************************************************************************)
(* Theorems about the update of several clients, for any number of clients *)
(* and levels and any limit on the crashes.                                *)
(***************************************************************************)
EXTENDS Update, P2PServerProofs, FiniteSetTheorems

-----------------------------------------------------------------------------
(* What a client knows of the others. *)

\* The values of neiIP.
Notes == [Clients -> Level \cup {Unknown, AssumedFile}]

\* findNeiIP: the server, or a client noted with a higher level.
LEMMA FindProperties ==
    ASSUME NEW nei \in Notes, NEW level \in Level
    PROVE  \/ findNeiIP(nei, level) = Server
           \/ findNeiIP(nei, level) \in Clients /\ nei[findNeiIP(nei, level)] > level
<1> DEFINE better == {a \in Clients : nei[a] > level}
<1>1. CASE better = {}
  BY <1>1 DEF findNeiIP
<1>2. CASE better # {}
  <2>1. better \subseteq Nat
    BY UpdateAssumption DEF Clients
  <2>2. PICK a \in better : \A b \in better : a <= b
    BY <1>2, <2>1, LeastElement
  <2>3. findNeiIP(nei, level) \in better
    BY <1>2, <2>2 DEF findNeiIP
  <2> QED
    BY <2>3
<1> QED
  BY <1>1, <1>2

\* insertNeiIP notes one level, or the assumed one for the level 1.
LEMMA InsertNeiProperties ==
    ASSUME NEW nei \in Notes, NEW ip, NEW file \in Level
    PROVE  /\ insertNeiIP(nei, ip, file) \in Notes
           /\ \A a \in Clients :
                 \/ insertNeiIP(nei, ip, file)[a] = nei[a]
                 \/ a = ip /\ insertNeiIP(nei, ip, file)[a] \in {file, AssumedFile}
           /\ \A a \in Clients : a # ip => insertNeiIP(nei, ip, file)[a] = nei[a]
BY DEF insertNeiIP, Notes

\* insertList notes the assumed level.
LEMMA InsertListProperties ==
    ASSUME NEW nei \in Notes, NEW list
    PROVE  /\ insertList(nei, list) \in Notes
           /\ \A a \in Clients : insertList(nei, list)[a] \in {nei[a], AssumedFile}
           /\ \A a \in Clients : a \notin list => insertList(nei, list)[a] = nei[a]
BY DEF insertList, Notes

\* removeNeiIP only forgets.
LEMMA RemoveNeiProperties ==
    ASSUME NEW nei \in Notes, NEW ip
    PROVE  /\ removeNeiIP(nei, ip) \in Notes
           /\ \A a \in Clients : removeNeiIP(nei, ip)[a] \in {nei[a], Unknown}
BY DEF removeNeiIP, Notes
-----------------------------------------------------------------------------
(* The inductive invariant. *)

\* Nothing of an earlier connection is left.
Fresh(c) == request[c] = "none" /\ ~accepted[c] /\ inbox[c] = NoAnswer /\ ~lost[c]

\* What the connection of a client can be at each point of its main thread.
ConnInv(c) ==
    /\ phase[c] \in {"down", "starting", "connecting", "stuck"} => Fresh(c)
    /\ phase[c] \in {"down", "starting"} => source[c] = Server
    /\ phase[c] = "up" /\ inbox[c] # NoAnswer => request[c] = "none"
    /\ phase[c] = "asleep" => request[c] = "none" /\ inbox[c] = NoAnswer
    /\ phase[c] = "change" => inbox[c] = NoAnswer /\ (request[c] # "none" => lost[c])
    /\ phase[c] \in {"up", "asleep"} /\ accepted[c] => source[c] # Server
    /\ request[c] = "a" => phase[c] = "up" /\ source[c] = Server /\ ~lost[c]

\* A level on its way is one that the source has had.
AnswerInv(c) == /\ updateFile[c] <= best[c]
                /\ inbox[c].type = "d" /\ source[c] # Server => inbox[c].level <= best[source[c]]

\* A client is not its own neighbour.
AsksAnother == \A c \in Clients : /\ source[c] # c /\ neiIP[c][c] = Unknown
                                  /\ inbox[c].type = "b" => c \notin inbox[c].list

\* The inductive invariant.
IInv == /\ TypeOK /\ CatalogueInv
        /\ \A c \in Clients : ConnInv(c) /\ AnswerInv(c)
        /\ AsksAnother /\ KnowledgeIsOld

Phases == {"down", "starting", "connecting", "up", "asleep", "change", "stuck"}

Answers == {NoAnswer} \cup [type : {"b"}, list : SUBSET Users]
                      \cup [type : {"d"}, level : Level]

\* The types of the variables that are not the catalogue's.
ClientTypes ==
    /\ phase \in [Clients -> Phases]
    /\ updateFile \in [Clients -> Level] /\ best \in [Clients -> Level]
    /\ neiIP \in [Clients -> Notes]
    /\ source \in [Clients -> Users]
    /\ request \in [Clients -> {"none", "a", "c"}]
    /\ accepted \in [Clients -> BOOLEAN] /\ lost \in [Clients -> BOOLEAN]
    /\ inbox \in [Clients -> Answers]
    /\ res \in [Clients -> {0, 1}]
    /\ crashes \in 0..MaxCrashes

\* They are what the type invariant says.
LEMMA TypeParts == TypeOK <=> CatalogueTypeOK /\ ClientTypes
BY DEF TypeOK, ClientTypes, Phases, Answers, Notes

\* The same in the next state.
LEMMA TypePartsNext == TypeOK' <=> CatalogueTypeOK' /\ ClientTypes'
BY DEF TypeOK, ClientTypes, Phases, Answers, Notes

\* The constants and the levels.
LEMMA Constants ==
    /\ Server \in Users /\ Clients \subseteq Users /\ Server \notin Clients
    /\ ServerFile \in Nat /\ ServerFile > 1 /\ AssumedFile \in Nat /\ AssumedFile > ServerFile
    /\ 1 \in Level /\ ServerFile \in Level /\ MaxCrashes \in Nat /\ 1 \in Files
    /\ Level \subseteq Nat
BY UserAssumption, UpdateAssumption DEF Clients, Level

\* A client starts.
LEMMA StartTypes == ASSUME IInv, NEW c \in Clients, Start(c) PROVE ClientTypes' /\ CatalogueInv'
<1>1. ClientTypes
  BY TypeParts DEF IInv
<1>2. ClientTypes'
  BY <1>1 DEF Start, ClientTypes, connVars, auxVars, Phases
<1>3. CatalogueInv'
  BY Constants DEF Start, IInv, CatalogueInv, CatalogueTypeOK, QueueBounded, QueueImpliesRecord
<1> QED
  BY <1>2, <1>3

\* A client crashes: its level, its notes and the connections of both sides.
LEMMA CrashTypes == ASSUME IInv, NEW c \in Clients, Crash(c) PROVE ClientTypes' /\ CatalogueInv'
<1>1. ClientTypes
  BY TypeParts DEF IInv
<1>2. ClientTypes'
  <2>1. lost' \in [Clients -> BOOLEAN]
    BY DEF Crash
  <2>2. neiIP' \in [Clients -> Notes]
    BY <1>1 DEF Crash, ClientTypes, NoNeighbours, Notes
  <2>3. inbox' \in [Clients -> Answers]
    BY <1>1 DEF Crash, ClientTypes, Answers
  <2>4. crashes' \in 0..MaxCrashes
    BY <1>1, Constants DEF Crash, ClientTypes
  <2> QED
    BY <1>1, <2>1, <2>2, <2>3, <2>4, Constants DEF Crash, ClientTypes, Phases
<1>3. CatalogueInv'
  BY Constants DEF Crash, IInv, CatalogueInv, CatalogueTypeOK, QueueBounded, QueueImpliesRecord
<1> QED
  BY <1>2, <1>3

\* onStringMessage: a level is gained only from a source above it.
LEMMA MessageReadTypes == ASSUME IInv, NEW c \in Clients, MessageRead(c) PROVE ClientTypes'
<1>1. ClientTypes
  BY TypeParts DEF IInv
<1>2. inbox[c] \in Answers /\ inbox[c] # NoAnswer /\ neiIP[c] \in Notes /\ updateFile[c] \in Level
  BY <1>1 DEF ClientTypes, MessageRead
<1>3. phase' \in [Clients -> Phases] /\ inbox' \in [Clients -> Answers]
  BY <1>1 DEF ClientTypes, MessageRead, Phases, Answers
<1>4. /\ neiIP' \in [Clients -> Notes] /\ res' \in [Clients -> {0, 1}]
      /\ updateFile' \in [Clients -> Level]
  <2>1. CASE inbox[c].type = "b"
    <3>1. insertList(neiIP[c], inbox[c].list) \in Notes
      BY <1>2, InsertListProperties
    <3> QED
      BY <1>1, <2>1, <3>1 DEF ClientTypes, MessageRead
  <2>2. CASE inbox[c].type # "b"
    <3>1. inbox[c].level \in Level
      BY <1>2, <2>2 DEF Answers
    <3>2. insertNeiIP(neiIP[c], source[c], inbox[c].level) \in Notes
      BY <1>2, <3>1, InsertNeiProperties
    <3>3. /\ processUpdateFile(inbox[c].level, updateFile[c]) \in {0, 1}
          /\ updateFile[c] + processUpdateFile(inbox[c].level, updateFile[c]) \in Level
      BY <1>2, <3>1, Constants DEF processUpdateFile, Level
    <3>4. res' = [res EXCEPT ![c] = processUpdateFile(inbox[c].level, updateFile[c])]
      BY <2>2 DEF MessageRead
    <3>5. res'[c] = processUpdateFile(inbox[c].level, updateFile[c])
      BY <1>1, <3>4 DEF ClientTypes
    <3> QED
      BY <1>1, <2>2, <3>2, <3>3, <3>4, <3>5 DEF ClientTypes, MessageRead
  <2> QED
    BY <2>1, <2>2
<1>5. best' \in [Clients -> Level]
  BY <1>1, <1>4 DEF ClientTypes, MessageRead
<1> QED
  BY <1>1, <1>3, <1>4, <1>5 DEF ClientTypes, MessageRead

\* The steps of a client's own threads.
LEMMA ThreadTypes ==
    ASSUME IInv, NEW c \in Clients, MainThread(c) \/ Accept(c)
    PROVE  ClientTypes' /\ CatalogueInv'
<1>1. ClientTypes
  BY TypeParts DEF IInv
<1>2. ClientTypes'
  <2> DEFINE next(nei) == findNeiIP(nei, updateFile[c])
  <2>1. neiIP[c] \in Notes /\ updateFile[c] \in Level
    BY <1>1 DEF ClientTypes
  <2>2. \A nei \in Notes : findNeiIP(nei, updateFile[c]) \in Users
    BY <2>1, FindProperties, Constants
  <2>3. removeNeiIP(neiIP[c], source[c]) \in Notes
    BY <2>1, RemoveNeiProperties
  <2>4. ASSUME NextSource(c)
        PROVE  neiIP' \in [Clients -> Notes] /\ source' \in [Clients -> Users]
    <3>1. neiIP' \in [Clients -> Notes]
      BY <1>1, <2>3, <2>4 DEF NextSource, ClientTypes
    <3>2. source' \in [Clients -> Users]
      BY <1>1, <2>2, <2>4, <3>1 DEF NextSource, ClientTypes
    <3> QED
      BY <3>1, <3>2
  <2>5. CASE ConnectionUp(c) \/ ConnectRefused(c) \/ Stay(c) \/ ChangeSucceeds(c) \/ Accept(c)
    BY <1>1, <2>5 DEF ConnectionUp, ConnectRefused, Stay, ChangeSucceeds, Accept, ClientTypes,
       threadVars, connVars, auxVars, Phases
  <2>6. CASE Leave(c)
    BY <1>1, <2>1, <2>2, <2>6 DEF Leave, ClientTypes, connVars, auxVars, Phases
  <2>7. CASE ConnectionDown(c) \/ ChangeFails(c)
    BY <1>1, <2>4, <2>7 DEF ConnectionDown, ChangeFails, ClientTypes, connVars, auxVars, Phases
  <2>8. CASE MessageRead(c)
    BY <2>8, MessageReadTypes
  <2> QED
    BY <2>5, <2>6, <2>7, <2>8 DEF MainThread
<1>3. UNCHANGED catalogueVars
  BY DEF MainThread, ConnectionUp, ConnectRefused, Stay, ChangeSucceeds, Accept, Leave,
     ConnectionDown, ChangeFails, MessageRead
<1>4. CatalogueInv'
  BY <1>3 DEF IInv, CatalogueInv, CatalogueTypeOK, QueueBounded,
     QueueImpliesRecord, catalogueVars
<1> QED
  BY <1>2, <1>4

\* The steps of the other end of a client's connection.
LEMMA OtherEndTypes ==
    ASSUME IInv, NEW c \in Clients, OtherEnd(c)
    PROVE  ClientTypes' /\ CatalogueInv'
<1>1. ClientTypes
  BY TypeParts DEF IInv
<1>2. ASSUME NEW answer \in Answers, Answered(c, answer)
      PROVE  inbox' \in [Clients -> Answers] /\ request' \in [Clients -> {"none", "a", "c"}]
  BY <1>1, <1>2 DEF Answered, ClientTypes
<1>3. CASE PeerAnswers(c)
  <2>1. source[c] \in Clients
    BY <1>1, <1>3, Constants DEF IInv, ConnInv, PeerAnswers, ClientTypes, Clients, Phases, Fresh
  <2>2. updateFile[source[c]] \in Level /\ neiIP[source[c]] \in Notes /\ updateFile[c] \in Level
    BY <1>1, <2>1 DEF ClientTypes
  <2>3. [type |-> "d", level |-> updateFile[source[c]]] \in Answers
    BY <2>2 DEF Answers
  <2>4. insertNeiIP(neiIP[source[c]], c, updateFile[c]) \in Notes
    BY <2>2, InsertNeiProperties
  <2>5. inbox' \in [Clients -> Answers] /\ request' \in [Clients -> {"none", "a", "c"}]
    BY <1>2, <1>3, <2>3 DEF PeerAnswers
  <2>6. neiIP' \in [Clients -> Notes]
    BY <1>1, <1>3, <2>1, <2>4 DEF PeerAnswers, ClientTypes
  <2>7. ClientTypes'
    BY <1>1, <1>3, <2>5, <2>6 DEF PeerAnswers, ClientTypes, auxVars
  <2>8. CatalogueInv'
    BY <1>3 DEF PeerAnswers, IInv, CatalogueInv, CatalogueTypeOK, QueueBounded,
       QueueImpliesRecord, catalogueVars
  <2> QED
    BY <2>7, <2>8
<1>4. CASE Register(c)
  <2>1. Cardinality(ServerConns) \in Nat
    <3>1. IsFiniteSet(ServerConns)
      BY Constants, UpdateAssumption, FS_Subset DEF ServerConns
    <3> QED
      BY <3>1, FS_CardinalityType
  <2>2. c \in Users /\ 1 \in Files /\ working' \subseteq Users
    BY <1>4, Constants DEF Register, IInv, CatalogueInv, CatalogueTypeOK
  <2>3. CatalogueInv'
    BY <1>4, <2>1, <2>2, InsertUserKeeps DEF Register, IInv
  <2>4. processMessage(c)' \in SUBSET Users
    BY <2>2, <2>3, OffersUsers DEF CatalogueInv
  <2>5. [type |-> "b", list |-> processMessage(c)'] \in Answers
    BY <2>4 DEF Answers
  <2>6. inbox' \in [Clients -> Answers] /\ request' \in [Clients -> {"none", "a", "c"}]
    BY <1>2, <1>4, <2>5 DEF Register
  <2>7. lost' \in [Clients -> BOOLEAN]
    BY <1>1, <1>4 DEF Register, ClientTypes
  <2>8. ClientTypes'
    BY <1>1, <1>4, <2>6, <2>7 DEF Register, ClientTypes, threadVars, auxVars
  <2> QED
    BY <2>3, <2>8
<1>5. CASE ServerAnswers(c)
  <2>1. [type |-> "d", level |-> ServerFile] \in Answers
    BY Constants DEF Answers
  <2>2. inbox' \in [Clients -> Answers] /\ request' \in [Clients -> {"none", "a", "c"}]
    BY <1>2, <1>5, <2>1 DEF ServerAnswers
  <2>3. ClientTypes'
    BY <1>1, <1>5, <2>2 DEF ServerAnswers, ClientTypes, threadVars, auxVars
  <2>4. CatalogueInv'
    BY <1>5 DEF ServerAnswers, IInv, CatalogueInv, CatalogueTypeOK, QueueBounded,
       QueueImpliesRecord, catalogueVars
  <2> QED
    BY <2>3, <2>4
<1> QED
  BY <1>3, <1>4, <1>5 DEF OtherEnd
-----------------------------------------------------------------------------
(* Connections. *)

\* A step of a client that does not crash leaves the connections and levels of
\* the others alone.
LEMMA OthersUntouched ==
    ASSUME IInv, NEW c \in Clients, NEW d \in Clients, d # c,
           Start(c) \/ MainThread(c) \/ Accept(c) \/ OtherEnd(c)
    PROVE  /\ phase'[d] = phase[d] /\ source'[d] = source[d] /\ request'[d] = request[d]
           /\ accepted'[d] = accepted[d] /\ inbox'[d] = inbox[d] /\ lost'[d] = lost[d]
           /\ updateFile'[d] = updateFile[d] /\ best'[d] = best[d]
<1>1. ClientTypes
  BY TypeParts DEF IInv
<1>2. CASE Start(c) \/ Accept(c)
  BY <1>1, <1>2 DEF Start, Accept, ClientTypes, threadVars, connVars, auxVars
<1>3. CASE ConnectionUp(c) \/ ConnectRefused(c) \/ Stay(c) \/ ChangeSucceeds(c)
  BY <1>1, <1>3 DEF ConnectionUp, ConnectRefused, Stay, ChangeSucceeds, ClientTypes,
     connVars, auxVars
<1>4. CASE Leave(c) \/ ConnectionDown(c) \/ ChangeFails(c)
  BY <1>1, <1>4 DEF Leave, ConnectionDown, ChangeFails, NextSource, ClientTypes,
     connVars, auxVars
<1>5. CASE MessageRead(c)
  BY <1>1, <1>5 DEF MessageRead, ClientTypes
<1>6. CASE PeerAnswers(c) \/ Register(c) \/ ServerAnswers(c)
  BY <1>1, <1>6 DEF PeerAnswers, Register, ServerAnswers, Answered, ClientTypes,
     threadVars, auxVars
<1> QED
  BY <1>2, <1>3, <1>4, <1>5, <1>6 DEF MainThread, OtherEnd

\* Every step of a client keeps what is known of its own connection.
LEMMA OwnConn ==
    ASSUME IInv, NEW c \in Clients,
           Start(c) \/ Crash(c) \/ MainThread(c) \/ Accept(c) \/ OtherEnd(c)
    PROVE  ConnInv(c)'
<1>1. ClientTypes /\ ConnInv(c)
  BY TypeParts DEF IInv
<1>2. CASE Start(c)
  BY <1>1, <1>2 DEF Start, ConnInv, Fresh, ClientTypes, connVars
<1>3. CASE Crash(c)
  BY <1>1, <1>3 DEF Crash, ConnInv, Fresh, ClientTypes
<1>4. CASE Accept(c)
  BY <1>1, <1>4 DEF Accept, ConnInv, Fresh, ClientTypes, threadVars
<1>5. CASE ConnectionUp(c)
  BY <1>1, <1>5 DEF ConnectionUp, ConnInv, Fresh, ClientTypes
<1>6. CASE ConnectRefused(c)
  BY <1>1, <1>6 DEF ConnectRefused, ConnInv, Fresh, ClientTypes, connVars
<1>7. CASE MessageRead(c)
  BY <1>1, <1>7 DEF MessageRead, ConnInv, Fresh, ClientTypes
<1>8. CASE Stay(c)
  BY <1>1, <1>8 DEF Stay, ConnInv, Fresh, ClientTypes
<1>9. CASE Leave(c)
  BY <1>1, <1>9 DEF Leave, ConnInv, Fresh, ClientTypes, connVars
<1>10. CASE ConnectionDown(c) \/ ChangeFails(c)
  BY <1>1, <1>10 DEF ConnectionDown, ChangeFails, ConnInv, Fresh, ClientTypes, connVars
<1>11. CASE ChangeSucceeds(c)
  BY <1>1, <1>11 DEF ChangeSucceeds, ConnInv, Fresh, ClientTypes
<1>12. CASE PeerAnswers(c)
  BY <1>1, <1>12 DEF PeerAnswers, Answered, ConnInv, Fresh, ClientTypes, Phases
<1>13. CASE Register(c)
  BY <1>1, <1>13 DEF Register, Answered, ConnInv, Fresh, ClientTypes, Phases, threadVars
<1>14. CASE ServerAnswers(c)
  BY <1>1, <1>14 DEF ServerAnswers, Answered, ConnInv, Fresh, ClientTypes, Phases, threadVars
<1> QED
  BY <1>2, <1>3, <1>4, <1>5, <1>6, <1>7, <1>8, <1>9, <1>10, <1>11, <1>12, <1>13, <1>14
  DEF MainThread, OtherEnd

\* Every step of a client keeps what is known of another one's connection: a
\* crash ends it, and nothing else touches it.
LEMMA OtherConn ==
    ASSUME IInv, NEW c \in Clients, NEW d \in Clients, d # c,
           Start(c) \/ Crash(c) \/ MainThread(c) \/ Accept(c) \/ OtherEnd(c)
    PROVE  ConnInv(d)'
<1>1. ClientTypes /\ ConnInv(d)
  BY TypeParts DEF IInv
<1>2. CASE Crash(c)
  <2>1. /\ phase'[d] = phase[d] /\ source'[d] = source[d] /\ request'[d] = request[d]
        /\ accepted'[d] = accepted[d] /\ inbox'[d] = inbox[d]
        /\ lost'[d] = (lost[d] \/ (source[d] = c /\ phase[d] \in {"up", "asleep"}))
    BY <1>1, <1>2 DEF Crash, ClientTypes
  <2>2. request[d] = "a" => source[d] # c
    BY <1>1, Constants DEF ConnInv
  <2> QED
    BY <1>1, <2>1, <2>2 DEF ConnInv, Fresh
<1>3. CASE ~Crash(c)
  BY <1>1, <1>3, OthersUntouched DEF ConnInv, Fresh
<1> QED
  BY <1>2, <1>3
-----------------------------------------------------------------------------
(* Levels. *)

\* The highest level of a client only rises, and its level stays below it.
LEMMA LevelsRise ==
    ASSUME IInv, ClientTypes', NEW c \in Clients, NEW d \in Clients,
           Start(c) \/ Crash(c) \/ MainThread(c) \/ Accept(c) \/ OtherEnd(c)
    PROVE  best[d] <= best'[d] /\ updateFile'[d] <= best'[d]
<1>1. /\ ClientTypes /\ updateFile[d] <= best[d]
      /\ best[d] \in Nat /\ best'[d] \in Nat /\ best[d] >= 1
  BY TypeParts, Constants DEF IInv, AnswerInv, ClientTypes, Level
<1>2. CASE MessageRead(c)
  <2>1. CASE d = c
    <3>1. best'[c] = IF updateFile'[c] > best[c] THEN updateFile'[c] ELSE best[c]
      BY <1>1, <1>2 DEF MessageRead, ClientTypes
    <3>2. updateFile'[c] \in Nat
      BY Constants DEF ClientTypes
    <3> QED
      BY <1>1, <2>1, <3>1, <3>2
  <2>2. CASE d # c
    BY <1>1, <1>2, <2>2, OthersUntouched DEF MainThread
  <2> QED
    BY <2>1, <2>2
<1>3. CASE Crash(c)
  BY <1>1, <1>3 DEF Crash, ClientTypes
<1>4. CASE ~MessageRead(c) /\ ~Crash(c)
  <2>1. best' = best /\ updateFile' = updateFile
    BY <1>4 DEF MainThread, OtherEnd, Start, Accept, ConnectionUp, ConnectRefused, Stay,
       ChangeSucceeds, Leave, ConnectionDown, ChangeFails, PeerAnswers, Register,
       ServerAnswers, threadVars, auxVars
  <2> QED
    BY <1>1, <2>1
<1> QED
  BY <1>2, <1>3, <1>4

\* A level on its way is one that its sender has had.
LEMMA AnswersAreOld ==
    ASSUME IInv, ClientTypes', NEW c \in Clients, NEW d \in Clients,
           Start(c) \/ Crash(c) \/ MainThread(c) \/ Accept(c) \/ OtherEnd(c)
    PROVE  AnswerInv(d)'
<1>1. ClientTypes /\ ConnInv(c) /\ AnswerInv(d)
  BY TypeParts DEF IInv
<1>2. SUFFICES ASSUME inbox'[d].type = "d", source'[d] # Server
               PROVE  inbox'[d].level <= best'[source'[d]]
  BY LevelsRise DEF AnswerInv
<1>3. ASSUME inbox'[d] = inbox[d], source'[d] = source[d]
      PROVE  inbox'[d].level <= best'[source'[d]]
  <2>1. source[d] \in Clients /\ inbox[d].level <= best[source[d]]
    BY <1>1, <1>2, <1>3, Constants DEF AnswerInv, ClientTypes, Clients
  <2>2. best[source[d]] <= best'[source[d]]
    BY <2>1, LevelsRise
  <2>3. best[source[d]] \in Nat /\ best'[source[d]] \in Nat
    BY <1>1, <2>1, Constants DEF ClientTypes
  <2>4. inbox[d].level \in Nat
    <3>1. inbox[d] \in Answers /\ inbox[d].type = "d"
      BY <1>1, <1>2, <1>3 DEF ClientTypes
    <3>2. inbox[d].level \in Level
      BY <3>1 DEF Answers, NoAnswer
    <3> QED
      BY <3>2, Constants
  <2> QED
    BY <1>3, <2>1, <2>2, <2>3, <2>4
<1>4. CASE d # c
  <2>1. CASE Crash(c)
    BY <1>1, <1>3, <1>4, <2>1 DEF Crash, ClientTypes
  <2>2. CASE ~Crash(c)
    BY <1>3, <1>4, <2>2, OthersUntouched
  <2> QED
    BY <2>1, <2>2
<1>5. CASE d = c
  <2>1. inbox'[c].type = "d" /\ source'[c] # Server
    BY <1>2, <1>5
  <2>2. NoAnswer.type # "d"
    BY DEF NoAnswer
  <2>3. CASE Start(c) \/ Accept(c) \/ ConnectionUp(c) \/ ConnectRefused(c) \/ Stay(c)
    BY <1>3, <1>5, <2>3 DEF Start, Accept, ConnectionUp, ConnectRefused, Stay,
       threadVars, connVars
  <2>4. CASE Crash(c) \/ MessageRead(c)
    BY <1>1, <2>1, <2>2, <2>4 DEF Crash, MessageRead, ClientTypes
  <2>5. CASE Leave(c) \/ ConnectionDown(c) \/ ChangeFails(c) \/ ChangeSucceeds(c)
    BY <1>1, <2>1, <2>2, <2>5 DEF Leave, ConnectionDown, ChangeFails, ChangeSucceeds,
       ConnInv, connVars
  <2>6. CASE PeerAnswers(c)
    <3>1. /\ inbox'[c] = [type |-> "d", level |-> updateFile[source[c]]]
          /\ source'[c] = source[c] /\ updateFile' = updateFile
      BY <1>1, <2>6 DEF PeerAnswers, Answered, ClientTypes
    <3>2. source[c] \in Clients
      BY <1>1, <2>1, <3>1 DEF ClientTypes, Clients
    <3>3. updateFile'[source[c]] <= best'[source[c]]
      BY <3>2, LevelsRise
    <3> QED
      BY <1>5, <3>1, <3>3
  <2>7. CASE Register(c)
    BY <1>1, <2>1, <2>7 DEF Register, Answered, ClientTypes
  <2>8. CASE ServerAnswers(c)
    BY <2>1, <2>8 DEF ServerAnswers, threadVars
  <2> QED
    BY <2>3, <2>4, <2>5, <2>6, <2>7, <2>8 DEF MainThread, OtherEnd
<1> QED
  BY <1>4, <1>5
-----------------------------------------------------------------------------
(* Knowledge. *)

\* What a step can do to a note: nothing, forget it, assume the most, or note
\* a level the neighbour has had.  The client itself is never noted.
NoteInv(d, p) == /\ neiIP[d][p] <= best[p] \/ neiIP[d][p] = AssumedFile
                 /\ d = p => neiIP[d][p] = Unknown

\* Every step keeps the notes of every client.
LEMMA NotesAreOld ==
    ASSUME IInv, ClientTypes', NEW c \in Clients, NEW d \in Clients, NEW p \in Clients,
           Start(c) \/ Crash(c) \/ MainThread(c) \/ Accept(c) \/ OtherEnd(c)
    PROVE  NoteInv(d, p)'
<1>1. ClientTypes /\ ConnInv(c) /\ AnswerInv(c) /\ NoteInv(d, p)
  BY TypeParts DEF IInv, AsksAnother, KnowledgeIsOld, NoteInv
<1>2. best[p] \in Nat /\ best'[p] \in Nat /\ best[p] <= best'[p]
  BY <1>1, LevelsRise, Constants DEF ClientTypes
<1>3. neiIP[d] \in Notes /\ neiIP[d][p] \in Nat
  <2>1. neiIP[d] \in Notes
    BY <1>1 DEF ClientTypes
  <2>2. neiIP[d][p] \in Level \cup {Unknown, AssumedFile}
    BY <2>1 DEF Notes
  <2>3. Unknown \in Nat /\ AssumedFile \in Nat /\ Level \subseteq Nat
    BY Constants DEF Unknown
  <2>4. neiIP[d][p] \in Nat
    BY <2>2, <2>3
  <2> QED
    BY <2>1, <2>4
<1>4. ASSUME neiIP'[d][p] \in {neiIP[d][p], Unknown} PROVE NoteInv(d, p)'
  <2>1. neiIP'[d][p] <= best'[p] \/ neiIP'[d][p] = AssumedFile
    <3>1. CASE neiIP'[d][p] = Unknown
      BY <1>2, <3>1 DEF Unknown
    <3>2. CASE neiIP'[d][p] = neiIP[d][p]
      BY <1>1, <1>2, <1>3, <3>2 DEF NoteInv
    <3> QED
      BY <1>4, <3>1, <3>2
  <2>2. d = p => neiIP'[d][p] = Unknown
    BY <1>1, <1>4 DEF NoteInv
  <2> QED
    BY <2>1, <2>2 DEF NoteInv
<1>5. ASSUME d # p, neiIP'[d][p] = AssumedFile PROVE NoteInv(d, p)'
  BY <1>5 DEF NoteInv
<1>6. ASSUME d # p, neiIP'[d][p] \in Nat, neiIP'[d][p] <= best'[p] PROVE NoteInv(d, p)'
  BY <1>6 DEF NoteInv
<1>7. CASE UNCHANGED neiIP
  BY <1>4, <1>7
<1>8. CASE Crash(c)
  BY <1>1, <1>4, <1>8 DEF Crash, ClientTypes, NoNeighbours
<1>9. CASE NextSource(c)
  BY <1>1, <1>3, <1>4, <1>9, RemoveNeiProperties DEF NextSource, ClientTypes
<1>10. CASE MessageRead(c)
  <2>1. CASE d # c
    BY <1>1, <1>4, <1>10, <2>1 DEF MessageRead, ClientTypes
  <2>2. CASE d = c /\ inbox[c].type = "b"
    <3>1. neiIP'[c] = insertList(neiIP[c], inbox[c].list)
      BY <1>1, <1>10, <2>2 DEF MessageRead, ClientTypes
    <3>2. c \notin inbox[c].list
      BY <2>2 DEF IInv, AsksAnother
    <3>3. neiIP'[c][p] = neiIP[c][p] \/ (p # c /\ neiIP'[c][p] = AssumedFile)
      BY <1>3, <2>2, <3>1, <3>2, InsertListProperties
    <3> QED
      BY <1>4, <1>5, <2>2, <3>3
  <2>3. CASE d = c /\ inbox[c].type # "b"
    <3>1. inbox[c].type = "d" /\ inbox[c].level \in Level
      BY <1>1, <1>10, <2>3 DEF MessageRead, ClientTypes, Answers
    <3>2. neiIP'[c] = insertNeiIP(neiIP[c], source[c], inbox[c].level)
      BY <1>1, <1>10, <2>3 DEF MessageRead, ClientTypes
    <3>3. source[c] # c
      BY DEF IInv, AsksAnother
    <3>4. \/ neiIP'[c][p] = neiIP[c][p]
          \/ p = source[c] /\ neiIP'[c][p] \in {inbox[c].level, AssumedFile}
      BY <1>3, <2>3, <3>1, <3>2, InsertNeiProperties
    <3>5. p = source[c] => inbox[c].level <= best[p]
      BY <1>1, <3>1, Constants DEF AnswerInv
    <3>6. inbox[c].level \in Nat
      BY <3>1, Constants
    <3>7. CASE p = source[c] /\ neiIP'[c][p] = inbox[c].level
      BY <1>2, <1>6, <2>3, <3>3, <3>5, <3>6, <3>7
    <3> QED
      BY <1>4, <1>5, <2>3, <3>3, <3>4, <3>7
  <2> QED
    BY <2>1, <2>2, <2>3
<1>11. CASE PeerAnswers(c)
  <2>1. source[c] \in Clients /\ source[c] # c
    BY <1>1, <1>11, Constants DEF IInv, AsksAnother, ConnInv, PeerAnswers, ClientTypes, Clients,
       Phases, Fresh
  <2>2. CASE d # source[c]
    BY <1>1, <1>4, <1>11, <2>1, <2>2 DEF PeerAnswers, ClientTypes
  <2>3. CASE d = source[c]
    <3>1. neiIP'[d] = insertNeiIP(neiIP[d], c, updateFile[c])
      BY <1>1, <1>11, <2>1, <2>3 DEF PeerAnswers, ClientTypes
    <3>2. updateFile[c] \in Level /\ updateFile[c] \in Nat /\ updateFile[c] <= best[c]
      BY <1>1, Constants DEF ClientTypes, AnswerInv
    <3>3. \/ neiIP'[d][p] = neiIP[d][p]
          \/ p = c /\ neiIP'[d][p] \in {updateFile[c], AssumedFile}
      BY <1>3, <3>1, <3>2, InsertNeiProperties
    <3>4. CASE p = c /\ neiIP'[d][p] = updateFile[c]
      BY <1>2, <1>6, <2>1, <2>3, <3>2, <3>4
    <3> QED
      BY <1>4, <1>5, <2>1, <2>3, <3>3, <3>4
  <2> QED
    BY <2>2, <2>3
<1> QED
  BY <1>7, <1>8, <1>9, <1>10, <1>11
  DEF MainThread, OtherEnd, Start, Accept, ConnectionUp, ConnectRefused, Stay,
      ChangeSucceeds, Leave, ConnectionDown, ChangeFails, Register, ServerAnswers, threadVars

\* findNeiIP, processMessage: no client is ever its own source, and it is not
\* in the list the server sends it.
LEMMA SourceIsAnother ==
    ASSUME IInv, ClientTypes', NEW c \in Clients, NEW d \in Clients, NoteInv(c, c)',
           Start(c) \/ Crash(c) \/ MainThread(c) \/ Accept(c) \/ OtherEnd(c)
    PROVE  source'[d] # d /\ (inbox'[d].type = "b" => d \notin inbox'[d].list)
<1>1. ClientTypes /\ source[d] # d /\ (inbox[d].type = "b" => d \notin inbox[d].list)
  BY TypeParts DEF IInv, AsksAnother
<1>2. CASE d # c
  <2>1. CASE Crash(c)
    BY <1>1, <1>2, <2>1 DEF Crash, ClientTypes
  <2>2. CASE ~Crash(c)
    BY <1>1, <1>2, <2>2, OthersUntouched
  <2> QED
    BY <2>1, <2>2
<1>3. CASE d = c
  <2>1. source'[c] # c
    <3>1. ASSUME NEW nei \in Notes, nei[c] = Unknown PROVE findNeiIP(nei, updateFile[c]) # c
      <4>1. updateFile[c] \in Level /\ updateFile[c] \in Nat
        BY <1>1, Constants DEF ClientTypes
      <4>2. ~(Unknown > updateFile[c])
        BY <4>1 DEF Unknown
      <4> QED
        BY <3>1, <4>1, <4>2, FindProperties, Constants
    <3>2. CASE NextSource(c)
      <4>1. neiIP'[c] \in Notes /\ neiIP'[c][c] = Unknown
        BY DEF ClientTypes, NoteInv
      <4> QED
        BY <1>1, <3>1, <3>2, <4>1 DEF NextSource, ClientTypes
    <3>3. CASE Leave(c)
      <4>1. neiIP[c] \in Notes /\ neiIP[c][c] = Unknown
        BY <1>1 DEF ClientTypes, IInv, AsksAnother
      <4> QED
        BY <1>1, <3>1, <3>3, <4>1 DEF Leave, ClientTypes
    <3>4. CASE Crash(c)
      BY <1>1, <3>4, Constants DEF Crash, ClientTypes
    <3>5. CASE UNCHANGED source
      BY <1>1, <1>3, <3>5
    <3> QED
      BY <3>2, <3>3, <3>4, <3>5
      DEF MainThread, OtherEnd, Start, Accept, ConnectionUp, ConnectRefused, Stay, MessageRead,
          ChangeSucceeds, ConnectionDown, ChangeFails, PeerAnswers, Register, ServerAnswers,
          threadVars
  <2>2. inbox'[c].type = "b" => c \notin inbox'[c].list
    <3>1. CASE Register(c)
      <4>1. inbox'[c].list = processMessage(c)'
        BY <1>1, <3>1 DEF Register, Answered, ClientTypes
      <4>2. c \notin processMessage(c)'
        BY Constants DEF processMessage
      <4> QED
        BY <4>1, <4>2
    <3>2. CASE PeerAnswers(c) \/ ServerAnswers(c)
      BY <1>1, <3>2 DEF PeerAnswers, ServerAnswers, Answered, ClientTypes
    <3>3. CASE Crash(c) \/ MessageRead(c)
      BY <1>1, <3>3 DEF Crash, MessageRead, ClientTypes, NoAnswer
    <3>4. CASE UNCHANGED inbox
      BY <1>1, <1>3, <3>4
    <3> QED
      BY <3>1, <3>2, <3>3, <3>4
      DEF MainThread, OtherEnd, Start, Accept, ConnectionUp, ConnectRefused, Stay, Leave,
          ChangeSucceeds, ConnectionDown, ChangeFails, connVars
  <2> QED
    BY <1>3, <2>1, <2>2
<1> QED
  BY <1>2, <1>3
-----------------------------------------------------------------------------
(* The theorems. *)

\* The initial state satisfies the inductive invariant.
LEMMA InitIInv == Init => IInv
<1> SUFFICES ASSUME Init PROVE IInv
  OBVIOUS
<1>1. CatalogueInv
  BY InitCatalogue DEF Init
<1>2. ClientTypes
  BY Constants DEF Init, ClientTypes, Phases, Answers, Notes, NoNeighbours
<1>3. ASSUME NEW c \in Clients PROVE ConnInv(c) /\ AnswerInv(c)
  BY <1>3, Constants DEF Init, ConnInv, Fresh, AnswerInv, NoAnswer
<1>4. AsksAnother
  BY Constants DEF Init, AsksAnother, NoNeighbours, NoAnswer
<1>5. KnowledgeIsOld
  BY DEF Init, KnowledgeIsOld, NoNeighbours, Unknown
<1> QED
  BY <1>1, <1>2, <1>3, <1>4, <1>5, TypeParts DEF IInv, CatalogueInv

\* Every step keeps the inductive invariant.
LEMMA NextIInv == IInv /\ [Next]_vars => IInv'
<1> SUFFICES ASSUME IInv, [Next]_vars PROVE IInv'
  OBVIOUS
<1>1. CASE UNCHANGED vars
  <2> USE <1>1 DEF vars, catalogueVars, threadVars, connVars, auxVars
  <2>1. TypeOK'
    BY DEF IInv, TypeOK, CatalogueTypeOK
  <2>2. CatalogueInv'
    BY DEF IInv, CatalogueInv, CatalogueTypeOK, QueueBounded, QueueImpliesRecord
  <2>3. ASSUME NEW c \in Clients PROVE ConnInv(c)' /\ AnswerInv(c)'
    BY DEF IInv, ConnInv, Fresh, AnswerInv
  <2>4. AsksAnother' /\ KnowledgeIsOld'
    BY DEF IInv, AsksAnother, KnowledgeIsOld
  <2> QED
    BY <2>1, <2>2, <2>3, <2>4 DEF IInv
<1>2. ASSUME NEW c \in Clients,
             Start(c) \/ Crash(c) \/ MainThread(c) \/ Accept(c) \/ OtherEnd(c)
      PROVE  IInv'
  <2>1. ClientTypes' /\ CatalogueInv'
    BY <1>2, StartTypes, CrashTypes, ThreadTypes, OtherEndTypes
  <2>2. ASSUME NEW d \in Clients PROVE ConnInv(d)' /\ AnswerInv(d)'
    BY <1>2, <2>1, OwnConn, OtherConn, AnswersAreOld
  <2>3. ASSUME NEW d \in Clients, NEW p \in Clients PROVE NoteInv(d, p)'
    BY <1>2, <2>1, NotesAreOld
  <2>4. KnowledgeIsOld'
    BY <2>3 DEF KnowledgeIsOld, NoteInv
  <2>5. AsksAnother'
    BY <1>2, <2>1, <2>3, SourceIsAnother DEF AsksAnother, NoteInv
  <2> QED
    BY <2>1, <2>2, <2>4, <2>5, TypePartsNext DEF IInv, CatalogueInv
<1> QED
  BY <1>1, <1>2 DEF Next

\* The inductive invariant holds in every reachable state.
THEOREM Invariance == Spec => []IInv
BY InitIInv, NextIInv, PTL DEF Spec

\* The variables of the protocol keep their types; in particular a level
\* never passes the server's, whatever crashes and stale answers occur.
THEOREM TypeCorrect == Spec => []TypeOK
<1>1. IInv => TypeOK
  BY DEF IInv
<1> QED
  BY <1>1, Invariance, PTL

\* insertNeiIP, by both threads: a level noted for a neighbour is one it has
\* had, in this life or an earlier one, or the assumed one.
THEOREM NotedLevelsAreOld == Spec => []KnowledgeIsOld
<1>1. IInv => KnowledgeIsOld
  BY DEF IInv
<1> QED
  BY <1>1, Invariance, PTL

\* findNeiIP, processMessage: a client never asks itself for the update, and
\* never holds a note on itself.
THEOREM NeverAsksItself == Spec => []AsksAnother
<1>1. IInv => AsksAnother
  BY DEF IInv
<1> QED
  BY <1>1, Invariance, PTL

\* insertUser, with the registrations the clients really make: the queue of a
\* prefix stays within its limit, and a prefix that has a queue has a record.
THEOREM CatalogueKept == Spec => [](QueueBounded /\ QueueImpliesRecord)
<1>1. IInv => QueueBounded /\ QueueImpliesRecord
  BY DEF IInv, CatalogueInv
<1> QED
  BY <1>1, Invariance, PTL
=============================================================================
