-------------------------- MODULE P2PServerProofs --------------------------
(***************************************************************************)
(* Theorems about the directory server and its catalogue: what erase and   *)
(* insert do to the members of the set whatever the shape of its tree,     *)
(* what insertUser keeps, and what follows for the server, for any number  *)
(* of prefixes, of clients of a prefix, and any limit on the queues.       *)
(* UpdateProofs uses the lemmas about the catalogue.                       *)
(***************************************************************************)
EXTENDS P2PServer, WellFoundedInduction, TLAPS

-----------------------------------------------------------------------------
(* The set with the comparison "differs from". *)

\* The address is not among the members.
Absent(order, ip) == \A i \in 1..Len(order) : order[i].userIP # ip

\* No address occurs twice.
Distinct(order) == \A i, j \in 1..Len(order) : order[i].userIP = order[j].userIP => i = j

\* A set of naturals has a least element.
LEMMA LeastElement ==
    ASSUME NEW S, S \subseteq Nat, S # {}
    PROVE  \E a \in S : \A b \in S : a <= b
<1>1. PICK a \in S : \A b \in S : ~(<<b, a>> \in OpToRel(<, Nat))
  <2> DEFINE R == OpToRel(<, Nat)
  <2>1. IsWellFoundedOn(R, Nat)
    BY NatLessThanWellFounded
  <2> HIDE DEF R
  <2>2. \E a \in S : \A b \in S : ~(<<b, a>> \in R)
    BY <2>1, WFMin, Zenon
  <2> QED
    BY <2>2 DEF R
<1>2. \A b \in S : ~(b < a)
  BY <1>1 DEF OpToRel
<1> QED
  BY <1>2

\* Min of a set of positions.
LEMMA MinProperties ==
    ASSUME NEW n \in Nat, NEW S \in SUBSET (1..n), S # {}
    PROVE  Min(S) \in S /\ \A a \in S : Min(S) <= a
<1>1. S \subseteq Nat
  OBVIOUS
<1>2. PICK a \in S : \A b \in S : a <= b
  BY <1>1, LeastElement
<1> QED
  BY <1>2 DEF Min

\* Max of a set of positions.
LEMMA MaxProperties ==
    ASSUME NEW n \in Nat, NEW S \in SUBSET (1..n), S # {}
    PROVE  Max(S) \in S /\ \A a \in S : Max(S) >= a
<1> DEFINE M == {n - a : a \in S}
<1>1. M \subseteq Nat /\ M # {}
  <2>1. \A a \in S : a \in 1..n /\ n - a \in Nat
    OBVIOUS
  <2> QED
    BY <2>1
<1>2. PICK m \in M : \A b \in M : m <= b
  BY <1>1, LeastElement
<1>3. PICK a \in S : m = n - a
  BY <1>2
<1>4. \A b \in S : a >= b
  <2> TAKE b \in S
  <2>1. n - a <= n - b
    BY <1>2, <1>3
  <2> QED
    BY <2>1
<1> QED
  BY <1>4 DEF Max

\* The records of an address.
LEMMA RecordsProperties ==
    ASSUME NEW uset, uset.order \in Seq(UserInfo), NEW ip
    PROVE  /\ Len(uset.order) \in Nat
           /\ Records(uset, ip) \in SUBSET (1..Len(uset.order))
           /\ \A i \in 1..Len(uset.order) : uset.order[i].userIP = ip <=> i \in Records(uset, ip)
BY DEF Records

\* equal_range, in whatever tree: both ends are records of the address.
LEMMA ErasedRange ==
    ASSUME NEW uset, uset.order \in Seq(UserInfo), NEW ip, Erasable(uset, ip)
    PROVE  LET i == FirstEqual(uset.tree, Records(uset, ip))
               j == LastEqual(uset.tree, Records(uset, ip))
           IN  i \in Records(uset, ip) /\ j \in Records(uset, ip) /\ i <= j
<1> DEFINE E == Records(uset, ip)
           n == Len(uset.order)
           S == MetBySearch(uset.tree, E)
           m == Min(S)
           L == {m} \cup MetBeyond(uset.tree, E, m, TRUE)
           R == {m} \cup MetBeyond(uset.tree, E, m, FALSE)
<1>1. n \in Nat /\ E \in SUBSET (1..n)
  BY RecordsProperties
<1>2. S \subseteq E /\ S # {}
  BY DEF MetBySearch, Erasable
<1>3. m \in S
  BY <1>1, <1>2, MinProperties
<1>4. L \subseteq E /\ R \subseteq E /\ m \in L /\ m \in R
  BY <1>2, <1>3 DEF MetBeyond
<1>5. Min(L) \in L /\ Min(L) <= m
  <2> HIDE DEF L, E, n
  <2> QED
    BY <1>1, <1>4, MinProperties
<1>6. Max(R) \in R /\ Max(R) >= m
  <2> HIDE DEF R, E, n
  <2> QED
    BY <1>1, <1>4, MaxProperties
<1>7. FirstEqual(uset.tree, E) = Min(L) /\ LastEqual(uset.tree, E) = Max(R)
  BY DEF FirstEqual, LastEqual
<1>8. Min(L) \in E /\ Max(R) \in E /\ Min(L) <= Max(R)
  <2> HIDE DEF L, R, E, n
  <2>1. Min(L) \in 1..n /\ Max(R) \in 1..n /\ m \in 1..n
    BY <1>1, <1>2, <1>3, <1>4, <1>5, <1>6
  <2> QED
    BY <1>1, <1>4, <1>5, <1>6, <2>1
<1> HIDE DEF L, R
<1> QED
  BY <1>7, <1>8

\* What is left after some elements are taken out.
LEMMA WithoutProperties ==
    ASSUME NEW order \in Seq(UserInfo),
           NEW i \in 1..Len(order), NEW j \in 1..Len(order), i <= j
    PROVE  /\ Without(order, i, j) \in Seq(UserInfo)
           /\ Len(Without(order, i, j)) = Len(order) - (j - i + 1)
           /\ \A k \in 1..(Len(order) - (j - i + 1)) :
                 Without(order, i, j)[k] = IF k < i THEN order[k] ELSE order[k + (j - i + 1)]
<1> DEFINE n == Len(order)
           d == j - i + 1
<1>1. n \in Nat /\ i \in 1..n /\ j \in 1..n /\ d \in Nat /\ n - d \in Nat
  OBVIOUS
<1>2. \A k \in 1..(n - d) : k \in 1..n /\ (~(k < i) => k + d \in 1..n)
  <2> HIDE DEF n
  <2> QED
    BY <1>1
<1> HIDE DEF n, d
<1>3. Without(order, i, j) = [k \in 1..(n - d) |-> IF k < i THEN order[k] ELSE order[k + d]]
  BY DEF Without, n, d
<1>4. \A k \in 1..n : order[k] \in UserInfo
  BY DEF n
<1>5. \A k \in 1..(n - d) : (IF k < i THEN order[k] ELSE order[k + d]) \in UserInfo
  BY <1>2, <1>4
<1>6. /\ Without(order, i, j) \in Seq(UserInfo)
      /\ Len(Without(order, i, j)) = n - d
      /\ \A k \in 1..(n - d) :
            Without(order, i, j)[k] = IF k < i THEN order[k] ELSE order[k + d]
  BY <1>1, <1>3, <1>5
<1> QED
  BY <1>6 DEF n, d

\* erase keeps the set's type.
LEMMA EraseProperties ==
    ASSUME NEW uset, uset.order \in Seq(UserInfo), NEW ip
    PROVE  Erase(uset, ip).order \in Seq(UserInfo)
<1>1. CASE ~Erasable(uset, ip)
  BY <1>1 DEF Erase
<1>2. CASE Erasable(uset, ip)
  <2> DEFINE i == FirstEqual(uset.tree, Records(uset, ip))
             j == LastEqual(uset.tree, Records(uset, ip))
  <2>1. i \in 1..Len(uset.order) /\ j \in 1..Len(uset.order) /\ i <= j
    BY <1>2, ErasedRange, RecordsProperties
  <2>2. Erase(uset, ip).order = Without(uset.order, i, j)
    BY <1>2 DEF Erase
  <2> HIDE DEF i, j
  <2> QED
    BY <2>1, <2>2, WithoutProperties
<1> QED
  BY <1>1, <1>2

\* erase removes no other client from a set in which no client is twice.
LEMMA EraseKeepsOthers ==
    ASSUME NEW uset, uset.order \in Seq(UserInfo), Distinct(uset.order),
           NEW ip, NEW q, q # ip, ~Absent(uset.order, q)
    PROVE  ~Absent(Erase(uset, ip).order, q)
<1>1. CASE ~Erasable(uset, ip)
  BY <1>1 DEF Erase
<1>2. CASE Erasable(uset, ip)
  <2> DEFINE order == uset.order
             n == Len(order)
             i == FirstEqual(uset.tree, Records(uset, ip))
             j == LastEqual(uset.tree, Records(uset, ip))
  <2>1. i \in 1..n /\ j \in 1..n /\ order[i].userIP = ip /\ order[j].userIP = ip
    BY <1>2, ErasedRange, RecordsProperties
  <2>2. Erase(uset, ip).order = Without(order, i, j)
    BY <1>2 DEF Erase
  <2>3. order \in Seq(UserInfo) /\ n \in Nat
    OBVIOUS
  <2>4. PICK k \in 1..n : order[k].userIP = q
    BY DEF Absent
  <2> HIDE DEF i, j
  <2>5. i = j /\ k # i
    BY <2>1, <2>4 DEF Distinct
  <2> HIDE DEF order
  <2>6. /\ Len(Without(order, i, i)) = n - (i - i + 1)
        /\ \A l \in 1..(n - (i - i + 1)) :
              Without(order, i, i)[l] = IF l < i THEN order[l] ELSE order[l + (i - i + 1)]
    BY <2>1, <2>3, WithoutProperties
  <2> HIDE DEF n
  <2>7. i - i + 1 = 1
    BY <2>1
  <2>8. PICK l \in 1..(n - 1) : Without(order, i, i)[l] = order[k]
    <3>1. CASE k < i
      <4>1. k \in 1..(n - 1)
        BY <2>1, <2>3, <3>1
      <4> QED
        BY <2>6, <2>7, <3>1, <4>1
    <3>2. CASE ~(k < i)
      <4>1. k - 1 \in 1..(n - 1) /\ ~(k - 1 < i) /\ (k - 1) + 1 = k
        BY <2>1, <2>3, <2>5, <3>2
      <4> QED
        BY <2>6, <2>7, <4>1
    <3> QED
      BY <3>1, <3>2
  <2> QED
    BY <2>2, <2>4, <2>5, <2>6, <2>7, <2>8 DEF Absent
<1> QED
  BY <1>1, <1>2

\* insert keeps the type, removes no client, and its own is a member afterwards.
LEMMA InsertProperties ==
    ASSUME NEW uset, uset.order \in Seq(UserInfo), NEW usr \in UserInfo
    PROVE  /\ Insert(uset, usr).order \in Seq(UserInfo)
           /\ Insert(uset, usr).order # <<>>
           /\ ~Absent(Insert(uset, usr).order, usr.userIP)
           /\ \A q : ~Absent(uset.order, q) => ~Absent(Insert(uset, usr).order, q)
<1> DEFINE order == uset.order
           met == MetByInsert(uset.tree, Records(uset, usr.userIP))
<1>1. CASE met
  <2>1. Insert(uset, usr).order = order
    BY <1>1 DEF Insert
  <2>2. PICK i \in 1..Len(order) : order[i].userIP = usr.userIP
    BY <1>1, RecordsProperties DEF MetByInsert
  <2>3. order # <<>>
    BY <2>2
  <2> QED
    BY <2>1, <2>2, <2>3 DEF Absent
<1>2. CASE ~met
  <2> DEFINE new == <<usr>> \o order
  <2>1. Insert(uset, usr).order = new
    BY <1>2 DEF Insert
  <2>2. /\ new \in Seq(UserInfo) /\ Len(new) = Len(order) + 1 /\ new[1] = usr
        /\ \A i \in 1..Len(order) : new[i + 1] = order[i]
    OBVIOUS
  <2> HIDE DEF new
  <2>3. new # <<>> /\ 1 \in 1..Len(new) /\ \A i \in 1..Len(order) : i + 1 \in 1..Len(new)
    BY <2>2
  <2> QED
    BY <2>1, <2>2, <2>3 DEF Absent
<1> QED
  BY <1>1, <1>2
-----------------------------------------------------------------------------
(* The catalogue. *)

\* The inductive invariant of the catalogue.
CatalogueInv == CatalogueTypeOK /\ QueueBounded /\ QueueImpliesRecord

\* The constructor, which records the server itself, establishes it.
LEMMA InitCatalogue == CatalogueInit => CatalogueInv
<1> SUFFICES ASSUME CatalogueInit PROVE CatalogueInv
  OBVIOUS
<1> DEFINE usr == [userIP |-> Server, userFile |-> ServerFile]
           first == Insert(NoUsers, usr)
           p == processIP(Server)
<1>1. usr \in UserInfo /\ Server \in Users /\ p \in Prefixes
  BY UserAssumption DEF UserInfo, processIP
<1>2. NoUsers.order = <<>> /\ NoUsers.order \in Seq(UserInfo)
  BY DEF NoUsers
<1>3. first.order \in Seq(UserInfo) /\ first.order # <<>>
  BY <1>1, <1>2, InsertProperties
<1>4. /\ users = [[q \in Prefixes |-> NoUsers] EXCEPT ![p] = first]
      /\ userQue = [[q \in Prefixes |-> <<>>] EXCEPT ![p] = <<Server>>]
      /\ working = {Server} /\ leaked = 0
  BY DEF CatalogueInit
<1> HIDE DEF usr, first, p
<1>5. \A q \in Prefixes : \/ users[q] = first /\ userQue[q] = <<Server>>
                          \/ users[q] = NoUsers /\ userQue[q] = <<>>
  BY <1>1, <1>4
<1>6. CatalogueTypeOK
  <2>1. DOMAIN users = Prefixes /\ \A q \in Prefixes : users[q].order \in Seq(UserInfo)
    BY <1>2, <1>3, <1>4, <1>5
  <2>2. userQue \in [Prefixes -> Seq(Users)]
    <3>1. <<Server>> \in Seq(Users) /\ <<>> \in Seq(Users)
      BY <1>1
    <3>2. userQue = [q \in Prefixes |-> IF q = p THEN <<Server>> ELSE <<>>]
      BY <1>4
    <3> QED
      BY <3>1, <3>2
  <2> QED
    BY <1>1, <1>4, <2>1, <2>2 DEF CatalogueTypeOK
<1>7. QueueBounded
  <2> SUFFICES ASSUME NEW q \in Prefixes PROVE Len(userQue[q]) <= kMaxCacheUsers
    BY DEF QueueBounded
  <2>1. Len(<<Server>>) <= kMaxCacheUsers /\ Len(<<>>) <= kMaxCacheUsers
    BY <1>1, UserAssumption
  <2> QED
    BY <1>5, <2>1
<1>8. QueueImpliesRecord
  BY <1>3, <1>5 DEF QueueImpliesRecord
<1> QED
  BY <1>6, <1>7, <1>8 DEF CatalogueInv

\* insertUser changes one prefix: its queue stays within the limit, its set is
\* not empty, and it keeps every working client, if the probe had a socket and
\* no client was recorded twice.
LEMMA InsertUserEffect ==
    ASSUME CatalogueInv, NEW ip \in Users, NEW file \in Files, NEW n \in Nat,
           insertUser(ip, file, n)
    PROVE  LET p == processIP(ip)
           IN  /\ \E q \in Seq(Users) : userQue' = [userQue EXCEPT ![p] = q] /\ Len(q) <= kMaxCacheUsers
               /\ DOMAIN users' = Prefixes
               /\ \A r \in Prefixes : r # p => users'[r] = users[r]
               /\ users'[p].order \in Seq(UserInfo) /\ users'[p].order # <<>>
               /\ CanProbe(n) /\ RecordedOnce(p) =>
                     \A old \in Users : ~Absent(users[p].order, old) /\ old \in working
                                           => ~Absent(users'[p].order, old)
<1> DEFINE p == processIP(ip)
           usr == [userIP |-> ip, userFile |-> file]
           full == ~Erasable(users[p], ip) /\ kMaxCacheUsers <= Len(userQue[p])
<1>0. /\ p \in Prefixes /\ usr \in UserInfo /\ usr.userIP = ip
      /\ users[p].order \in Seq(UserInfo) /\ userQue[p] \in Seq(Users)
      /\ DOMAIN users = Prefixes /\ userQue \in [Prefixes -> Seq(Users)]
      /\ kMaxCacheUsers \in Nat \ {0}
  BY UserAssumption DEF processIP, UserInfo, CatalogueInv, CatalogueTypeOK
<1>1. Len(userQue[p]) <= kMaxCacheUsers
  BY <1>0 DEF CatalogueInv, QueueBounded
<1>2. \/ ~full /\ Record(ip, usr)
      \/ full /\ isClientWorking(Head(userQue[p]), n) /\ KeepFront(p)
      \/ full /\ ~isClientWorking(Head(userQue[p]), n) /\ ReplaceFront(ip, usr)
  BY DEF insertUser
<1>3. RecordedOnce(p) => Distinct(users[p].order)
  BY DEF RecordedOnce, Distinct
<1> HIDE DEF p, usr, full
<1>4. CASE ~full /\ Record(ip, usr)
  <2> DEFINE q == IF Erasable(users[p], ip) THEN userQue[p] ELSE Append(userQue[p], ip)
             rest == Erase(users[p], ip)
             uset == Insert(rest, usr)
  <2>1. q \in Seq(Users) /\ Len(q) <= kMaxCacheUsers
    BY <1>0, <1>1, <1>4 DEF full
  <2>2. userQue' = [userQue EXCEPT ![p] = q] /\ users' = [users EXCEPT ![p] = uset]
    BY <1>0, <1>4 DEF Record, p
  <2>3. rest.order \in Seq(UserInfo)
    BY <1>0, EraseProperties
  <2> HIDE DEF rest
  <2>4. uset.order \in Seq(UserInfo) /\ uset.order # <<>>
    BY <1>0, <2>3, InsertProperties
  <2>5. ASSUME NEW old \in Users, RecordedOnce(p), ~Absent(users[p].order, old)
        PROVE  ~Absent(uset.order, old)
    <3>1. CASE old = ip
      BY <1>0, <2>3, <3>1, InsertProperties
    <3>2. CASE old # ip
      <4>1. ~Absent(rest.order, old)
        BY <1>0, <1>3, <2>5, <3>2, EraseKeepsOthers DEF rest
      <4> QED
        BY <1>0, <2>3, <4>1, InsertProperties
    <3> QED
      BY <3>1, <3>2
  <2> HIDE DEF q, uset
  <2> QED
    BY <1>0, <2>1, <2>2, <2>4, <2>5 DEF p
<1>5. CASE full /\ isClientWorking(Head(userQue[p]), n) /\ KeepFront(p)
  <2> DEFINE q == Append(Tail(userQue[p]), Head(userQue[p]))
  <2>1. userQue[p] # <<>>
    BY <1>0, <1>5 DEF full
  <2>2. q \in Seq(Users) /\ Len(q) = Len(userQue[p])
    BY <1>0, <2>1
  <2>3. userQue' = [userQue EXCEPT ![p] = q] /\ users' = users
    BY <1>0, <1>5 DEF KeepFront
  <2>4. users[p].order # <<>>
    BY <1>0, <2>1 DEF CatalogueInv, QueueImpliesRecord
  <2> HIDE DEF q
  <2> QED
    BY <1>0, <1>1, <2>2, <2>3, <2>4 DEF p
<1>6. CASE full /\ ~isClientWorking(Head(userQue[p]), n) /\ ReplaceFront(ip, usr)
  <2> DEFINE q == Append(Tail(userQue[p]), ip)
             front == Head(userQue[p])
             rest == Erase(users[p], front)
             uset == Insert(rest, usr)
  <2>1. userQue[p] # <<>>
    BY <1>0, <1>6 DEF full
  <2>2. q \in Seq(Users) /\ Len(q) = Len(userQue[p]) /\ front \in Users
    BY <1>0, <2>1
  <2>3. userQue' = [userQue EXCEPT ![p] = q] /\ users' = [users EXCEPT ![p] = uset]
    BY <1>0, <1>6 DEF ReplaceFront, p
  <2>4. rest.order \in Seq(UserInfo)
    BY <1>0, EraseProperties
  <2> HIDE DEF rest, front
  <2>5. uset.order \in Seq(UserInfo) /\ uset.order # <<>>
    BY <1>0, <2>4, InsertProperties
  <2>6. ASSUME NEW old \in Users, RecordedOnce(p), ~Absent(users[p].order, old), old \in working,
               CanProbe(n)
        PROVE  ~Absent(uset.order, old)
    <3>1. old # front
      BY <1>6, <2>6 DEF isClientWorking, front
    <3>2. ~Absent(rest.order, old)
      BY <1>0, <1>3, <2>6, <3>1, EraseKeepsOthers DEF rest
    <3> QED
      BY <1>0, <2>4, <3>2, InsertProperties
  <2> HIDE DEF q, uset
  <2> QED
    BY <1>0, <1>1, <2>2, <2>3, <2>5, <2>6 DEF p
<1> QED
  BY <1>2, <1>4, <1>5, <1>6

\* isClientWorking: a probe leaks at most one socket, and only if there was one.
LEMMA InsertUserLeaks ==
    ASSUME NEW ip \in Users, NEW file \in Files, NEW n \in Nat, insertUser(ip, file, n)
    PROVE  leaked' = leaked \/ (CanProbe(n) /\ leaked' = leaked + 1)
BY DEF insertUser, ProbeLeaks

\* insertUser keeps the catalogue's invariant.
LEMMA InsertUserKeeps ==
    ASSUME CatalogueInv, NEW ip \in Users, NEW file \in Files, NEW n \in Nat,
           insertUser(ip, file, n), working' \subseteq Users
    PROVE  CatalogueInv' /\ users'[processIP(ip)].order # <<>>
<1> DEFINE p == processIP(ip)
<1>0. /\ DOMAIN users' = Prefixes
      /\ \A r \in Prefixes : r # p => users'[r] = users[r]
      /\ users'[p].order \in Seq(UserInfo) /\ users'[p].order # <<>>
  BY InsertUserEffect
<1>1. PICK q \in Seq(Users) : userQue' = [userQue EXCEPT ![p] = q] /\ Len(q) <= kMaxCacheUsers
  BY InsertUserEffect
<1>2. leaked' \in Nat
  BY InsertUserLeaks DEF CatalogueInv, CatalogueTypeOK
<1>3. CatalogueTypeOK'
  BY <1>0, <1>1, <1>2 DEF CatalogueInv, CatalogueTypeOK
<1>4. QueueBounded'
  BY <1>1 DEF CatalogueInv, CatalogueTypeOK, QueueBounded
<1>5. QueueImpliesRecord'
  BY <1>0, <1>1 DEF CatalogueInv, CatalogueTypeOK, QueueImpliesRecord
<1> QED
  BY <1>0, <1>3, <1>4, <1>5 DEF CatalogueInv

\* processMessage, after insertUser: a list of addresses.
LEMMA OffersUsers ==
    ASSUME CatalogueTypeOK', NEW ip \in Users
    PROVE  processMessage(ip)' \in SUBSET Users
<1> DEFINE order == users'[Prefix[ip]].order
<1>1. order \in Seq(UserInfo)
  BY UserAssumption DEF CatalogueTypeOK
<1>2. Cached(processIP(ip))' = {order[i].userIP : i \in 1..Len(order)}
  BY DEF Cached, processIP
<1> HIDE DEF order
<1>3. \A i \in 1..Len(order) : order[i] \in UserInfo
  BY <1>1
<1>4. \A i \in 1..Len(order) : order[i].userIP \in Users
  BY <1>3 DEF UserInfo
<1>5. Cached(processIP(ip))' \subseteq Users
  BY <1>2, <1>4
<1> QED
  BY <1>5, UserAssumption DEF processMessage, processIP
-----------------------------------------------------------------------------
(* The server. *)

\* A message was made from the catalogue as it is, and its client's prefix has
\* a record.
ReplyInv == reply.type = "b" => /\ reply.to \in Users \ {Server}
                                /\ reply.neighbours = processMessage(reply.to)
                                /\ users[processIP(reply.to)].order # <<>>

\* The inductive invariant of the server.
ServerInv == CatalogueInv /\ ServerTypeOK /\ ReplyInv

\* A registration keeps it.
LEMMA RegisterKeeps ==
    ASSUME ServerInv, NEW ip \in Users \ {Server}, NEW file \in Files, NEW conns \in Conns,
           RegisterUser(ip, file, conns)
    PROVE  ServerInv'
<1>0. conns \in Nat /\ conns >= 1 /\ leaked \in Nat /\ leaked < MaxFds /\ MaxFds \in Nat
  BY UserAssumption, ConnsAssumption DEF Conns, ServerInv, ServerTypeOK, CatalogueTypeOK
<1>1. working' \subseteq Users
  BY DEF RegisterUser, ServerInv, CatalogueInv, CatalogueTypeOK
<1>2. CatalogueInv' /\ users'[processIP(ip)].order # <<>>
  BY <1>0, <1>1, InsertUserKeeps DEF RegisterUser, ServerInv
<1>3. leaked' < MaxFds
  <2>1. leaked' = leaked \/ (conns + leaked < MaxFds /\ leaked' = leaked + 1)
    BY <1>0, InsertUserLeaks DEF RegisterUser, CanProbe
  <2> QED
    BY <1>0, <2>1
<1>4. reply' = [type |-> "b", to |-> ip, neighbours |-> processMessage(ip)']
  BY DEF RegisterUser
<1>5. processMessage(ip)' \in SUBSET Users
  BY <1>2, OffersUsers DEF CatalogueInv
<1>6. ServerTypeOK'
  BY <1>2, <1>3, <1>4, <1>5 DEF ServerTypeOK, CatalogueInv
<1>7. ReplyInv'
  BY <1>2, <1>4 DEF ReplyInv, processMessage, hasNeighbor, Cached, processIP
<1> QED
  BY <1>2, <1>6, <1>7 DEF ServerInv

\* Clients that come and go keep it.
LEMMA ClientsKeep ==
    ASSUME ServerInv, NEW ip \in Users \ {Server}, ClientStarts(ip) \/ ClientStops(ip)
    PROVE  ServerInv'
<1>1. working' \subseteq Users
  BY DEF ClientStarts, ClientStops, ServerInv, CatalogueInv, CatalogueTypeOK
<1>2. UNCHANGED <<users, userQue, leaked>> /\ reply' = NoReply
  BY DEF ClientStarts, ClientStops
<1>3. CatalogueInv'
  BY <1>1, <1>2 DEF ServerInv, CatalogueInv, CatalogueTypeOK, QueueBounded, QueueImpliesRecord
<1>4. ServerTypeOK'
  BY <1>2, <1>3 DEF ServerInv, CatalogueInv, ServerTypeOK
<1>5. ReplyInv'
  BY <1>2 DEF ReplyInv, NoReply
<1> QED
  BY <1>3, <1>4, <1>5 DEF ServerInv

\* insertUser: the queue of a prefix stays within its limit, and a prefix that
\* has a queue has a record, which hasNeighbor and getNeighborUsers rely on;
\* with the server's types and the origin of its messages, this holds in every
\* reachable state, whatever the trees of the sets look like.
THEOREM CatalogueCorrect == ServerSpec => []ServerInv
<1>1. ServerInit => ServerInv
  <2> SUFFICES ASSUME ServerInit PROVE ServerInv
    OBVIOUS
  <2>1. CatalogueInv
    BY InitCatalogue DEF ServerInit
  <2>2. ServerTypeOK
    BY <2>1, UserAssumption DEF ServerInit, CatalogueInit, ServerTypeOK, CatalogueInv
  <2>3. ReplyInv
    BY DEF ServerInit, ReplyInv, NoReply
  <2> QED
    BY <2>1, <2>2, <2>3 DEF ServerInv
<1>2. ServerInv /\ [ServerNext]_serverVars => ServerInv'
  <2> SUFFICES ASSUME ServerInv, [ServerNext]_serverVars PROVE ServerInv'
    OBVIOUS
  <2>1. CASE UNCHANGED serverVars
    BY <2>1 DEF ServerInv, CatalogueInv, CatalogueTypeOK, QueueBounded, QueueImpliesRecord,
       ServerTypeOK, ReplyInv, processMessage, hasNeighbor, Cached, processIP,
       serverVars, catalogueVars
  <2> QED
    BY <2>1, RegisterKeeps, ClientsKeep DEF ServerNext
<1> QED
  BY <1>1, <1>2, PTL DEF ServerSpec

\* The server's types, and the limit of its descriptors: the sockets that
\* failed probes leave open never take the last one.
THEOREM ServerTypeCorrect == ServerSpec => []ServerTypeOK
<1>1. ServerInv => ServerTypeOK
  BY DEF ServerInv
<1> QED
  BY <1>1, CatalogueCorrect, PTL

\* insertUser: a queue never outgrows kMaxCacheUsers.
THEOREM QueueStaysBounded == ServerSpec => []QueueBounded
<1>1. ServerInv => QueueBounded
  BY DEF ServerInv, CatalogueInv
<1> QED
  BY <1>1, CatalogueCorrect, PTL

\* isClientWorking, insertUser: a client that accepts connections is never
\* dropped from the cache while a descriptor is left to probe it with and no
\* client of its prefix is recorded twice, however many there are.
THEOREM WorkingStaysCached == ServerSpec => WorkingIsKept
<1>1. ServerInv /\ [ServerNext]_serverVars =>
        [leaked + MaxConns < MaxFds =>
            \A p \in Prefixes : RecordedOnce(p) =>
               (Cached(p) \ Cached(p)') \cap working = {}]_serverVars
  <2> SUFFICES ASSUME CatalogueInv, ServerNext, leaked + MaxConns < MaxFds,
                      NEW p \in Prefixes, RecordedOnce(p),
                      NEW old \in Cached(p), old \in working
               PROVE  old \in Cached(p)'
    BY DEF ServerInv
  <2>0. old \in Users /\ ~Absent(users[p].order, old)
    BY DEF Cached, Absent, CatalogueInv, CatalogueTypeOK, UserInfo
  <2>1. ASSUME NEW ip \in Users, NEW file \in Files, NEW conns \in Conns,
               RegisterUser(ip, file, conns)
        PROVE  ~Absent(users'[p].order, old)
    <3>0. conns \in Nat /\ CanProbe(conns)
      BY UserAssumption, ConnsAssumption DEF Conns, CanProbe, CatalogueInv, CatalogueTypeOK
    <3>1. /\ \A r \in Prefixes : r # processIP(ip) => users'[r] = users[r]
          /\ RecordedOnce(processIP(ip)) =>
                \A u \in Users : ~Absent(users[processIP(ip)].order, u) /\ u \in working
                                    => ~Absent(users'[processIP(ip)].order, u)
      BY <2>1, <3>0, InsertUserEffect DEF RegisterUser
    <3>2. CASE p = processIP(ip)
      BY <2>0, <3>1, <3>2
    <3>3. CASE p # processIP(ip)
      BY <2>0, <3>1, <3>3
    <3> QED
      BY <3>2, <3>3
  <2>2. ASSUME NEW ip \in Users, ClientStarts(ip) \/ ClientStops(ip)
        PROVE  ~Absent(users'[p].order, old)
    BY <2>0, <2>2 DEF ClientStarts, ClientStops
  <2>3. ~Absent(users'[p].order, old)
    BY <2>1, <2>2 DEF ServerNext
  <2> QED
    BY <2>3 DEF Absent, Cached
<1> QED
  BY <1>1, CatalogueCorrect, PTL DEF ServerSpec, WorkingIsKept

\* processMessage: as long as no client is recorded twice, every client that
\* registers is told of an address that is not its own.
THEOREM RegistrantsHaveSource ==
    ServerSpec => []((\A p \in Prefixes : RecordedOnce(p)) => ReplyOffersSource)
<1>1. ServerInv => ((\A p \in Prefixes : RecordedOnce(p)) => ReplyOffersSource)
  <2> SUFFICES ASSUME CatalogueInv, ReplyInv, \A p \in Prefixes : RecordedOnce(p),
                      reply.type = "b"
               PROVE  reply.neighbours \ {reply.to} # {}
    BY DEF ServerInv, ReplyOffersSource
  <2> DEFINE ip == reply.to
             p == processIP(ip)
             order == users[p].order
             n == Len(order)
  <2>1. /\ ip \in Users /\ ip # Server /\ p \in Prefixes
        /\ reply.neighbours = processMessage(ip) /\ order # <<>>
    BY UserAssumption DEF ReplyInv, processIP
  <2>2. order \in Seq(UserInfo) /\ RecordedOnce(p)
    BY <2>1 DEF CatalogueInv, CatalogueTypeOK
  <2>3. CASE n - 1 = 0
    BY <2>1, <2>3 DEF processMessage, hasNeighbor
  <2>4. CASE n - 1 # 0
    <3>1. n \in Nat /\ n # 0
      BY <2>1, <2>2
    <3>2. 1 \in 1..n /\ 2 \in 1..n
      <4> HIDE DEF n
      <4> QED
        BY <2>4, <3>1
    <3>3. order[1].userIP # order[2].userIP
      BY <2>2, <3>2 DEF RecordedOnce
    <3>4. PICK i \in 1..n : order[i].userIP # ip
      BY <3>2, <3>3
    <3>5. order[i].userIP \in Cached(p)
      BY <3>4 DEF Cached
    <3> QED
      BY <2>1, <2>4, <3>4, <3>5 DEF processMessage, hasNeighbor
  <2> QED
    BY <2>3, <2>4
<1> QED
  BY <1>1, CatalogueCorrect, PTL
=============================================================================
