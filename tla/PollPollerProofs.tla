------------------------- MODULE PollPollerProofs -------------------------
(***************************************************************************)
(* Proofs about PollPoller, for any number of channels and descriptors:    *)
(* the asserts of updateChannel and removeChannel hold, and poll() watches *)
(* exactly the channels with an event enabled.                             *)
(***************************************************************************)
EXTENDS PollPoller, SequenceTheorems, TLAPS

EntryType == [fd : Fds \cup {-f - 1 : f \in Fds}, events : Events]

\* The entry a registered channel has in pollfds_.
EntryOf(c) == Entry(IF events_[c] = {} THEN Ignored(fd_[c]) ELSE fd_[c], events_[c])

\* No two channels in use have the same descriptor.
FdsDistinct == \A c, d \in Live : fd_[c] = fd_[d] => c = d

\* Every registered channel has its entry, where it remembers it.
Placed == \A c \in Registered : /\ index_[c] < Len(pollfds_)
                                /\ pollfds_[index_[c] + 1] = EntryOf(c)

\* The map holds the registered channels, under their descriptors.
Mapped == /\ \A c \in Registered : channels_[fd_[c]] = c
          /\ \A f \in Fds : channels_[f] # None => /\ channels_[f] \in Registered
                                                   /\ fd_[channels_[f]] = f

NoStrayEntry == \A i \in 1..Len(pollfds_) : \E c \in Registered : index_[c] = i - 1

\* The inductive invariant.
PollerInv == TypeOK /\ FdsDistinct /\ Placed /\ Mapped /\ NoStrayEntry
-----------------------------------------------------------------------------
(* Entries and descriptors. *)

\* A descriptor and its ignored form are never confused.
LEMMA IgnoredFacts ==
    ASSUME NEW f \in Fds
    PROVE  f \in Nat /\ f >= 0 /\ Ignored(f) < 0 /\ Ignored(f) \in Int /\ Ignored(Ignored(f)) = f
BY PollerAssumption DEF Ignored

\* removeChannel finds the channel of an entry, ignored or not.
LEMMA EntryLeadsBack ==
    ASSUME PollerInv, NEW c \in Registered
    PROVE  /\ c \in Live /\ c \in Channels /\ fd_[c] \in Fds /\ index_[c] \in Nat
           /\ index_[c] + 1 \in 1..Len(pollfds_)
           /\ EntryFd(pollfds_[index_[c] + 1]) = fd_[c]
           /\ channels_[EntryFd(pollfds_[index_[c] + 1])] = c
<1>1. c \in Live /\ c \in Channels /\ fd_[c] \in Fds /\ index_[c] \in Nat
  BY DEF PollerInv, TypeOK, Registered, Live
<1>2. index_[c] < Len(pollfds_) /\ pollfds_[index_[c] + 1] = EntryOf(c) /\ Len(pollfds_) \in Nat
  BY DEF PollerInv, Placed, TypeOK
<1>3. EntryFd(EntryOf(c)) = fd_[c]
  BY <1>1, IgnoredFacts DEF EntryFd, EntryOf, Entry
<1> QED
  BY <1>1, <1>2, <1>3 DEF PollerInv, Mapped

\* Two registered channels have two places.
LEMMA IndexDistinct ==
    ASSUME PollerInv, NEW c \in Registered, NEW d \in Registered, index_[c] = index_[d]
    PROVE  c = d
BY EntryLeadsBack

\* The entry of a channel has the type of the array.
LEMMA EntryOfType ==
    ASSUME NEW f \in Fds, NEW ev \in Events
    PROVE  Entry(f, ev) \in EntryType /\ Entry(Ignored(f), ev) \in EntryType
BY DEF Entry, EntryType, Ignored

\* What removeChannel leaves of the array.
LEMMA RemovedEntries ==
    ASSUME NEW S, NEW s \in Seq(S), NEW i \in 1..Len(s)
    PROVE  LET n == Len(s)
               r == SubSeq([s EXCEPT ![i] = s[n]], 1, n - 1)
           IN  /\ r \in Seq(S) /\ Len(r) = n - 1
               /\ \A j \in 1..(n - 1) : r[j] = IF j = i THEN s[n] ELSE s[j]
<1> DEFINE n == Len(s)
           t == [s EXCEPT ![i] = s[n]]
<1>1. n \in Nat /\ n >= 1 /\ s[n] \in S /\ \A j \in 1..n : s[j] \in S
  BY ElementOfSeq
<1>2. \A j \in 1..(n - 1) : t[j] = (IF j = i THEN s[n] ELSE s[j]) /\ t[j] \in S
  BY <1>1
<1> HIDE DEF t, n
<1>3. 1 \in Int /\ n - 1 \in Int /\ \A j \in 1..(n - 1) : t[j] \in S
  BY <1>1, <1>2
<1>4. /\ SubSeq(t, 1, n - 1) \in Seq(S)
      /\ Len(SubSeq(t, 1, n - 1)) = IF 1 <= n - 1 THEN n - 1 - 1 + 1 ELSE 0
      /\ \A j \in 1..(n - 1 - 1 + 1) : SubSeq(t, 1, n - 1)[j] = t[1 + j - 1]
  BY <1>3, SubSeqProperties
<1>5. Len(SubSeq(t, 1, n - 1)) = n - 1
  BY <1>1, <1>4
<1>6. \A j \in 1..(n - 1) : SubSeq(t, 1, n - 1)[j] = IF j = i THEN s[n] ELSE s[j]
  BY <1>1, <1>2, <1>4
<1> QED
  BY <1>4, <1>5, <1>6 DEF t, n
-----------------------------------------------------------------------------
(* Each step preserves the invariant. *)

\* An empty poller satisfies the invariant.
LEMMA InitPoller == Init => PollerInv
<1> SUFFICES ASSUME Init PROVE PollerInv
  OBVIOUS
<1>1. pollfds_ = <<>> /\ pollfds_ \in Seq([fd : Fds \cup {-f - 1 : f \in Fds}, events : Events])
      /\ Len(pollfds_) = 0
  BY EmptySeq DEF Init
<1>2. Live = {} /\ Registered = {}
  BY DEF Init, Live, Registered
<1>3. TypeOK
  BY <1>1 DEF Init, TypeOK, Events
<1> QED
  BY <1>1, <1>2, <1>3 DEF Init, PollerInv, FdsDistinct, Placed, Mapped, NoStrayEntry

\* A new channel, not yet registered.
LEMMA CreatePoller ==
    ASSUME PollerInv, NEW c \in Channels, NEW f \in Fds, NEW kind \in {"conn", "connector"},
           Create(c, f, kind)
    PROVE  PollerInv'
<1> USE DEF PollerInv
<1>1. /\ c \notin Live /\ \A d \in Live : fd_[d] # f
      /\ owner' = [owner EXCEPT ![c] = kind] /\ fd_' = [fd_ EXCEPT ![c] = f]
      /\ index_' = [index_ EXCEPT ![c] = -1] /\ events_' = [events_ EXCEPT ![c] = {}]
      /\ pollfds_' = pollfds_ /\ channels_' = channels_
  BY DEF Create
<1>2. TypeOK'
  BY <1>1 DEF TypeOK, Events
<1>3. Live' = Live \cup {c}
  BY <1>1 DEF Live, TypeOK
<1>4. Registered' = Registered
  BY <1>1, <1>3 DEF Registered, Live, TypeOK
<1>5. \A d \in Registered : /\ d # c /\ d \in Channels /\ d \in Live /\ fd_'[d] = fd_[d]
                            /\ index_'[d] = index_[d] /\ events_'[d] = events_[d]
  BY <1>1 DEF Registered, Live, TypeOK
<1>6. FdsDistinct'
  BY <1>1, <1>3 DEF FdsDistinct, Live, TypeOK
<1>7. Placed'
  BY <1>1, <1>4, <1>5 DEF Placed, EntryOf, Entry
<1>8. Mapped'
  BY <1>1, <1>4, <1>5 DEF Mapped
<1>9. NoStrayEntry'
  BY <1>1, <1>4, <1>5 DEF NoStrayEntry
<1> QED
  BY <1>2, <1>6, <1>7, <1>8, <1>9

\* updateChannel, a new one.
LEMMA StartPoller ==
    ASSUME PollerInv, NEW c \in Channels, Start(c)
    PROVE  PollerInv'
<1> DEFINE ev == IF owner[c] = "conn" THEN {"read"} ELSE {"write"}
<1> USE DEF PollerInv
<1>1. /\ c \in Live /\ index_[c] < 0 /\ ev \in Events /\ ev # {} /\ fd_[c] \in Fds
      /\ Len(pollfds_) \in Nat /\ index_ \in [Channels -> Int]
  BY DEF Start, TypeOK, Events
<1>2. /\ pollfds_' = Append(pollfds_, Entry(fd_[c], ev))
      /\ index_' = [index_ EXCEPT ![c] = Len(pollfds_)]
      /\ channels_' = [channels_ EXCEPT ![fd_[c]] = c]
      /\ events_' = [events_ EXCEPT ![c] = ev]
      /\ fd_' = fd_ /\ owner' = owner
  BY DEF Start, AddChannel
<1> HIDE DEF ev
<1>3. Entry(fd_[c], ev) \in EntryType /\ pollfds_ \in Seq(EntryType)
  BY <1>1, EntryOfType DEF TypeOK, EntryType
<1>4. /\ pollfds_' \in Seq(EntryType) /\ Len(pollfds_') = Len(pollfds_) + 1
      /\ \A i \in 1..Len(pollfds_) : pollfds_'[i] = pollfds_[i]
      /\ pollfds_'[Len(pollfds_) + 1] = Entry(fd_[c], ev)
  BY <1>2, <1>3, AppendProperties
<1>5. TypeOK'
  BY <1>1, <1>2, <1>4 DEF TypeOK, EntryType
<1>6. Live' = Live
  BY <1>2 DEF Live
<1>7. Registered' = Registered \cup {c} /\ c \notin Registered
  BY <1>1, <1>2, <1>6 DEF Registered, Live
<1>8. \A d \in Registered : /\ d # c /\ d \in Channels /\ d \in Live /\ fd_[d] \in Fds
                            /\ index_'[d] = index_[d] /\ events_'[d] = events_[d]
                            /\ fd_[d] # fd_[c]
  BY <1>1, <1>2, <1>7 DEF Registered, Live, FdsDistinct, TypeOK
<1>9. FdsDistinct'
  BY <1>2, <1>6 DEF FdsDistinct
<1>10. index_'[c] = Len(pollfds_) /\ events_'[c] = ev
  BY <1>1, <1>2 DEF TypeOK
<1>11. Placed'
  <2> SUFFICES ASSUME NEW d \in Registered'
               PROVE  index_'[d] < Len(pollfds_') /\ pollfds_'[index_'[d] + 1] = EntryOf(d)'
    BY DEF Placed
  <2>1. CASE d = c
    BY <1>1, <1>2, <1>4, <1>10, <2>1 DEF EntryOf
  <2>2. CASE d \in Registered
    <3>1. index_[d] + 1 \in 1..Len(pollfds_) /\ index_[d] < Len(pollfds_) /\ index_[d] \in Nat
      BY <2>2, EntryLeadsBack DEF Placed
    <3>2. pollfds_'[index_[d] + 1] = EntryOf(d)
      BY <1>4, <2>2, <3>1 DEF Placed
    <3>3. EntryOf(d)' = EntryOf(d)
      BY <1>2, <1>8, <2>2 DEF EntryOf, Entry
    <3> QED
      BY <1>1, <1>4, <1>8, <2>2, <3>1, <3>2, <3>3
  <2> QED
    BY <1>7, <2>1, <2>2
<1>12. Mapped'
  BY <1>1, <1>2, <1>7, <1>8 DEF Mapped, TypeOK
<1>13. NoStrayEntry'
  BY <1>1, <1>4, <1>7, <1>8, <1>10 DEF NoStrayEntry
<1> QED
  BY <1>5, <1>9, <1>11, <1>12, <1>13

\* updateChannel, an existing one.
LEMMA UpdatePoller ==
    ASSUME PollerInv, NEW c \in Registered, NEW ev \in Events, ev = {} \/ events_[c] # {},
           UpdateChannel(c, ev), UNCHANGED <<fd_, owner>>
    PROVE  PollerInv'
<1> DEFINE k == index_[c] + 1
           new == Entry(IF ev = {} THEN Ignored(fd_[c]) ELSE fd_[c], ev)
<1> USE DEF PollerInv
<1>1. /\ c \in Channels /\ fd_[c] \in Fds /\ k \in 1..Len(pollfds_) /\ Len(pollfds_) \in Nat
      /\ pollfds_ \in Seq(EntryType) /\ pollfds_[k] = EntryOf(c)
  BY EntryLeadsBack DEF TypeOK, EntryType, Placed
<1>2. /\ pollfds_' = [pollfds_ EXCEPT ![k] = new]
      /\ events_' = [events_ EXCEPT ![c] = ev]
      /\ index_' = index_ /\ channels_' = channels_ /\ fd_' = fd_ /\ owner' = owner
  <2>1. ev # {} => pollfds_[k].fd = fd_[c]
    BY <1>1 DEF EntryOf, Entry
  <2>2. pollfds_' = [pollfds_ EXCEPT ![k] =
                       Entry(IF ev = {} THEN Ignored(fd_[c]) ELSE pollfds_[k].fd, ev)]
    BY DEF UpdateChannel
  <2>3. Entry(IF ev = {} THEN Ignored(fd_[c]) ELSE pollfds_[k].fd, ev) = new
    BY <2>1
  <2> QED
    BY <2>2, <2>3 DEF UpdateChannel
<1>3. new \in EntryType
  BY <1>1, EntryOfType
<1> HIDE DEF k, new
<1>4. pollfds_' \in Seq(EntryType) /\ Len(pollfds_') = Len(pollfds_)
      /\ \A i \in 1..Len(pollfds_) : pollfds_'[i] = IF i = k THEN new ELSE pollfds_[i]
  BY <1>1, <1>2, <1>3
<1>5. TypeOK'
  BY <1>1, <1>2, <1>4 DEF TypeOK, EntryType
<1>6. Live' = Live /\ Registered' = Registered
  BY <1>2 DEF Live, Registered
<1>7. Placed'
  <2> SUFFICES ASSUME NEW d \in Registered
               PROVE  index_[d] < Len(pollfds_') /\ pollfds_'[index_[d] + 1] = EntryOf(d)'
    BY <1>2, <1>6 DEF Placed
  <2>1. index_[d] + 1 \in 1..Len(pollfds_) /\ index_[d] \in Nat /\ d \in Channels
        /\ index_[d] < Len(pollfds_) /\ pollfds_[index_[d] + 1] = EntryOf(d)
    BY EntryLeadsBack DEF Placed
  <2>2. CASE d = c
    BY <1>1, <1>2, <1>4, <2>1, <2>2 DEF EntryOf, new, k, TypeOK
  <2>3. CASE d # c
    <3>1. index_[d] # index_[c]
      BY <2>3, IndexDistinct
    <3>2. index_[d] + 1 # k
      BY <1>1, <2>1, <3>1, EntryLeadsBack DEF k
    <3>3. EntryOf(d)' = EntryOf(d)
      BY <1>2, <2>1, <2>3 DEF EntryOf, Entry, TypeOK
    <3> QED
      BY <1>4, <2>1, <3>2, <3>3
  <2> QED
    BY <2>2, <2>3
<1>8. FdsDistinct' /\ Mapped' /\ NoStrayEntry'
  BY <1>2, <1>4, <1>6 DEF FdsDistinct, Mapped, NoStrayEntry
<1> QED
  BY <1>5, <1>7, <1>8

\* removeChannel: the channel whose entry is moved is told so.
LEMMA RemovePoller ==
    ASSUME PollerInv, NEW c \in Channels, Remove(c)
    PROVE  PollerInv'
<1> DEFINE n == Len(pollfds_)
           i == index_[c] + 1
           last == channels_[EntryFd(pollfds_[n])]
<1> USE DEF PollerInv
<1>1. /\ c \in Registered /\ events_[c] = {}
      /\ pollfds_' = SubSeq([pollfds_ EXCEPT ![i] = pollfds_[n]], 1, n - 1)
      /\ channels_' = [channels_ EXCEPT ![fd_[c]] = None]
      /\ index_' = IF i = n THEN index_ ELSE [index_ EXCEPT ![last] = index_[c]]
      /\ owner' = [owner EXCEPT ![c] = "removed"]
      /\ fd_' = fd_ /\ events_' = events_
  BY DEF Remove, RemoveChannel
<1>2. /\ i \in 1..n /\ n \in Nat /\ pollfds_ \in Seq(EntryType) /\ index_[c] \in Nat
      /\ fd_[c] \in Fds /\ c \in Live
  BY <1>1, EntryLeadsBack DEF TypeOK, EntryType
<1>3. PICK e \in Registered : index_[e] = n - 1
  BY <1>2 DEF NoStrayEntry
<1>4. /\ last = e /\ e \in Channels /\ fd_[e] \in Fds /\ e \in Live
      /\ pollfds_[n] = EntryOf(e)
  <2>1. index_[e] + 1 = n
    BY <1>2, <1>3
  <2> QED
    BY <1>3, <2>1, EntryLeadsBack DEF Placed
<1> HIDE DEF n, i, last
<1>5. /\ pollfds_' \in Seq(EntryType) /\ Len(pollfds_') = n - 1
      /\ \A j \in 1..(n - 1) : pollfds_'[j] = IF j = i THEN pollfds_[n] ELSE pollfds_[j]
  BY <1>1, <1>2, RemovedEntries DEF n
<1>6. index_' = IF i = n THEN index_ ELSE [index_ EXCEPT ![e] = index_[c]]
  BY <1>1, <1>4
<1>7. TypeOK'
  BY <1>1, <1>2, <1>5, <1>6 DEF TypeOK, EntryType
<1>8. Live' = Live \ {c}
  BY <1>1 DEF Live, TypeOK
<1>9. (i = n) <=> (e = c)
  BY <1>1, <1>2, <1>3, IndexDistinct DEF i
<1>10. \A d \in Registered \ {c} :
          /\ d \in Channels /\ d \in Live /\ index_[d] \in Nat /\ index_[d] < n /\ fd_[d] \in Fds
          /\ index_[d] # index_[c] /\ fd_[d] # fd_[c]
          /\ pollfds_[index_[d] + 1] = EntryOf(d)
          /\ d # e => index_[d] # n - 1
          /\ index_'[d] = IF d = e THEN index_[c] ELSE index_[d]
  <2> SUFFICES ASSUME NEW d \in Registered, d # c
               PROVE  /\ d \in Channels /\ d \in Live /\ index_[d] \in Nat /\ index_[d] < n
                      /\ fd_[d] \in Fds
                      /\ index_[d] # index_[c] /\ fd_[d] # fd_[c]
                      /\ pollfds_[index_[d] + 1] = EntryOf(d)
                      /\ d # e => index_[d] # n - 1
                      /\ index_'[d] = IF d = e THEN index_[c] ELSE index_[d]
    OBVIOUS
  <2>1. d \in Channels /\ d \in Live /\ index_[d] \in Nat /\ index_[d] < n /\ fd_[d] \in Fds
        /\ pollfds_[index_[d] + 1] = EntryOf(d)
    BY EntryLeadsBack DEF Placed, n
  <2>2. index_[d] # index_[c] /\ (d # e => index_[d] # n - 1)
    BY <1>1, <1>3, IndexDistinct
  <2>3. fd_[d] # fd_[c]
    BY <1>2, <2>1 DEF FdsDistinct
  <2>4. index_'[d] = IF d = e THEN index_[c] ELSE index_[d]
    BY <1>6, <1>9, <2>1 DEF TypeOK
  <2> QED
    BY <2>1, <2>2, <2>3, <2>4
<1>11. Registered' = Registered \ {c}
  <2>1. \A d \in Live \ {c} : d \notin Registered => d # e /\ d \in Channels /\ index_'[d] = index_[d]
    BY <1>3, <1>6 DEF Live, TypeOK
  <2>2. \A d \in Registered \ {c} : index_'[d] >= 0
    BY <1>2, <1>10
  <2> QED
    BY <1>8, <2>1, <2>2 DEF Registered
<1>12. FdsDistinct'
  BY <1>1, <1>8 DEF FdsDistinct
<1>13. Placed'
  <2> SUFFICES ASSUME NEW d \in Registered \ {c}
               PROVE  index_'[d] < n - 1 /\ pollfds_'[index_'[d] + 1] = EntryOf(d)'
    BY <1>5, <1>11 DEF Placed
  <2>1. EntryOf(d)' = EntryOf(d)
    BY <1>1 DEF EntryOf, Entry
  <2>2. CASE d = e
    <3>1. i # n /\ index_'[d] + 1 = i /\ i \in 1..(n - 1)
      BY <1>2, <1>9, <1>10, <2>2 DEF i
    <3> QED
      BY <1>2, <1>4, <1>5, <1>10, <2>1, <2>2, <3>1 DEF i
  <2>3. CASE d # e
    <3>1. index_'[d] = index_[d] /\ index_[d] + 1 \in 1..(n - 1) /\ index_[d] + 1 # i
      BY <1>2, <1>10, <2>3 DEF i
    <3> QED
      BY <1>2, <1>5, <1>10, <2>1, <3>1
  <2> QED
    BY <2>2, <2>3
<1>14. Mapped'
  <2>1. \A d \in Registered \ {c} : channels_'[fd_[d]] = d
    BY <1>1, <1>10 DEF Mapped, TypeOK
  <2>2. \A f \in Fds : channels_'[f] # None => /\ channels_'[f] \in Registered \ {c}
                                               /\ fd_[channels_'[f]] = f
    BY <1>1, <1>2 DEF Mapped, TypeOK
  <2> QED
    BY <1>1, <1>11, <2>1, <2>2 DEF Mapped
<1>15. NoStrayEntry'
  <2> SUFFICES ASSUME NEW j \in 1..(n - 1)
               PROVE  \E d \in Registered \ {c} : index_'[d] = j - 1
    BY <1>5, <1>11 DEF NoStrayEntry
  <2>1. PICK d \in Registered : index_[d] = j - 1
    BY <1>2 DEF NoStrayEntry, n
  <2>2. d # e
    BY <1>2, <1>3, <2>1
  <2>3. CASE d # c
    BY <1>10, <2>1, <2>2, <2>3
  <2>4. CASE d = c
    <3>1. e # c /\ index_'[e] = index_[c]
      BY <1>3, <1>10, <2>2, <2>4
    <3> QED
      BY <1>3, <2>1, <2>4, <3>1
  <2> QED
    BY <2>3, <2>4
<1> QED
  BY <1>7, <1>12, <1>13, <1>14, <1>15

\* Every call of an owner keeps the invariant.
LEMMA NextPoller == PollerInv /\ [Next]_vars => PollerInv'
<1> SUFFICES ASSUME PollerInv, [Next]_vars PROVE PollerInv'
  OBVIOUS
<1>1. ASSUME NEW c \in Channels, NEW f \in Fds, NEW kind \in {"conn", "connector"}, Create(c, f, kind)
      PROVE  PollerInv'
  BY <1>1, CreatePoller
<1>2. ASSUME NEW c \in Channels, Start(c) PROVE PollerInv'
  BY <1>2, StartPoller
<1>3. ASSUME NEW c \in Channels, EnableWriting(c) PROVE PollerInv'
  BY <1>3, UpdatePoller DEF EnableWriting, Events
<1>4. ASSUME NEW c \in Channels, DisableWriting(c) PROVE PollerInv'
  <2>1. events_[c] \ {"write"} \in Events
    BY DEF Events, PollerInv, TypeOK
  <2> QED
    BY <1>4, <2>1, UpdatePoller DEF DisableWriting
<1>5. ASSUME NEW c \in Channels, DisableAll(c) PROVE PollerInv'
  BY <1>5, UpdatePoller DEF DisableAll, Events
<1>6. ASSUME NEW c \in Channels, Remove(c) PROVE PollerInv'
  BY <1>6, RemovePoller
<1>7. CASE UNCHANGED vars
  BY <1>7 DEF vars, PollerInv, TypeOK, FdsDistinct, Placed, Mapped, NoStrayEntry, EntryOf,
              Live, Registered
<1> QED
  BY <1>1, <1>2, <1>3, <1>4, <1>5, <1>6, <1>7 DEF Next
-----------------------------------------------------------------------------
\* The invariant of the poller holds throughout.
LEMMA PollerInvariant == Spec => []PollerInv
BY InitPoller, NextPoller, PTL DEF Spec

\* The poller keeps its types.
THEOREM PollerTypeCorrect == Spec => []TypeOK
<1>1. PollerInv => TypeOK
  BY DEF PollerInv
<1> QED
  BY <1>1, PollerInvariant, PTL

\* The asserts of updateChannel and removeChannel hold.
THEOREM IndexesCorrect == Spec => []IndexOK
<1>1. PollerInv => IndexOK
  <2> SUFFICES ASSUME PollerInv PROVE IndexOK
    OBVIOUS
  <2>1. \A c \in Registered :
           /\ index_[c] < Len(pollfds_)
           /\ pollfds_[index_[c] + 1].fd \in {fd_[c], Ignored(fd_[c])}
           /\ events_[c] = {} => pollfds_[index_[c] + 1] = Entry(Ignored(fd_[c]), {})
           /\ channels_[fd_[c]] = c
    <3> SUFFICES ASSUME NEW c \in Registered
                 PROVE  /\ index_[c] < Len(pollfds_)
                        /\ pollfds_[index_[c] + 1].fd \in {fd_[c], Ignored(fd_[c])}
                        /\ events_[c] = {} => pollfds_[index_[c] + 1] = Entry(Ignored(fd_[c]), {})
                        /\ channels_[fd_[c]] = c
      OBVIOUS
    <3>1. /\ index_[c] < Len(pollfds_) /\ pollfds_[index_[c] + 1] = EntryOf(c)
          /\ channels_[fd_[c]] = c
      BY DEF PollerInv, Placed, Mapped
    <3>2. EntryOf(c).fd \in {fd_[c], Ignored(fd_[c])}
      BY DEF EntryOf, Entry
    <3>3. events_[c] = {} => EntryOf(c) = Entry(Ignored(fd_[c]), {})
      BY DEF EntryOf
    <3> QED
      BY <3>1, <3>2, <3>3
  <2>2. \A c \in Live \ Registered : channels_[fd_[c]] = None
    <3> SUFFICES ASSUME NEW c \in Live, c \notin Registered, channels_[fd_[c]] # None
                 PROVE  FALSE
      OBVIOUS
    <3>1. fd_[c] \in Fds
      BY DEF PollerInv, TypeOK, Live
    <3>2. channels_[fd_[c]] \in Live /\ channels_[fd_[c]] \in Registered
      BY <3>1 DEF PollerInv, Mapped, Registered
    <3>3. fd_[channels_[fd_[c]]] = fd_[c]
      BY <3>1 DEF PollerInv, Mapped
    <3> QED
      BY <3>2, <3>3 DEF PollerInv, FdsDistinct
  <2> QED
    BY <2>1, <2>2 DEF IndexOK, PollerInv, NoStrayEntry
<1> QED
  BY <1>1, PollerInvariant, PTL

\* poll(), fillActiveChannels: exactly the channels with an event enabled are
\* watched, and found again in the map.
THEOREM WatchesExactly == Spec => []WatchesEnabled
<1>1. PollerInv => WatchesEnabled
  <2> SUFFICES ASSUME PollerInv PROVE WatchesEnabled
    OBVIOUS
  <2> DEFINE enabled == {d \in Registered : events_[d] # {}}
             watched == {pollfds_[i] : i \in 1..Len(pollfds_)} \cap [fd : Fds, events : Events]
  <2>1. ASSUME NEW e \in watched
        PROVE  \E c \in enabled : channels_[e.fd] = c /\ e.events = events_[c]
    <3>1. PICK i \in 1..Len(pollfds_) : e = pollfds_[i]
      OBVIOUS
    <3>2. PICK c \in Registered : index_[c] = i - 1
      BY DEF PollerInv, NoStrayEntry
    <3>3. index_[c] + 1 = i /\ fd_[c] \in Fds
      BY <3>2, EntryLeadsBack
    <3>4. e = EntryOf(c)
      BY <3>1, <3>2, <3>3 DEF PollerInv, Placed
    <3>5. e.fd \in Fds /\ e.fd >= 0
      BY IgnoredFacts
    <3>6. events_[c] # {}
      BY <3>3, <3>4, <3>5, IgnoredFacts DEF EntryOf, Entry
    <3>7. e.fd = fd_[c] /\ e.events = events_[c]
      BY <3>4, <3>6 DEF EntryOf, Entry
    <3> QED
      BY <3>2, <3>6, <3>7 DEF PollerInv, Mapped
  <2>2. ASSUME NEW c \in enabled
        PROVE  \E e \in watched : channels_[e.fd] = c /\ e.events = events_[c]
    <3>1. /\ index_[c] + 1 \in 1..Len(pollfds_) /\ pollfds_[index_[c] + 1] = EntryOf(c)
          /\ fd_[c] \in Fds /\ c \in Channels /\ channels_[fd_[c]] = c
      BY EntryLeadsBack DEF PollerInv, Placed, Mapped
    <3>2. EntryOf(c) = [fd |-> fd_[c], events |-> events_[c]] /\ events_[c] \in Events
      BY <3>1 DEF EntryOf, Entry, PollerInv, TypeOK
    <3>3. EntryOf(c) \in watched
      BY <3>1, <3>2
    <3> QED
      BY <3>1, <3>2, <3>3
  <2> HIDE DEF enabled, watched
  <2>3. {<<channels_[e.fd], e.events>> : e \in watched} = {<<c, events_[c]>> : c \in enabled}
    BY <2>1, <2>2
  <2> QED
    BY <2>3 DEF WatchesEnabled, Watched, watched, enabled
<1> QED
  BY <1>1, PollerInvariant, PTL
=============================================================================
