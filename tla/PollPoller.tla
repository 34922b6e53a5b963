----------------------------- MODULE PollPoller -----------------------------
(***************************************************************************)
(* PollPoller (base/src/PollPoller.cpp) under the calls its channels'      *)
(* owners make: the array given to poll(), in which a channel that wants   *)
(* no event is kept with a negative descriptor, the map from descriptors   *)
(* to channels, and the index each channel has in the array.               *)
(*                                                                         *)
(* A TcpConnection enables reading first, enables and disables writing     *)
(* while it reads, disables all and removes the channel.  A Connector      *)
(* enables writing, disables all and removes.  Nobody enables a channel    *)
(* again after disabling all.  A Connector's channel outlives its removal  *)
(* while its descriptor already belongs to the TcpConnection's channel.    *)
(***************************************************************************)
EXTENDS Integers, Sequences, FiniteSets

CONSTANTS Channels, Fds, None

ASSUME PollerAssumption == Fds \subseteq Nat /\ None \notin Channels

VARIABLES pollfds_,   \* sequence of [fd, events]
          channels_,  \* fd -> channel, or None
          fd_,        \* c -> its descriptor
          events_,    \* c -> events it is interested in
          index_,     \* c -> place in pollfds_, from 0, or -1
          owner       \* c -> "none", "conn", "connector", or "removed"

vars == <<pollfds_, channels_, fd_, events_, index_, owner>>

Init == /\ pollfds_ = <<>> /\ channels_ = [f \in Fds |-> None]
        /\ fd_ \in [Channels -> Fds]
        /\ events_ = [c \in Channels |-> {}]
        /\ index_ = [c \in Channels |-> -1]
        /\ owner = [c \in Channels |-> "none"]

Live == {c \in Channels : owner[c] \in {"conn", "connector"}}

\* The channels the poller knows.
Registered == {c \in Live : index_[c] >= 0}
-----------------------------------------------------------------------------
MutantIgnored(f) == -f

\* The descriptor of an entry poll() ignores.
Ignored(f) == -f - 1

Entry(f, ev) == [fd |-> f, events |-> ev]

\* Channel::update and updateChannel, a new one.
AddChannel(c, ev) ==
    /\ pollfds_' = Append(pollfds_, Entry(fd_[c], ev))
    /\ index_' = [index_ EXCEPT ![c] = Len(pollfds_)]
    /\ channels_' = [channels_ EXCEPT ![fd_[c]] = c]
    /\ events_' = [events_ EXCEPT ![c] = ev]

MutantUpdateChannel(c, ev) ==
    /\ pollfds_' = [pollfds_ EXCEPT ![index_[c] + 1].events = ev]
    /\ events_' = [events_ EXCEPT ![c] = ev]
    /\ UNCHANGED <<index_, channels_>>

\* ... and an existing one: an entry once ignored stays ignored.
UpdateChannel(c, ev) ==
    /\ pollfds_' = [pollfds_ EXCEPT ![index_[c] + 1] =
                      Entry(IF ev = {} THEN Ignored(fd_[c]) ELSE @.fd, ev)]
    /\ events_' = [events_ EXCEPT ![c] = ev]
    /\ UNCHANGED <<index_, channels_>>

\* The descriptor an entry is for.
EntryFd(e) == IF e.fd < 0 THEN Ignored(e.fd) ELSE e.fd

MutantRemoveChannel(c) ==
    LET i == index_[c] + 1
        n == Len(pollfds_)
    IN  /\ pollfds_' = SubSeq([pollfds_ EXCEPT ![i] = pollfds_[n]], 1, n - 1)
        /\ channels_' = [channels_ EXCEPT ![fd_[c]] = None]
        /\ UNCHANGED index_

\* removeChannel: the last entry takes the place of the removed one.
RemoveChannel(c) ==
    LET i == index_[c] + 1
        n == Len(pollfds_)
        last == channels_[EntryFd(pollfds_[n])]
    IN  /\ pollfds_' = SubSeq([pollfds_ EXCEPT ![i] = pollfds_[n]], 1, n - 1)
        /\ channels_' = [channels_ EXCEPT ![fd_[c]] = None]
        /\ index_' = IF i = n THEN index_ ELSE [index_ EXCEPT ![last] = index_[c]]
-----------------------------------------------------------------------------
(* The owners. *)

\* A channel is made for a descriptor that no other live channel has.
Create(c, f, kind) == /\ c \notin Live
                      /\ \A d \in Live : fd_[d] # f
                      /\ owner' = [owner EXCEPT ![c] = kind]
                      /\ fd_' = [fd_ EXCEPT ![c] = f]
                      /\ index_' = [index_ EXCEPT ![c] = -1]
                      /\ events_' = [events_ EXCEPT ![c] = {}]
                      /\ UNCHANGED <<pollfds_, channels_>>

\* connectEstablished, or Connector::connecting.
Start(c) == /\ c \in Live /\ index_[c] < 0
            /\ AddChannel(c, IF owner[c] = "conn" THEN {"read"} ELSE {"write"})
            /\ UNCHANGED <<fd_, owner>>

EnableWriting(c) == /\ c \in Registered /\ owner[c] = "conn" /\ events_[c] = {"read"}
                    /\ UpdateChannel(c, events_[c] \cup {"write"})
                    /\ UNCHANGED <<fd_, owner>>

DisableWriting(c) == /\ c \in Registered /\ owner[c] = "conn" /\ "write" \in events_[c]
                     /\ UpdateChannel(c, events_[c] \ {"write"})
                     /\ UNCHANGED <<fd_, owner>>

DisableAll(c) == /\ c \in Registered /\ events_[c] # {}
                 /\ UpdateChannel(c, {})
                 /\ UNCHANGED <<fd_, owner>>

\* Channel::remove; the object is destroyed, or left alone, after it.
Remove(c) == /\ c \in Registered /\ events_[c] = {}
             /\ RemoveChannel(c)
             /\ owner' = [owner EXCEPT ![c] = "removed"]
             /\ UNCHANGED <<fd_, events_>>

Next == \E c \in Channels :
           \/ \E f \in Fds, kind \in {"conn", "connector"} : Create(c, f, kind)
           \/ Start(c) \/ EnableWriting(c) \/ DisableWriting(c)
           \/ DisableAll(c) \/ Remove(c)

Spec == Init /\ [][Next]_vars
-----------------------------------------------------------------------------
(* Properties. *)

Events == SUBSET {"read", "write"}

\* The variables keep their types.
TypeOK == /\ pollfds_ \in Seq([fd : Fds \cup {-f - 1 : f \in Fds}, events : Events])
          /\ channels_ \in [Fds -> Channels \cup {None}]
          /\ fd_ \in [Channels -> Fds]
          /\ events_ \in [Channels -> Events]
          /\ index_ \in [Channels -> Int]
          /\ owner \in [Channels -> {"none", "conn", "connector", "removed"}]

\* The asserts of updateChannel and removeChannel: the place a registered
\* channel remembers holds its own entry, an ignored one when no event is
\* enabled, however often entries were moved by the removal of others; the map
\* leads back to it; the descriptor of a channel to be added is not in the map;
\* and no entry is left over.
IndexOK == /\ \A c \in Registered :
                 /\ index_[c] < Len(pollfds_)
                 /\ pollfds_[index_[c] + 1].fd \in {fd_[c], Ignored(fd_[c])}
                 /\ events_[c] = {} => pollfds_[index_[c] + 1] = Entry(Ignored(fd_[c]), {})
                 /\ channels_[fd_[c]] = c
           /\ \A c \in Live \ Registered : channels_[fd_[c]] = None
           /\ \A i \in 1..Len(pollfds_) : \E c \in Registered : index_[c] = i - 1

\* What poll() watches, as fillActiveChannels reports it.
Watched == {<<channels_[e.fd], e.events>> : e \in {pollfds_[i] : i \in 1..Len(pollfds_)} \cap
                                                  [fd : Fds, events : Events]}

\* poll, fillActiveChannels: exactly the channels with an event enabled are
\* watched, for exactly their events; the lookup finds them (its asserts).
WatchesEnabled == Watched = {<<c, events_[c]>> : c \in {d \in Registered : events_[d] # {}}}
=============================================================================
