# HUAWEIP2P: a verification project

HUAWEIP2P distributes a file update among hosts.  A *directory server*
(`p2pserver`) knows which hosts of an address group are up; every host runs a
*client* (`p2pclient`) that asks the server for neighbours, asks a neighbour that
has more of the update than itself, and serves others in turn.  Both are built on
a small reactor library (`base`, derived from muduo): one thread per event loop,
`poll()`, callbacks, buffers, a length-prefixed codec.

This directory holds TLA+ models of that code, TLC configurations that check them
on small instances, and proofs that TLAPS checks for every value of the constants.
`PROJECT.json` maps every definition to the lines it stands for.  Paths below are
relative to `src/source/`.

## 1. Inventory

| Part | State | Operations | Hard because |
|---|---|---|---|
| `EventLoop` | `quit_`, `looping_`, `pendingFunctors_`, the eventfd | `loop`, `runInLoop`, `queueInLoop`, `quit`, `wakeup` | other threads push and quit while the loop polls, handles events or runs functors; the mutex covers the vector alone |
| `PollPoller`, `Channel` | `pollfds_`, `channels_`, `index_` | `updateChannel`, `removeChannel`, `poll` | removal moves another channel's entry; ignored entries have negative descriptors; channels are raw pointers |
| `TimerQueue` | `timers_`, the timerfd | `addTimer`, `handleRead`, `reset` | something must eventually happen |
| `Buffer` | vector, two indexes | `append`, `prepend`, `retrieve`, `readFd`, `makeSpace` | boundary arithmetic guarded by asserts that the build keeps |
| `LengthHeaderCodec` | none (the input buffer) | `send`, `onMessage` | the stream is cut anywhere |
| `TcpConnection` | `state_`, both buffers, the events of its channel | `send`, `shutdown`, `handleRead/Write/Close`, `connectEstablished/Destroyed` | partial writes, shutdown while output waits, lifetime by shared pointers |
| `TcpServer`, `Acceptor`, `EventLoopThreadPool` | `connections_`, `next_`, `nextConnId_` | `newConnection`, `removeConnection`, `getNextLoop` | a connection is built and torn down by functors that hop between loops |
| `TcpClient`, `Connector` | `state_`, `channel_`, `connection_` | `connect`, `handleWrite`, `handleError`, `retry`, `stop` | destroyed from inside its own callbacks |
| `P2PClient` | `client_`, `connection_`, `state_`, `IP` | `onConnection`, `onStringMessage`, `changeServer`, `write` | replaces its `TcpClient` while connections are half closed |
| `P2PCServer` | statics `neiIP`, `updateFile` | `onStringMessage` | written by pool threads, read by the main thread |
| `P2PServer`, `UserCatalogue` | `users`, `userQue` | `insertUser`, `hasNeighbor`, `getNeighborUsers` | clients come and go during the probe; the set's comparison is not an order |
| `EventLoopThread`, `Thread`, `Condition` | `loop_`, the thread | `startLoop`, `threadFunc`, `start`, `join`, the destructor | two threads meet in a condition variable; `quit()` may come before `loop()` |
| the update as a whole | the levels and neighbours of all clients | | clients crash, restart, and know each other's past levels |
| wrappers (`Socket`, `SocketsOps`, `Timestamp`...) | none of their own | | see section 6 |

How the parts interact.  A client process has a main loop (`P2PClient`, and the
acceptor of `P2PCServer`) and four pool loops (the connections of `P2PCServer`);
the server process has a single loop.  Loops exchange work only through
`queueInLoop`; everything a connection does happens in its own loop.  The
processes exchange four messages: `a` (register), `b` (neighbours), `c` (ask for
the update), `d` (the level the answerer has).

What makes each part correct: a loop runs every task once, in order, and never
sleeps over one; the poller watches exactly the enabled channels of living
objects; a buffer is a queue of bytes; the codec hands over what was sent however
the stream is cut; a connection sends its bytes in order and closes after the last
of them; a connection goes up once, down once and is then destroyed, whichever
loops are involved; the queues of the catalogue are bounded, and it keeps clients
that answer; a client always knows where to ask next and never touches a
connection that is gone; and all together, a client that keeps running gets the
whole update.  The places where each of these could go wrong are the
"hazards" of `PROJECT.json`.

## 2. Modules

| Module | Models | Remarks |
|---|---|---|
| `SerialExecutor` | abstract | tasks are submitted and executed once, in order |
| `EventLoop` | `EventLoop.cpp` | implements `SerialExecutor` |
| `EventLoopThread` | `EventLoopThread.cpp`, `Thread.cpp`, `Condition.h` | extends `EventLoop` with the thread around it, and implements it |
| `PollPoller` | `PollPoller.cpp`, `Channel.cpp` | driven by the call patterns of the channels' owners |
| `TimerQueue` | `TimerQueue.cpp` | |
| `Buffer` | `Buffer.h`, `Buffer.cpp` | operators on records, used by `Codec` |
| `Codec` | `codec.h`, the input path of `TcpConnection` | built on `Buffer`; the other end, which sends, is a process of its own |
| `TcpConnection` | output path and shutdown of `TcpConnection.cpp` | with the kernel's buffer and the other end |
| `ConnectionLifecycle` | abstract | new, up, down, gone |
| `TcpServer` | `TcpServer.cpp`, `Acceptor.cpp`, `EventLoopThreadPool.cpp`, lifetime of `TcpConnection` | every loop is a `SerialExecutor`; implements `ConnectionLifecycle` |
| `StdSet` | libstdc++'s `std::set` (external) | the red-black tree, for a comparison that is not an order; operators used by `UserCatalogue` |
| `UserCatalogue`, `P2PServer` | `usercatalogue.cpp`, `p2pserver.cpp` | the server extends the catalogue |
| `Neighbours` | the statics of `P2PCServer` in `p2pclient.cpp` | operators on the map `neiIP` |
| `P2PClient` | `p2pclient.cpp` (`P2PClient` and `P2PCServer`), `TcpClient.cpp`, `Connector.cpp` | one whole client process around its main loop; extends `Neighbours` |
| `Update` | `p2pclient.cpp` of several processes with `usercatalogue.cpp` and `p2pserver.cpp` | composes `Neighbours` and `UserCatalogue` |
| `EventLoopProofs`, `PollPollerProofs`, `TcpConnectionProofs`, `TcpServerProofs`, `P2PServerProofs`, `P2PClientProofs`, `UpdateProofs`, `CodecProofs` | | theorems about the module of that name (`EventLoopProofs`: `EventLoop` and `EventLoopThread`; `P2PServerProofs`: also the lemmas on `insertUser` that `UpdateProofs` uses; `CodecProofs`: also the operators of `Buffer`) |
| `MC*` | | instances for TLC |

Conventions.  Variables keep the names of the members they model.  A step is what
one thread does between two points where another may observe or change the state:
a callback of a loop is one step unless it calls out, sleeps or is known to be
interleaved.  Definitions named `Mutant...` are plausible mistakes in the definition
that follows them; no specification uses them.

How the code became actions, where it is not obvious:

* **EventLoop.**  `queueInLoop` from another thread is two steps, the push under
  the mutex and the `wakeup()`; so is `quit()`.  From the loop's own thread the
  push and the wakeup are one step.  `poll()` is `PollAwakened` when the eventfd is
  readable and `PollOther` when something else, or the ten-second timeout, ends it.
* **PollPoller.**  `Create/Start/EnableWriting/DisableWriting/DisableAll/Remove` are
  the calls owners really make.  The code does not restore the descriptor of an
  ignored entry; this is kept, and `WatchesEnabled` holds because no owner
  enables a channel after `disableAll`.
* **UserCatalogue.**  `UserInfo::operator<` returns the value of `compare`, i.e.
  "differs".  With it, what `std::set` finds depends on the shape of its tree, so
  `StdSet` models libstdc++'s red-black tree exactly, rotations and colours included,
  for any number of members: a tree is the sequence of its nodes in iteration order,
  each with its depth and colour.  `erase` looks along the rightmost path and removes
  everything between the first and the last equal it finds there and beyond; `insert`
  looks along the leftmost path and, if it meets no equal, puts the record first.  The
  model was compared with `std::set` itself on several thousand random operations,
  without a difference.  The operations on trees are functions, not operators, since
  TLC evaluates the argument of a function once.  The set of a prefix grows without
  limit (section 5); `MaxCached` bounds it for TLC.
  `isClientWorking` connects to the client; its result is whether the client
  accepts connections at that moment and there was a descriptor for the socket.
  A refused probe leaves its socket open (`leaked`), so that the server's
  connections (`conns`) and leaked sockets share `MaxFds`.  How many connections
  there are when a message is handled is a choice from `Conns`, at most `MaxConns`:
  `TcpServer` models them.  A request `c` changes nothing at the server; its answer is
  `Update`'s `ServerAnswers`.
* **EventLoopThread.**  Every access to `loop_` before `startLoop` returns is in a
  critical section of `mutex_`, and a section is one step; `pthread_cond_wait` may
  return spuriously, `pthread_create` may fail.  The callers use the loop as in
  `EventLoop`, from the moment `startLoop` has handed it out.  A caller that
  is between its two steps when the loop is destroyed is undefined behaviour in
  the code; here its second step has no effect.
* **Update.**  A client is where its main thread stands (`phase`) and its one
  current connection.  Handlers that sleep or search (`asleep`, `change`) keep
  the main thread from accepting connections, while the kernel already takes them:
  hence `ConnectionUp` needs only a process (`working`), `Accept` a main thread
  in its loop, and `PeerAnswers`, on a pool thread, neither.  A crash loses the
  level and the neighbours and ends the connections of both sides; a message whose
  sender has crashed is dropped.  A process that uses freed memory (finding
  `polled_is_alive`) is taken to crash.  A refused connect leaves the client
  `stuck`, as no timer ever fires (finding `added_timer_runs`).
* **TcpServer.**  `numThreads_` is what `setThreadNum` was given: four for
  `P2PCServer`, none for `P2PServer`, whose connections live in the base loop.
  `runInLoop` runs its argument at once in the same loop and queues it in another.
  `Held` lists the shared pointers to a connection, so
  destruction is the disappearance of the last of them.
* **P2PClient.**  The body of `loop()` is explicit, since the order in which one
  `poll()`'s channels are handled is what decides about lifetimes.  The code's
  sleeps separate steps.  `pc = "undefined"` is the first use of freed memory, after
  which nothing is specified.
* **Codec.**  The other end sends a frame at any time (`Send`), also while earlier
  ones are being read; `announced`, `stream` and `ends` record what it has sent.  A
  body is as long as announced, but for an illegal length, which is followed by one
  byte.  `HandleRead` takes any number of bytes that one `readv()` can return; each
  round of the `while` loop of `onMessage` is a step.  After an illegal length the
  connection is half closed and, as in the code, goes on reading.
* **TcpConnection.**  `Written` is what `write()` returns: as much as fits, nothing
  on `EWOULDBLOCK`, `EPIPE` or `ECONNRESET`.

## 3. Runs

| Run | Shows |
|---|---|
| `event_loop` | nothing queued is stranded behind a blocked `poll()` (`NoLostWakeup`); tasks run once, in order (`RunsInOrder`); every task of a loop that is not stopped runs, even if `poll()` never times out; `startLoop` returns whatever the order of the two threads (unless there is no thread); the join of the destructor returns, unless `quit()` fell between the publication of the loop and `loop()` |
| `poller` | the indexes survive any order of removals (`IndexOK`), no entry is left over, exactly the enabled channels are watched |
| `codec` | the input buffer holds exactly the bytes read and not handed over, through growth and compaction, and the asserts of `ensureWritableBytes` and `makeSpace` hold (`BufferHoldsTheRest`); messages are delivered as sent, all complete ones at once; an illegal length ends the connection, and nothing behind it is ever taken for a message (`ShutdownOnIllegal`) |
| `connection_output` | the stream is intact, POLLOUT is asked for exactly while bytes wait, the FIN is last, a shutdown completes |
| `tcp_server` | for every size of the pool: functors find the state they assert, a polled channel has an owner, connections are spread evenly, each goes up, down and away, and is released after the other end closes; a full backlog is worked off although all descriptors are in use (`BacklogDrains`) |
| `directory_server` | queues are bounded; each reply offers a source, also where clients are recorded twice and erases remove ranges; working clients are kept as long as a descriptor is left to probe them with and nobody is recorded twice |
| `client` | a `TcpClient` is replaced only when connected and before its connection closes, answers arrive on the connection asked, nothing is destroyed twice, no channel reported by `poll()` is destroyed before its event is handled |
| `update` | what a client knows of a neighbour is a level it once had, or the assumed one (`KnowledgeIsOld`); the search for a source ends although sources crash (`SearchEnds`); a client that keeps running is updated, unless it is stuck in a connect or asks for ever, and only, clients that stay at level 1 (`OnlyLevelOneHolds`) |
| `cache_bounded`, `polled_is_alive`, `added_timer_runs`, `nobody_is_held` | violated: the findings of section 5 |

Bounds, and why they are enough.

* `event_loop`: two threads (one may be between push and wakeup while the other
  goes through), one channel besides the eventfd, four tasks,
  an eventfd that saturates at 2, so that a full counter occurs.  The owner is one
  of the two threads.
* `poller`: four channels over three descriptors: an entry can be moved twice, and
  a descriptor is reused while the channel that had it still exists.
* `codec`: a vector of 2+3 bytes and an extra buffer of 3, a header of 2 bytes,
  bodies of 0, 1 and 4 bytes and two illegal lengths, too long and negative; every
  cut of the stream of four messages, sent before or while others are read.  Growing, moving down and the exact fits in
  between are all reached.
* `connection_output`: kernel buffer of 2, sends of up to 4, 7 bytes in all: direct,
  partial and refused writes, several `handleWrite`s per send.
* `tcp_server`: pools of no, one and two threads, at most three descriptors and five
  connections: round robin wraps twice, `EMFILE` occurs, connections overlap.
* `directory_server`: the queue limit is 3 as in the code.  The server's own group has
  five members, so that clients are outside the queue, the trees rotate, searches miss,
  clients are recorded twice and an erase removes a range; another client is alone in
  its group, so that the server offers itself.  The four clients beside the server are
  interchangeable (symmetry).  At most five records for a prefix, one connection and
  three descriptors: two probes can leak theirs before one finds none left.
* `client`: three `TcpClient`s in succession (the lifetimes of two overlap, the
  third reuses what they leave), two neighbours and the server, levels 1 to 3.

* `update`: two clients and the server, three levels (start, between, complete),
  two crashes.  Two clients already ask each other, are asked while they search,
  hold one another, and crash between any two steps of the other; two
  crashes let one client lose its level twice or both once.  The limit of the
  catalogue is the code's, 3, and is not reached; `directory_server` is about it.
  A third client takes the temporal properties past any useful time.

`CHECK_DEADLOCK FALSE` is set where a behaviour may stop: when the codec's stream,
the bytes, connections or clients of the bound are used up, when the client has
finished its update (or given up), and when the last timer was added.

Fairness.  Threads that can run do run (weak fairness of the loop's steps and of a
caller's `wakeup()`): the scheduler guarantees it.  `PollOther` is never fair, so
liveness does not rest on the timeout of `poll()`.  User code need not queue
anything.  In `TcpConnection` the other process keeps reading while it is open; it
may always close or vanish instead.  In `TcpServer` a loop handles its functors and
the end of stream its poller reports, and its acceptor: `poll()` is
level-triggered, and the handlers of the base loop return.  In
`EventLoopThread` no spurious wakeup is fair, so `StartReturns` rests on `notify()`
alone.  In `Update` the threads of a client that runs are weakly fair, and so are
answers; nobody is obliged to start or to crash.  `Accept` is strongly fair:
the main thread of a client leaves its loop for a handler again and again, but
whenever it is back, `poll()` reports every descriptor that is ready, the
acceptor's among them.  In `TimerQueue` the clock advances and the
timerfd fires; the property fails nevertheless.

## 4. Proofs

TLAPS checks these for every value of the constants that satisfies the named
assumptions.

* `EventLoopProofs`.  `TypeCorrect`; `WakeupInvariant`, `WakeupsAreNotLost`;
  `RunsTasksInOrder`.  `NoLostWakeup` is not inductive: it says nothing of the loop
  before it enters `poll()`.  `WakeupInv` adds the places from which `poll()` is
  reached without another look at the queue: while the loop runs functors, at the
  top of `while`, and before `loop()` is called, a non-empty queue always has a
  wakeup in the eventfd or in a caller that is between its two steps.  In
  `"events"` and `"swap"` the eventfd may be drained, and the swap takes the
  queue.  The refinement maps `todo` to `functors \o pendingFunctors_`, and needs
  that appending to the second part appends to the whole and that running takes
  its head (two lemmas on sequences).  Assumptions: `ChannelAssumption`,
  `BoundAssumption`.
  For the thread around the loop, `ThreadImplementsLoop`: every step of the owner,
  the thread and the callers is a step of the loop or leaves it alone; so
  `ThreadWakeupsAreNotLost` and `ThreadRunsTasksInOrder` follow from the theorems on
  `EventLoop`.  `ThreadOutlivesLoop`: `startLoop` never returns NULL, whatever ends
  its wait; `loop()` runs only inside `threadFunc`; when `join()` returns the thread
  has left `loop()`.  Its invariant `ThreadInv` ties `loop_` and the place in `loop()`
  to the place of the thread.  Assumption: `OwnerAssumption`, besides those of
  `EventLoop`.
* `P2PServerProofs`.  First the lemmas about `std::set` under the code's comparison
  and about `insertUser` that the server and the whole protocol both need.  They take
  the tree as it comes, whatever its shape and however many clients share a prefix: an
  erase removes a range whose two ends are records of the address (`ErasedRange`), so
  a set in which nobody is recorded twice loses that record alone
  (`EraseKeepsOthers`), and an insertion leaves a record of the new client.
  `insertUser` keeps `CatalogueInv` (types, the bound of the queues, and a record behind
  every queue, which depend on each other).  `CatalogueCorrect` proves `ServerInv`: that,
  `ServerTypeOK`, which bounds connections and leaked sockets by `MaxFds`
  (`ServerTypeCorrect`), and `ReplyInv`, that a reply was made from the catalogue as it
  is.  From it `QueueStaysBounded` and `WorkingStaysCached` (an action property, which
  has the premise that the probe has a descriptor and that nobody is recorded twice in the
  prefix: without the second the erase can take a range with working clients in it).
  `RegistrantsHaveSource`: while nobody is recorded twice, a reply names someone other
  than the client.  With double records `directory_server` shows it at its bounds; in
  general it rests on which nodes a range can span, an induction over the tree.
  Assumptions: `UserAssumption`, `ConnsAssumption`.
* `PollPollerProofs`.  `PollerTypeCorrect`, `IndexesCorrect`, `WatchesExactly`, from
  `PollerInv`: channels in use have different descriptors, each registered one
  has exactly its entry at the place it remembers (ignored when no event is
  enabled), the map holds the registered channels only, and every entry has a
  channel.  Two channels cannot share a place, because an entry leads back to its
  descriptor, so `removeChannel` renumbers the one channel whose entry it moves.
  Assumption: `PollerAssumption`.
* `TcpConnectionProofs`.  `OutputTypeCorrect`, `StreamStaysIntact`,
  `WritesWhileWaiting`, `FinComesLast`, from `OutputInv`: the four properties
  together with `FlagsInv` (a connection that no longer reads has lost its peer and
  asks for nothing; a FIN is sent only when shutting down; a peer that has read
  it has nothing left to read).  They need each other: the bytes of `send()` go
  straight to the kernel only if none wait, which is what `writing` says.
  Assumption: `ConnectionAssumption`.

* `TcpServerProofs`.  `TypeCorrect`, `AssertsHold` (`FunctorsFindTheirState`),
  `PolledOwned`, `LoadBalanced`, and `Implements`, the refinement of
  `ConnectionLifecycle`.  None of the invariants is inductive alone: that
  `connectDestroyed` finds its connection disconnected depends on which functors
  other loops have queued before.  `IInv` (`Invariance`) therefore says, for every
  connection, which of its stages it is in (not made; to be established; in use;
  closed and in the map; closed, out of the map and in its poller; waiting for
  the last shared pointer to go), with its state, its entry in the poller and the
  functor that will end the stage (`StagesOK`); what every queued functor and
  every running handler implies about its connection (`FunctorsOK`, `HandlersOK`);
  and that no functor is queued twice (`Single`).
  Queues are treated as sets, which two lemmas on `Append` and `Tail` of
  injective sequences justify.  `LoadBalanced` counts the connections given to each
  loop by the position of `next_`.  Assumption: `ServerAssumption`.
* `P2PClientProofs`.  `TypeCorrect`, `ReplacedConnected`, `SameConnection`,
  `DestroyedOnlyOnce`, `ReportedExist`, for any number of `TcpClient`s made one after
  the other; and `DanglesWhenOvertaken`, which pins the finding `polled_is_alive`
  down: `poll()` meets an entry of a destroyed connection exactly when the new
  connection came up before the old one was closed.  The argument is that at any
  time only two `TcpClient`s matter, the current one (connecting, failed or up) and
  the one before it (left or closed).  `IInv` says for each combination what the
  poller holds, in which order (`PollInv`), what `poll()` has reported and not yet
  handled (`ActiveInv`), which functors are queued (`FunctorInv`), what
  `connection_` points to (`CurrentInv`), and what the place in the main
  thread implies (`PcInv`).  Each action has a lemma on this shape and one on the
  types.  The order is what makes `ReportedIsAlive` true: the old connection's entry
  precedes the new connector's, so its end is handled first.  Assumptions:
  `NeighbourAssumption`, `ClientAssumption`.
* `UpdateProofs`.  For any number of clients, levels and crashes: `TypeCorrect`,
  `NotedLevelsAreOld`, `NeverAsksItself` (no client is its own source, in its own notes
  or in a list on its way to it) and `CatalogueKept` (the bound of the catalogue's queues
  and a record behind every queue, in the composed protocol).  `KnowledgeIsOld` speaks of notes
  alone; the invariant adds the answers under way (`AnswerInv`: a level in an
  answer is one its sender has had) and which answers and requests a connection
  can have in each phase (`ConnInv`: a new connection starts without any, so that no
  answer of an earlier source is credited to a later one).  Assumptions: those of
  `Neighbours`, `UserCatalogue` and `UpdateAssumption`.
* `CodecProofs`.  For buffers of any size, any messages and every cut of the stream:
  `TypeCorrect`, `BufferKeepsTheRest`, `MessagesDeliveredAsSent`,
  `CompleteIsHandedOver`, `IllegalIsShutDown`, and `NothingAfterIllegal`, an action
  property: behind an illegal length nothing is handed over or taken off the buffer,
  which can only grow.  The lemmas on `Buffer` say what `append`, `prepend`,
  `retrieve` and `readFd` do to the content, in each of the cases of `makeSpace`
  (`SpaceMade`: room there, moved down, grown), and that the asserts hold.  The
  invariant `CodecInv` adds what the properties leave out.  `StreamFramed`: message
  m lies in the stream behind message m - 1, header first, and `ends` does not
  decrease; it is kept because a frame is only ever appended.  `HandedOver`: the
  buffer begins where the last message handed over ends, so the bytes taken for a
  header always are one (`FrameRead`).  `Settled`: between two callbacks the front
  message is incomplete, or illegal and the connection shut down.
  `NothingLeftBehind` and `ShutdownOnIllegal` speak of all messages; they follow for
  the later ones because `ends` does not decrease.  Assumptions: `BufferAssumption`, `CodecAssumption`.

Every inductive invariant was first checked by TLC as an invariant of the bounds of
section 3 (`Update` also with three clients and one crash).  Three models changed on
the way.  In `Update` the server could answer a request that had been lost with a
crashed peer: the invariant was not inductive, and `ServerAnswers` now excludes it,
as a closed connection carries no answer.  In `P2PClient` the order in which `poll()`
reports was written with `SelectSeq`, of which the prover knows nothing; it is now
stated by the positions of the reported entries (`ReportedInOrder`), with the
same reachable states.  In `Codec` the stream was chosen in the initial state, as a
fold over all messages; that parsing undoes it would be an induction over data.  Now
the other end puts one frame after the other on the wire, which is closer to the code
and makes the framing an invariant.

Only model-checked: liveness (`EveryTaskRuns`, `StartReturns`, `JoinReturns`, `ShutdownCompletes`,
`ClosedIsReleased`, `BacklogDrains`, `SearchEnds`, `OnlyLevelOneHolds`), since fairness
and `ENABLED` are out of the prover's reach; and `ReplyOffersSource` where clients are
recorded twice (it is proved where nobody is).  Every other invariant and action property
of a passing run has a theorem.  `TimerQueue` has only the run
`added_timer_runs`, which is violated.

## 5. What the checks found

* `polled_is_alive`.  After `changeServer` only `P2PClient::connection_` holds the
  old connection.  If the next one is up before the end of the old one is handled,
  `connection_ = conn` (`p2pclient/src/p2pclient.cpp:175`) destroys it while
  the poller still has its channel.  A build with AddressSanitizer reports the
  same heap-use-after-free.
* `added_timer_runs`.  `TimerQueue::insert` never inserts: no timer ever runs, so
  `Connector::retry` never retries.
* `cache_bounded`.  The comparison of `UserInfo` makes `erase` miss dead clients:
  the cached set outgrows `kMaxCacheUsers` (the queue does not).
* `nobody_is_held`.  `insertNeiIP` notes a neighbour at level 1 as one at 101
  (`p2pclient/src/p2pclient.cpp:45`), although it has just told that it has nothing.
  Two clients of a group that start together then ask each other for ever and never
  turn to the server; the run needs no crash.  `OnlyLevelOneHolds` shows that
  this, besides a stuck connect, is the only way in which a client that keeps
  running is not updated.

Seen on the way, without a run of their own.  From five clients of a prefix on a client
can be recorded twice: erases rotate the tree, and a client that is off both the path
`erase` and the path `insert` looks along is inserted once more.  Ten registrations
suffice (`RecordedOnce` as an invariant of `directory_server` with ten descriptors, so
that no probe fails for lack of one, gives a trace that ends in the set
[c1113, c1115, c1112, c1113, s1111]).  `hasNeighbor`, "the num of users except the
ipself" (`p2pserver/src/usercatalogue.cpp:87`), then counts the second record as a
neighbour, and a later `erase` of the client that finds both removes all records between
them, those of working clients too.  Further: `hasNeighbor`
(`p2pserver/src/usercatalogue.cpp:87`) is one short for a client that `insertUser` did not
record; when the descriptors of the server have leaked away, `isClientWorking`
takes every client for dead and working ones are dropped, as they are by an erase of a
range (hence the two premises of `WorkingIsKept`); a `quit()` between `EventLoopThread::startLoop` and `loop()` is
forgotten (hence the exception in `JoinReturns`).

## 6. Not modelled

* Wrappers without state of their own (`Socket`, `SocketsOps` but for the outcomes
  of `accept`, `InetAddress`, `CurrentThread`, `Atomic`, `Singleton`, `Timestamp`,
  `StringPiece`, `Callbacks`): each is one system call or a conversion, and its effect
  is part of the actions that use it.
* Code nothing calls: `TimerQueue::cancel` (`activeTimers_` is always empty),
  `Connector::restart`, `Buffer::findCRLF`, write-complete and high-water callbacks,
  `send()` from a thread other than the connection's.
* `~TcpServer`: both servers live as long as their process.
* `TcpClient::removeConnection`, `Connector::stopInLoop` with a connecting connector
  and `~TcpClient` without a connection: `ReplacedWhileConnected` shows that they
  are not reached.
* The use of a destroyed loop by a late `quit()` of `~EventLoopThread`: no program
  here ever destroys a pool.
* Failure of the directory server, and the descriptors of a client.
* Concurrent access to the static map `neiIP`: each access is atomic in the model.
* Wording and layout of messages, logging.

## 7. Plan

Done in this order: the event loop and its proof; the catalogue, the server and
their proof; the client; the server framework; buffer, codec and output path;
poller; timers; the thread around a loop; the update among several clients;
descriptors of the server and of the acceptor; proofs about the poller, the output
path, the server framework, the update, the client, the buffer and the codec.

Of the properties the runs check, liveness has no proof, and has none to come with
this prover; `ReplyOffersSource` has one where nobody is recorded twice.  What could be added: that a list the server sends names only clients that
have registered (`Update`); the descriptors of a client, which leak as those of the
server do; and the unlocked accesses to `neiIP`.
