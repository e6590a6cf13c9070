# btclite in TLA+

A specification, model checking and proof project for *btclite*, the Bitcoin
node in `src/`. The modules are translated from the C++ sources; TLC checks them
on small instances and TLAPS proves the main results for every instance.

Paths below are relative to `src/src/`.

## 1. The system

btclite is one process. `fullnode/` starts and stops everything, `network/` is
the peer-to-peer layer on libevent, `chain/` holds the block index, `utility/`
the threads, timers and containers, `consensus/` and `crypto/` data types and
hashes. What runs concurrently:

* the main thread (start, wait, stop);
* one libevent loop thread for outbound connections and one for inbound ones
  (`connector.cpp`, `acceptor.cpp`), which run `ConnReadCb`, `ConnEventCb`,
  `AcceptConnCb`;
* the *singleton thread pool* (`utility/src/thread.cpp`), which runs one
  `ParseMsg` task per read event, and with it all message handlers;
* the *timer thread* (`TimerMng::TimerLoop`) and the timer manager's own thread
  pool, which runs all timeout callbacks.

Several threads therefore work on one `Node` at the same time. Most of its fields
are atomic or behind a lock of their own; sequences of reads and writes of them
are not protected.

### Components

| component | sources | state | operations | interacts with |
|---|---|---|---|---|
| Timer manager | `utility/src/timer.cpp`, `timer.h` | the list of timers, each with deadline, interval, suspended flag; `stop_` | StartTimer, StopTimer, Reset, Suspend, Resume, set_interval, set_stop; TimerLoop, CheckTimers, InvokeTimerCb | called by nodes, connector, net; calls their callbacks on its pool |
| Thread pool | `utility/src/thread.cpp`, `thread.h` | task queue, `stop_`, the condition variable | AddTask, worker loop, destructor | runs ParseMsg and timeout callbacks |
| Locks | `utility/src/sync.cpp`, `sync.h` | each thread's stack of locks, the lock-order map | LOCK, TRY_LOCK, end of scope, DeleteLock | every component with state of its own |
| libevent callbacks | `network/src/libevent.cpp` | the event base (external) | ConnReadCb, ConnEventCb | Nodes, timers, thread pool |
| Message parsing | `network/src/msg_process.cpp`, `.h` | the connection's input evbuffer | ParseMsg, ParseMsgData, HandleMsgData, SendMsg | evbuffer, message handlers |
| Message handlers | `network/src/protocol/*.cpp` | none of their own | RecvHandler of each message, CheckMisbehaving | Node, Peers, timers |
| Node | `network/src/node.cpp`, `node.h` | connection state, handshake, timers, misbehaviour, flooding addresses, ping time | timeout callbacks, StopAllTimers, DisconnectNodeCb, CheckBanned | timer manager, Nodes, Peers, BanList |
| Nodes | `node.cpp` | the list of connected nodes | AddNode, GetNode, EraseNode, InitializeNode | connector, acceptor, libevent callbacks |
| Connector | `network/src/connector.cpp` | outbound nodes, the outbound timer | StartOutboundTimer, OutboundTimeOutCb, ConnectNodes, ConnectNode, DnsLookup | Peers, BanList, Node |
| Acceptor | `network/src/acceptor.cpp` | inbound nodes | AcceptConnCb | BanList, Node |
| Address manager | `network/src/peers.cpp` | the map of known addresses, the new and tried tables, the random order | Add, MakeTried, Attempt, Select, UpdateTime, GetAddrs, dump and load | connector, handlers |
| Ban list | `network/src/banlist.cpp` | map from subnet to ban entry, dirty flag | Add, Erase, IsBanned, SweepBanned, dump and load | connector, acceptor |
| Local service, relay | `network/src/net.cpp` | local addresses; flooding addresses of each node | AdvertiseLocalTimeoutCb, RelayFloodingAddrsTimeoutCb | timers, Node |
| P2P | `network/src/p2p.cpp` | the parts above | Init, Start, Interrupt, Stop | executor |
| Block sync | `network/src/block_sync.cpp` | orphan transactions, blocks in flight | AddOrphanTx, EraseOrphansFor, ... (most of it disabled by `#if 0`) | Node |
| Chain | `chain/src/*.cpp` | block index tree, active chain, candidates | AddToBlockIndex, ReceivedBlockTransactions, SetTip, FindFork, GetAncestor | ParseMsg reads the height |
| Executor | `fullnode/src/*.cpp` | none | Init, Start, Interrupt, Stop | P2P, timer manager |
| Containers and time | `utility/include/circular_buffer.h`, `util_time.cpp` | ring buffer; samples of peers' clocks | push_back, pop_front, AddTimeData | version handler |
| Serialization | `utility/include/serialize.h`, `network/src/protocol/*.cpp`, `consensus/` | none | Serialize, Deserialize, SerializedSize, IsValid | SendMsg, HandleMsgData |
| Addresses, subnets | `network/src/network_address.cpp` | an address; a network and its mask | kinds, GetGroup, GetReachability, Match, to and from sockets and text | Peers, ban list, relay |
| Consensus data | `consensus/src/*.cpp` | a transaction and its remembered hash; a script | Push, Pop, Compact, ComputeMerkleRoot, the operations of Transaction | Chain |
| Cryptography, numbers | `crypto/`, `utility/src/arithmetic.cpp`, `random.cpp` | - | hashing, 256-bit integers, random choices | all |

### What is hard here

* Two `ParseMsg` tasks of one connection can run at once on the same buffer.
* A disconnection can come from the event thread, from a timer callback, from a
  handler, or from shutdown, while handlers of the node are in progress.
* A timer can be stopped while its callback is queued, running or done.
* `list::erase(find(...))` with an element that is not there is undefined.
* Tests and actions on the connection state are apart (handshake timeout,
  duplicate version).
* Persistent tables are written and read back with some of their state missing.

The hazards are listed one by one, each at its line, in `PROJECT.json`.

### What makes each component correct

* Timer manager: a callback never overlaps itself, no timer of the list is lost
  (neither armed nor on its way), a timer fires when nobody pushes its deadline on
  for ever, and the list is never given an iterator that is not in it.
* Message parsing: messages are handled in order, once each, none skipped, and
  only a misbehaving peer is disconnected.
* Handshake: version before verack before anything else, one version per
  connection, no half-open connection, a closed connection stays closed and
  frees its slot.
* Address manager: the tables refer only to known addresses, the random order is
  a permutation of the known addresses, a tried address is not in the new table.
* Ban list: a ban ends at its time and not before, and survives a restart.
* Connector, acceptor: the limits on connections hold; no two outbound
  connections to one address.
* Relay: an address queued for a node is sent to it.
* Chain: the ancestors found are those of the parent chain, the active
  chain is the path to its tip, `FindFork` is the last common block.
* Node timers: a node that leaves gives all of its timers back, and uses the timer
  manager as that is specified.
* Thread pool: no wakeup is lost, an accepted task runs once, the destructor ends.
* Lock order detector: two threads that wait for each other have raised the alarm.
* Start and stop: a stop ends, and keeps the tables and the file of addresses.
* Serialization: what one end writes, the other reads, and what is accepted is
  what was sent.
* Addresses: an address has one group however it is written, and the key of a ban
  names the network it was made of.
* Consensus data: nothing is lost on the way into bytes and out of them; equality
  is that of contents.

## 2. The modules

| module | models | state | actions |
|---|---|---|---|
| `TimerMng` | `util::TimerMng` | the timers created, the list, what of each is armed, suspended and periodic, the pool's queue and threads, `stop_` | StartTimer, StopTimer, Reset, Suspend, Resume, SetInterval, SetStop; TestStop, CheckTimers; TakeTask, ReturnFromCb, Rearm, EraseOneShot |
| `TimerDeadlines` | the same with the clock | the ticks left to each deadline | every action of `TimerMng` with what it does to a deadline; Tick, Scan |
| `MsgStream` | `ConnReadCb`, `ParseMsg` | the input evbuffer as two counters, the tasks of the connection and where each is in `ParseMsg` | Receive, Close, Unlist; TakeTask, ReadHeader, DrainHeader, PullPayload, Establish, Handle, DrainPayload |
| `Connection` | the life of one connection: `ConnectNode` / `AcceptConnCb`, the handlers of version, verack, ping, pong, the timeouts, the disconnection | that of `MsgStream` and the shared fields of `Node` | start-up (Register, Ready), events (Receive, ConnEvent), timeouts, one action per read or write of a handler, EraseNode |
| `Peers` | `Peers`, `PeersDb`, as `P2P` and `main` start and stop them | the tables, the random order, `peers.dat` | AddForgets, AddUpdates, AddNew, MakeTried, Attempt, UpdateTime, TimePasses, Stop, Crash, CrashInDump, Start, StartFails |
| `Admission` | `OutboundTimeOutCb`, `ConnectNode`, `AcceptConnCb`, the two `Nodes` lists, `BanList`, the nonces of the version message | the listed nodes with address, callback and liveness, where each of the two threads is, the bans in memory and in `banlist.dat`, the clock | OutboundTimeOutCb, ConnectTests, ConnectFails, ConnectLists, ConnectRegisters; AcceptConnCb, AcceptLists, RecvVersion; Disconnect, CheckBanned, EraseNode, AddBan; Tick, Stop, Crash, CrashInDump, Start, StartFails |
| `NodeTimers` | the timers of one node: `InitializeNode`, `ConnReadCb`, `Verack::RecvHandler`, the timeout callbacks, `StopAllTimers` | that of `TimerMng`, the pointers of `NodeTimers`, where each of the threads that use them is | ReadTest, ReadReset, ReadStart; RecvVerack, StartOfVerack, Pong; DisconnectBy, StopOne, EndDisconnect; TimeoutCb, InvokeStep; TimerLoopStep |
| `Relay` | `LocalService`, `RelayFloodingAddrsTimeoutCb`, `FloodingAddrs` | the local addresses, the queue of a node, what was written past its end, what the node is known to have, where the relay callback is, what was sent | AddLocalAddr, EndDiscovery, SetLocalAddr, AdvertiseLocalAddr, PushAddrToSend; BeginPass, PassStep; Leave |
| `Lifecycle` | `main`, the executor, `P2P::Init`, `Start`, `Interrupt`, `Stop` | what the main thread does next, the loops, the jobs of the pools, `peers.dat`, the tables, what is alive | MainStep, Signal; OutboundRead, InboundRead, TimerFires; RunJob, JobAborts; LoopBlocks, LoopStep |
| `ThreadPool` | `util::ThreadPool` | the queue, `stop_`, where each thread is, the notifications to come | AddTask, NotifyOne, PoolThread, WakeSpuriously; BeginDestructor, NotifyAll, JoinThreads |
| `LockOrder` | `MutexLock`, the lock order detector | the lock stack of each thread, the lock it waits for, the one it has taken off its stack and not unlocked yet, the owners, the recorded orders | Enter, Acquire, TryEnter, TryFails, LeaveCritical, Unlock, DeleteLock |
| `Wire` | `Serializer`, `Deserializer`, the message and consensus classes, `SendMsg`, `HandleMsgData` | an object, its bytes, what was read of them | one setter per class; SendMsg, Disturb, ParseMsgData |
| `NetAddress` | `NetAddr`, `SubNet`, the numeric lookups | an address, its network, the key of that, the network read from the key | SetterCalled, ThroughSocket, MakeSubNet, WriteKey, ReadKey, AnotherAddress |
| `BlockTree` | `BlockIndex` and `Chain` as a client uses them, `ChainState` as `LoadGenesisBlock` does | the index, the best header, the candidates, the chain, the `BuildSkip` that is running and its calls on the stack | LinkIndex, BuildSkip, GetAncestorAgain, MoveTip; LoadGenesisBlock |
| `Encodings` | `Script`, `ScriptInt`, `Compact`, `GetBlockProof`, `ComputeMerkleRoot` | a script and the reading of it; a target; a list of transactions | PushNumber, PushScriptInt, PushData, PushOpcode, Received, PopNext; FromBits, FromNormal; SetTransactions |
| `Transactions` | `Transaction` as an object | the objects, each with content and remembered hash | Construct, CopyConstruct, MoveConstruct, AssignFrom, AssignMoved, the setters, DeserializeInto, GetHashOf, Compare |
| `ConsensusData` | `Encodings` and `Transactions` taken together | that of both | - |
| `TimeData` | `AddTimeData`, `MedianFilter` | the known addresses, the samples, the offset, where each handler is | AddTimeData, Insert, Input, Sort, TestSize, SetOffset |
| `CircularBuffer` | `util::CircularBuffer` | cells, head, tail, full | PushBack, PopFront, Clear |

`Connection` takes the actions of `MsgStream` (`Stream == INSTANCE MsgStream`)
and conjoins what the handlers do to the node; `MsgStream` is at the same time
its abstract specification: checked by the run `connection_outbound`, proved by
`Connection_proofs!Implements`. In the same way `NodeTimers` takes the actions of `TimerMng` (`Mng == INSTANCE TimerMng`), so
that every step of the node, of its callbacks and of the threads that start and
stop its timers is one of the manager's or none (`TimersRefineMng`, run `node`,
proved by `Node_proofs!ManagerIsRefined`).
`Peers` and `Admission` stand alone: `Admission` has many nodes of which only the
beginning and the end are modelled, `Connection` all that happens to one node,
`Relay` and `NodeTimers` what its timers do meanwhile.

`MC...` modules give the constants their values for TLC. `MCNode` and `MCProcess`
check parts that share no state in one run: `part` chooses one of them for a
behaviour, and the others stay where they begin. Interleaving them would multiply
the states and show nothing more. The liveness properties and the fairness are
each of one part.

Loops over data (the walk along skips and parents, the levels of a Merkle root, the
value of bytes, the sum of outputs) are recursive functions, over the numbers or down
a pointer, so that they can be proved about. Where the code uses bitwise operators,
`BlockTree` and `NetAddress` say what they do in arithmetic; the assumptions
`LowestOneIsBitwise` and `BytesAreBitwise` of `MCProcess`, which TLC evaluates, compare
this with the operators themselves for every byte, and for every height up to 128.

An operator `X_Y`, defined just before `X`, is `X` with the programming mistake
`Y` (a guard dropped, a reset forgotten, an order swapped). No definition uses
it. For each property one of them is known to break it: `PROJECT.json` lists
which under "mutants".

### What is abstracted

*Time.* In `TimerMng` a timer is armed or not, and an armed one may be found due
by any scan: every order in which timers can expire is among the behaviours.
`TimerDeadlines` has a clock and deadlines of one length, for what must fire. In
`Connection` a timeout may come at any moment after the start-up, once for the
one-shot timers. In `Peers` the verdict of `IsTerriblePeer` stands for the time
stamps and counters it is computed from, and may change as these may: only from
"spared" (tried within the last minute) it does not become "terrible" before the
minute is over.

*The list iterator of `TimerMng`.* `timers_.erase(std::find(...))` is executed
without a test. With an element that is not there the behaviour is undefined;
the build (libstdc++) unhooks and frees the sentinel of the list, which was not
allocated, and the process aborts. This is `crashed`.

*A write past the end.* In a full queue `PushAddrToSend` may write one place past the
last address (`RandUint64(n)` returns up to `n`, `random.cpp:17`). The behaviour is
undefined. In libstdc++ the vector has grown by doubling, to 1024 places when it holds
`kMaxAddrToSend`, so the place is spare memory of its own in which no object was made: the
address is lost, and assigning to what is there may end the process (`WritePastEnd`,
`overrun`, `aborted`).

*The stack.* A `GetAncestor` that calls itself uses up the stack and ends the
process, or, where the compiler turns the call into a jump, goes on for ever: `frames` counts
the calls up to `StackFrames`, and `ended` is the end. The assertions are
compiled in (no build file defines `NDEBUG`).

*Bytes.* The stream of a peer is cut into cells as large as a message header. A
frame is a header cell and the payload cells after it. That the payload of the
wrong frame fails the checksum, and that a payload cell is no header, are the
only facts about contents. A read may end anywhere between cells; one that ends
inside a cell adds nothing `ParseMsg` can use. Pulling the header up and
constructing the header from it are one step: between the two another task can
move the bytes, and what it then reads is undefined; the disturbance is recorded
(`overlap`) in either case, and nothing is claimed of a disturbed stream.

*The connection's lock.* `set_connection_state` holds `cs_state_` while it calls
the callback registered for the state, so that no other state is set before the
callback has returned: `leaving`, and the guard `StateLockFree`.

*Salted keys.* `MakeMapKey` hashes an address with a salt of the process. The
model takes hashes as injective: a key is the pair of the run that computed it
and the ip, or the group, hashed.

*Addresses and bans.* In `Admission` an address is banned by itself: subnets,
which only tests use, are left out, and so are Erase and Clear, which have no
caller. `SweepBanned` advances an iterator whose element it has just erased; the
outcomes are that it goes on or that it stops early, so it removes any of the
expired bans (`Swept`). `Select` of the address manager may return any address.
A node is given a name that is free, and the name is used again. The threads'
record keeps one history variable, `barred`: the address was banned when the
attempt began and has been ever since.

*A torn dump.* A crash in `DumpPeers` leaves a prefix of the file. One cut at the
end of a field parses; the fields come in the order of their numbers in
`peers.proto`, the entries of a map in any order. Any other prefix is refused.

*The pool.* A bounded number of threads and queued tasks, taken in any order
where the order does not matter (`MsgStream`) and in the order of the queue where
it might (`TimerMng`).

*Small bytes.* `Wire` writes bytes below a `Base` of 5, of which the three largest
are the marks of longer counts, and `Encodings` bytes below a `Radix` of 8, of
which the upper half has the sign bit: the sizes at which an encoding changes are
as they are in the code, at values that can be enumerated. `NetAddress` has whole
addresses, sixteen bytes of 256 values, and text only as what it shows.

*Uninitialised memory.* A read past the end leaves the bytes of the memory it was
to fill. They may be any of `Junks`, one pattern of eight bytes for all reads of
an object. The remembered hash of a transaction that a constructor leaves alone is
the null hash or `MemoryHash`.

*Hashes* are injective: of a payload, of a transaction, of two hashes.

*The node's threads.* In `NodeTimers` a pointer to a timer is read or written in
the step of the call it is used in. A task that aborts (`Lifecycle`) does not end
the process: `HandleAbort` tells the main thread to stop and puts its own thread
to sleep for ever, so `stuck`, and `crashed` in `TimerMng`, say that this thread
will not go on.

*Histories.* `Relay` keeps the addresses it sent in one sequence (`sent`), and of the
messages they went in the lengths (`lengths`): what is claimed of messages is their
size, and what is claimed of addresses does not depend on where a message ends.
`TimeData` takes any ascending order of the samples for what `std::sort` leaves.

*Random choices* (delays, which interface is advertised among equals, which
address is selected) are any choice.

## 3. What is checked

Deadlock is not checked: every component may stop for good (the process ends, the
connection is over, the bound on restarts is reached).

| run | shows | states |
|---|---|---|
| `timer` | callbacks do not overlap, an abort has a client's race behind it, no listed timer is left neither armed nor on its way; a listed timer fires, periodic ones again and again, unless clients push its deadline on for ever; a call ends | 808 k |
| `stream` | an undisturbed stream is handled in order; only a disturbed one is misread; every frame received is handled in the end | 539 k |
| `connection_inbound` | a rude peer: version before all else, one version, no slot kept, the handshake ends | 41 k |
| `connection_outbound` | a polite peer, two tasks at once: no charge, also not for a message dropped as not valid, a closed connection stays closed; `Connection` implements `MsgStream` | 3.10 M |
| `peers_safety` | the tables are sound, with crashes and a restart | 330 k |
| `admission` | the limits hold, one outbound node per address, a banned address gets no node, a ban lasts to its end through sweeps and restarts, but for a crash or a start that fails; the outbound list fills up | 410 k |
| `node` | `Relay`: limits, no address told twice too early, every address accepted is sent, overwritten, written past the end or was late, only our own are advertised, a queued address is sent. `NodeTimers`: the timers of a node are used as `TimerMng` allows, a disconnection gives them all back, an abort or a null call has its race behind it, the node is released | 767 k |
| `process` | the pool loses no wakeup and no task and ends; the detector has its orders in time; start and stop keep the tables and end; messages are delivered as sent, and nothing else is accepted; groups, reachability and ban keys; ancestors, chain, locator, the genesis block; scripts, targets, Merkle roots, transactions; the clock's offset; the circular buffer | 206 k |
| `connection_version_twice`, `connection_pong`, `peers_found`, `admission_self` | the code departs from what its comments say (section 5) | - |

### The bounds, and why they are enough

* `TimerDeadlines`, and with it `TimerMng`: two timers and two pool threads are what an
  overlap of a callback with itself, or a stop racing a call, takes. One timer may be
  reset and the other paused. The queue holds two tasks, so a scan can find it full. A
  timeout of one tick, so that a reset at every tick keeps a deadline from ever
  passing. A timer that a client re-arms while a scan is looking at it may be taken all the
  same (`MovedOn`).
* `MsgStream`: frames with and without a payload, two of each, so that a task can
  be at any step of one frame while another is at any step of the next or of the
  one after it; two threads, one task queued beside the two that run.
* `Connection`: a polite peer (version, verack, a message that is not valid, ping)
  against two threads, and a rude one (verack, a version that is not valid, two that
  are, verack, another message, ping, pong) against one, so that the sequence can be
  longer; all timeouts and events run beside the threads in both. Any version may be
  one that is refused.
  `PingTimeoutCb` is called once: its second call differs only in the number of
  pings sent.
* `Peers`: two ips of one group, one of them with two ports, is the smallest set
  in which a newcomer meets the same ip, and the same group with another member.
  One restart suffices: keys of two salts are then in one table.

* `Admission`: three names for outbound nodes with a limit of two, two for inbound
  nodes with a limit of one, so that a list can outgrow its limit if a test is
  wrong; two addresses, so that one can be connected or banned while the other is
  being tried. A ban lasts one unit of a clock of two: it ends, is renewed and is
  swept within a run. One address waits to be banned at a time.

* `NodeTimers`: three kinds of timers, of which the reads restart one
  (`no_receiving`), a second verack starts one again (`ping`), and the relay has
  one it may find null (`broadcast`); one worker, so that a callback that stops its
  own timer meets the other threads and not another callback.
* `Relay`: a queue of two, one known address and messages of one, so that the queue
  overflows, an address is forgotten and a pass sends more than one message; one
  thread advertises, and may come at every step of a pass; four addresses are sent.
* `ThreadPool`: two threads and three tasks, so that one task waits while both run.
  `LockOrder`: two threads and three locks in stacks of three, with reentry. `TimeData`:
  two handlers at once, three samples, which is its limit. `CircularBuffer`: three
  cells, so that head and tail pass the end in every relation.
* `Lifecycle`: two jobs outstanding and two changes of the tables, any step failing.
* `Wire`: for every class, values on both sides of each test: counts of one byte
  and of more, strings within and beyond their limit, objects larger than a block.
  Payloads arrive short by 1, 3 or 9 bytes, or with one more. `RejectCodes` stands for
  the eight codes of `reject.cpp:44-51`: two that are known and one that is not.
* `NetAddress`: an address on each side of the limits of each range, masks and
  prefix lengths around the ends of 32 and 128; a 6to4 address whose embedded IPv4
  address is also its last four bytes, and an IPv6 network of 32 bits that is all zero.
* `BlockTree`: a chain of sixteen, so that the steps of a locator double, with forks
  at 2 and at 14 and a second root; a stack of a few calls, of which the
  number makes no difference.
* `Encodings`: numbers, data and targets on both sides of every size. `Transactions`:
  two objects, a sum within the limit and one beyond the width of an amount.

What is proved has no such bound. The constants that bound a run (tasks, reads,
restarts, jobs, changes, veracks, addresses sent, the depth of a lock stack, the clock
and the addresses waiting to be banned in `Admission`) may be any numbers there.

### Fairness

* The timer thread and the threads of both pools are never stopped by the program
  while it runs, and no callback blocks for ever: weak fairness of their steps.
* The clock advances (`TimerDeadlines`: weak fairness of `Tick`). That is all that
  is assumed of deadlines: `ConnReadCb` resets a timer at every read, so a deadline
  may be pushed on for ever, and `TimersGoOn` excludes exactly this. It does not
  take for granted that the timer is armed, so a re-arm that is lost breaks it.
* `Admission`: `Select` draws at random and the outbound timer comes round again and
  again, so an address that can be tried infinitely often is tried infinitely
  often (strong fairness per address); the steps of an attempt and of an erasure
  follow one another without waiting (weak fairness). `OutboundsFill` holds unless
  disconnections and failed connects go on for ever.
* The fairness of `MsgStream` assumes a peer that sends its stream to the end;
  that of `Connection` assumes nothing of the peer: only of the thread that starts the connection, of
  the handshake timeout, and of the pool.

* `ThreadPool`, `Lifecycle`: the operating system runs the threads, a notification
  that was begun is given, a task ends (weak fairness of each). Nothing forces a
  new task, a signal or the destructor to come.
* `Relay`: the relay timer is periodic and its callback goes on to its end.
* `NodeTimers`: the threads that are in the middle of something go on (weak
  fairness); the pool takes what is in its queue (strong fairness per worker, for
  the queue may be empty in between). The timer loop need not find anything due.

## 4. What is proved

Every theorem is checked by TLAPS for every value of the constants that satisfies the
assumptions of its module (the sets are finite where a cardinality is taken, `None` is
none of the elements, limits are positive, a stream consists of whole frames, an
address has one ip and an ip one group). An invariant is proved by strengthening it to
one that every action preserves, called `IInv` or `<Part>IInv`; below is what the
strengthening adds and which step needs it.

* **`TimerMng_proofs`**: `TypeCorrect`, `CrashOnlyByRace`, `CallbacksNeverOverlap`,
  `NoTimerIsLost`.
  `NoOverlap` is not inductive: that a timer is dispatched once at a time depends
  on its being disarmed while a call is outstanding, and that `InvokeTimerCb`
  finds the timer it erases depends on its staying listed meanwhile. `IInv` says
  both of every timer that no client raced with: one holder (`OneHolder`), quiet
  and listed while held (`HeldQuietly`). The scan is the step that takes work:
  what it appends are distinct timers that no task held, for they were armed.
  `NoTimerLost` is inductive with the types: as many different tasks as there are due
  timers are all of them (`DispatchIsOnto`), so what a scan disarms it has queued.
* **`MsgStream_proofs`**: `TypeCorrect`, `OrderKept`,
  `DisconnectedOnlyByDisturbance`. `IInv` ties the position in the buffer to the
  history: while the stream is undisturbed at most one thread is in `ParseMsg`,
  and where it is in there determines where the next header is in the buffer
  (`Position`).
* **`Connection_proofs`**: first `Implements`: every step of a connection is a step of
  `MsgStream` or leaves its variables alone (`StreamSpec`). The inductive invariant of
  the stream then holds of a connection by instantiation, and is part of the
  connection's own. With it: `TypeCorrect`, `HandshakeInOrder`, `OneVersionAccepted`,
  `DisconnectionIsFinal`, `AcceptedIsUnlisted`, `PoliteIsNotCharged`. What a handler
  has tested and may still rely on is said per place in the handler: that a version
  was accepted before anything is established (`Handshake`), that without overlap
  no task that may accept a version runs once one was accepted (`OneVersion`), that a
  final disconnection finds every thread idle (`Closed`).
  `AcceptedIsUnlisted` assumes `Inbound`, because it is false of connections we make
  (section 5); `PoliteUncharged` speaks of streams that are `Polite`: the version is valid
  and comes first, the verack next, and what follows may be dropped as not valid. The proof
  relates the handshake to how much of such a stream has been handled.
* **`Node_proofs`**: `ManagerIsRefined`: the node, its handlers, callbacks and threads
  take steps of the timer manager only (`TimersRefineMng`). The invariant proved in
  `TimerMng_proofs` is instantiated for the timers of a node (`Manager`), so that what
  was proved of the manager need not be proved again (`CallbacksOfNodeNeverOverlap`),
  and `TimersIInv` adds to it what `DisconnectionStopsTimers` needs: every
  listed timer but an orphan is the one its pointer is to (`Pointers`); what the
  disconnecting thread has not yet stopped is still in its order (`ToStop`); no pointer
  is reset before a disconnection (`PointersStay`), and until a timer fires every
  pointer is to a listed one (`BeforeFiring`), so that no call is null, or finds nothing
  to erase, but for a reason. `RelayIsSound` is every
  conjunct of `RelaySafe`: `known` is the end of all that has gone (`EndOf`), in which
  equal addresses are further apart than it is long (`Spaced`), and during a pass what is
  in the queue was copied, has gone, or came late (`InPass`), so that clearing the
  queue after the pass loses only what came late.
* **`Peers_proofs`**: `TypeCorrect`, `TablesSound`, `GroupsApart`, `RandOrderListsAll`,
  and the action property `OnlyTheTerribleAreForgotten`. The invariant
  has to speak of the file as well as of memory, since `Start` makes the one the
  other; that a truncated file is sound rests on the order of its fields. In
  memory, that `AddForgets` leaves no dangling key needs that no group is in both
  tables, and the converse step `MakeTried` needs nothing but itself.
* **`Admission_proofs`**: `TypeCorrect`, `LimitsHold`, `OneNodePerAddress`,
  `BannedNeverAdmitted`, and the action property `BansKept`. None of the lists'
  properties is inductive: the test of the limit, of the address and of the ban is
  one step, the listing a later one. `ConnectingOK` and `AcceptingOK` say what a
  thread may still rely on when it lists: what it has tested, because it is the
  only thread that lists nodes of its direction, and all others only remove some
  (`Fewer`). `DiskOK` is for `BansKept`: what a file holds and is still in force is in memory
  while the process runs, so that the dump of a stop loses nothing. That the node being registered is still listed rests on its not being
  registered: only the callback erases it.
* **`Process_proofs`**: what the process is made of, start and stop, pool and locks.
  `ProcessIsSafe` (`LifeSafe`): what may be loaded, running or alive is tied to
  the place of the main thread in the start or the stop (`FileStages`,
  `ContextStages`, `LoopStages`, `JoinStages`); from it also that the stop takes no
  new job once it dumps (`StopTakesNoNewJob`). `PoolIsSafe` (`PoolSafe`):
  `NoLostWakeup` counts: while one thread sleeps, the tasks
  queued are at most the notifications to come and the threads about to test the
  queue. The step that takes the work is the thread that falls asleep, which is one
  of those counted, and it needs the queue to be empty. `ExitedForGood` says that a
  thread leaves only a stopped pool with an empty queue, and that both last.
  `DeadlockIsDetected` (`LocksSafe`): two threads that wait for each other each have the
  pair on record, in opposite directions, because the orders of a stack are
  recorded as long as its entries are in it (`Ordered`), and no pair is on record
  both ways without an alarm (`OneWay`). That deleting a lock takes no order that is
  still needed rests on its being in no stack.
* **`Data_proofs`**: what the data is trusted for. `HashesAreOfContent`: the invariant
  adds only that objects are records; a
  move changes two objects at once and is the case with work. `BufferIsAQueue`: the
  cells from the head on, round the end, are the queue (`Holds`); the remainders are
  subtractions because an index passes the end once at most (`GoingRound`).
  `AdjustedTimeIsTheMedian`: as long as no two calls overlapped, the known
  addresses stay within their limit (`Samples`), `sorted_` is an ascending order of
  `values_` between the sort and the median (`Stages`), and the offset is the median, or
  0 where that is too far off, whenever no sample waits to be counted (`Settled`). That
  the middle of an ascending order splits the samples into halves is
  `MedianInTheMiddle`, and that no two values do is `OneMiddle`; both count the samples below and above by their places in the order.

  `TreeIsSafe` takes any blocks with any parents, work and numbers of transactions, and any
  size of the stack. `TreeIInv` says that heights go up by one along parents (`TreeShape`), that a skip
  pointer, where there is one, is to the block of `GetSkipHeight` on the path (`Skips`),
  that the chain is a path (`ChainInv`), and what `LoadGenesisBlock` leaves
  (`GenesisInv`). `AncestorOnPath` is proved of the walk with skip pointers, as it is
  written; of an index the code makes, none of whose skip pointers is set, it is the case
  of the theorem in which the walk takes parents only. The walk by skips is compared with the path of
  parents block by block: `AncestorOnPath` (it ends where the parents lead, whichever
  pointers it takes), `SetTipIsPath` (stopping at the first cell that is right loses
  nothing, for below it two paths agree), `FirstIsLastCommon` for `FindFork` and
  `LocatorFollows` for locators.

  `AddressIsSafe`: `AddressIInv` says that the address, the network made of it, its key
  and the network read from the key belong together. That `GetGroup` and a network of
  its length agree is proved byte by byte from what a mask of so many bits does
  (`AlikeUnderMask`), for native addresses; of those that carry an IPv4 address it is proved that they are of
  the group of that one (`TravelsInGroup`). The proof corrected the property: a network
  of 32 bits that is all zero matches every IPv4 address, and a 6to4 or Teredo
  address has the group of the IPv4 address in it whatever its own bytes are, so
  `GroupsAreNetworks` compares native addresses of one kind.

  `NothingLostInEncodings`: `ScriptIInv` says where each pushed item ends in the script,
  that its bytes are there as far as the script reaches, and that a reader in step is at the
  end of what it has popped. `Pop` hands out data without stepping over them, so a reader is
  in step always if it does so itself (`skips`), or else until the first data (`InStep`); a step of the reader is then a statement about the bytes of
  one item (`SizeRead`, `PopReads`). `CompactIInv` relates bits, target and compact form;
  that overflow is exactly what does not fit, and that the second compact form keeps the
  leading two bytes, come from the division of a number into its highest bytes and the
  rest (`PartsFacts`, `OverflowIsExcess`). For the Merkle root, the levels of two lists
  of one length are of one length each, so that they shrink to one cell together
  (`RoundShrinks`), and are equal from the last back to the first (`RoundTellsApart`,
  `RootTellsApart`). `AmountsAreSums`: up to the first value that exceeds the limit the
  sum has not wrapped, because the limit is less than half of what an amount can count
  (`SummedOnce`). `ConsensusDataIsSafe` puts these together.

  What these proofs need of recursion and induction is at the head of the block index
  part: `SmallestOf`, `NatSetInduction` and `Recursion`, from the well-foundedness of
  the numbers.

Each of these theorems but the type theorems, the invariance theorems,
`StopTakesNoNewJob`, `CallbacksOfNodeNeverOverlap`, `AncestorOnPath`, `SetTipIsPath`,
`HashesAreOfContent`, `NothingLostInEncodings` and `AmountsAreSums` states a property that a run of
section 3 checks on its small instance; `PROJECT.json`, "theorems", pairs them.

Only model-checked, and why:

* Liveness: `TimersGoOn`, `EveryFrameHandled`, `HandshakeEnds`, `OutboundsFill`,
  `QueuedIsSent`, `NodeIsReleased`, `PoolEnds`, `LifeEnds`. Properties under fairness
  need ENABLED, which this prover does not reason about.
* `WireSafe`: what a serializer writes and a deserializer reads follows the nesting of
  the classes, with folds over lists of fields of many kinds, one of them over an
  operator given as a parameter. A proof takes one lemma of reading back for each kind
  and each way of being cut short; none of the other theorems rests on it.

## 5. Where code and comments part

Four have a run of their own; `PROJECT.json`, "findings", quotes the lines.

* `connection_version_twice`: the test for a second version and the assignment
  that it looks at are apart; two tasks of a connection can both pass it.
* `connection_pong`: the nonce of a ping sent is never recorded, so no pong is
  expected and no ping times out.
* `peers_found`: keys of an earlier run are never found again.
* `admission_self`: no node is ever in the list `CheckIncomingNonce` looks through,
  so a connection to ourselves is accepted.

Others are behaviours of the models that a reader of the code should know:

* A node that fails between its listing by `ConnectNode` and the registration of
  its callback is marked disconnected and stays in the list:
  `DisconnectedIsUnlisted` holds of accepted connections only.
* `rand_order_keys_` is not rebuilt from `peers.dat`, and `GetAddrs` indexes it:
  `RandOrderOfAllKeys` holds until a restart finds addresses on disk, and this is
  how `RandOrderUntilRestored` says it.
* `MakeTried` reports an address moved to the tried table also when `Insert` finds
  the place of its group taken; the address is then in neither table, and the one
  of its group that was new is dropped from the new table.
* That failed node keeps its place in the outbound list for good, and with it one
  of the `kMaxOutboundConnections` and its address (`ConnectLists`, then
  `Disconnect` before `ConnectRegisters`).
* `CheckBanned` has no caller in the program: bans come from `banlist.dat`. The
  model keeps it, as the code will run it.
* A start that fails before `LoadPeers` ends in a dump of the empty manager over a
  readable `peers.dat`, one that fails before `LoadBanList` (`p2p.cpp:28-32`, then
  `main.cpp:54-55` and `p2p.cpp:121`) in a dump of the empty list over `banlist.dat`
  (`StartFails` of `Peers` and of `Admission`): every ban ends, without a crash.
  `BansLast` names this step and the crash as the two that end bans.
* A version that is not valid is dropped without a charge (`msg_process.h:31`), and
  the verack the peer sends next is charged (`message.cpp:168`). `Polite` asks for a valid
  version.
* `PushAddrToSend` writes one place past the end of a full queue now and then
  (`node.cpp:28`): `RelaySafe` names the addresses it loses (`overrun`).

Those below were met while modelling and are what the models do; each is where the
property that leaves it out says so.

Timers and nodes:

* A second verack replaces the timers of the node, and nothing can stop the first
  ones any more (`orphans`). A disconnection between a test and the use of a timer's
  pointer leaves a call through null (`nullCall`).
* `PingTimeoutCb` pings with the default protocol version, not with the node's.
* `IntervalNextSend` is in microseconds and is multiplied by 1000 into the
  milliseconds of `set_interval`, a `uint32_t` (`net.cpp:190,197,227`).
* The eviction of inbound nodes is commented out.

Start, stop and threads:

* `HandleAbort` lets the aborting thread sleep for ever, and the stop waits for the
  threads of the pools: a process whose task aborted need not end
  (`EndsUnlessAborted`).
* Nobody waits for the pools before `FullNode` is gone (`BadUseNeedsLeftover`), and
  the context of `P2P::Start` refers to a local list that is gone
  (`DanglesOnlyWithConnect`).
* The configuration file is read and has no effect.
* The detector of lock orders does not see a ring of three threads. A lock leaves the
  stack of its thread a moment before it is unlocked (`sync.h:45-49`), so the owner of
  a lock may have it on no stack (`StackIsOwned`).
* `AddTimeData` tests the number of known addresses with `==`: two calls at once
  pass the limit for good. With an even limit a full filter never moves the clock
  again.

Serialization:

* `Deserialize` of a class returns nothing (`serialize.h:257-261`), so the sum that
  is compared with the length of the payload is arbitrary, and a good message may
  interrupt the process (`got.interrupted`).
* A count of more than a byte is read over memory that was not cleared
  (`serialize.h:414`).

Addresses:

* `IsRFC6052` tests 64 bits of the /96 its comment names.
* An invalid network reads back from its key as a valid one; those of Tor and
  internal addresses cannot be read back.
* `connector.cpp:306` ignores the result of `ToSockAddr`.
* `SubNet(NetAddr&&)` tests the address after it was moved from; every caller passes an
  address it keeps, so it is not used and not modelled. `LookupSubNet` and
  `SubNet(addr, mask)` are used by tests only.

Chain and consensus data:

* `BlockIndex::GetAncestor` that is not const (`block_index.h:73-76`) calls itself and
  not the const one, so `BuildSkip` of a block with a parent never returns, nor does
  `AddToBlockIndex` of a header whose parent is known, nor `LoadGenesisBlock` of it,
  which holds `cs_chain_state_`. `pskip_` is described as "pointer to the index of some
  further predecessor of this block" (`block_index.h:185`) and is never set. `BlockTree`
  has the call that hangs (`building`, `GetAncestorAgain`).
* The program adds the genesis block and no other; the rest of the chain code is
  run by tests.
* `Chain::Next` does not test that the block is in the chain, though
  `chain_state.h:56-57` promises `nullptr`. `LoadGenesisBlock` of a second block without a known parent
  ends the process in the assertion of `ConnectTip` (`chain_state.cpp:177`).
  The assertion of `IsValid` (`block_index.cpp:9`) is inverted.
* `BytesEncoding` takes a `uint64_t`, so `value < 0` is never true and a `ScriptInt`
  below zero is encoded until memory is gone, though `script.cpp:78-86` describes
  negative numbers; one of four bytes is read too large by 2^32.
* The move assignment of `Block` (`block.cpp:203-210`) does nothing;
  `ComputeMerkleRoot` of no transactions reads the front of an empty list, and
  lists of different length may share a root.
* `Script::Pop` with data (`script.cpp:206-210`) leaves the iterator before them, so a
  caller that does not step over them reads them as opcodes. No code calls it.
* The constructors at `transaction.cpp:359-386` leave the remembered hash
  uninitialised, so that of a constructed or copied transaction, the genesis
  transaction among them (`params.cpp:76-80`), may be what the memory held;
  `Deserialize` (398) does not reset it. The assignment and equality of `TxIn`
  ignore the witness; `OutPoint`'s `operator<` calls itself.
* `CircularBuffer` is used by tests only.

## 6. What is not modelled, and the plan

Next, in this order:

1. `WireSafe` for any messages: the readers and writers of `Wire` as functions, as they
   are in `Encodings`, then one lemma per class.
2. In `Admission`: subnets in the ban list (now that `NetAddress` has them), and
   addresses given on the command line (`ConnectNodes`, which has no limit).

Not modelled, and why:

* `block_sync.cpp`: lines 11-811 are compiled out (`#if 0`). Of the orphan pool that
  is left only `EraseOrphansFor` is called, on a pool nothing is added to. The
  bookkeeping of blocks in flight in `node.h` serves requests that no live code makes.
* `Semaphore`, `SemaphoreGrant`, `ThreadGroup` and the sleeps of `ThreadInterruptor`: only
  tests use them. The flag of the singleton `ThreadInterruptor` is used: the stop sets it
  (`executor.cpp:50`), a start clears it (`p2p.cpp:63`), and the timeout callbacks of
  nodes, relay and connector return at once when they see it (`node.cpp:166`,
  `net.cpp:182`, `connector.cpp:139`). `Lifecycle` has the stop; `Connection`, `NodeTimers`,
  `Relay` and `Admission` describe a process that has not been told to stop, and say nothing
  of what their timeouts do between the interruption and the end.
* `DnsLookup`: it adds what the resolver returns to `Peers`, where any address may
  come anyhow.
* Hashing, 256-bit arithmetic and random numbers: pure functions on bytes, for which
  test vectors are the better tool; the models use hashes that tell contents apart
  and integers.
* Options, configuration, logging, paths: read once and in sequence, without
  behaviour over time.
