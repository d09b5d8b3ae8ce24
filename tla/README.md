# Verification of h2engine

TLA+ models, TLC checks and TLAPS proofs kept beside the h2engine sources.
Paths below are relative to `src/` of the repository checkout, so
`src/fflib/rpc/ffbroker.cpp` is the broker.

## 1. Inventory of the system

h2engine is a game-server platform: one `h2engine` process (gate + broker) and
several `h2worker*` processes (one per script language) that register with the
broker over TCP. Every process is built from the same C++ library `fflib`.

| component | sources | state | operations | who it talks to |
|---|---|---|---|---|
| TaskQueue | `fflib/base/task_queue.h`, `lock.{h,cpp}`, `thread.{h,cpp}` | `m_flag`, `m_tasklist`, one mutex, one condition variable, one consumer thread | `post`, `consume`, `run`, `close` | every other component posts to one; a component is single-threaded because all its handlers run on one queue |
| TimerService / Timer | `fflib/base/timer_service.h` | pending list, multimap by deadline, timer thread | `onceTimer`, `loopTimer`, `addNewTimer`, `processTimerCallback`, `stop` | posts the callbacks to a TaskQueue |
| smart pointers | `fflib/base/smart_ptr.h` | strong and weak counters | copy, `reset`, `lock` | sockets, entities |
| EventBus | `fflib/base/event_bus.{h,cpp}` | listener lists | `listenEevnt`, `fireEvent` | worker, game modules |
| IO events | `fflib/net/ioevent_epoll.*`, `ioevent_select.*` | fd table, send buffers, deferred functions | `runOnce`, `regfd`, `unregfd`, `asyncSend`, `safeClosefd` | SocketTcp, AcceptorTcp |
| SocketTcp / AcceptorTcp / Connector | `fflib/net/sockettcp.*`, `acceptortcp.*`, `connector.h` | fd, self reference | `open`, `close`, `handleEvent`, `sendRaw` | IO events below, SocketProtocol above |
| framing | `fflib/net/socket_protocol.h`, `message.h`, `wsprotocol.h` | bytes got, header, body; websocket state | `handleSocketEvent`, `handleRecv`, `buildPkg` | turns bytes into messages |
| FFBroker | `fflib/rpc/ffbroker.*` | `node_sockets`, `service2nodeId`, id counter, a session per connection | `handleRegisterToBroker`, `handleBroken`, `handleBrokerRouteMsg`, `processSyncClientReq`, `sendToRPcNode`, `syncNodeInfo`, `close` | every FFRpc |
| FFRpc | `fflib/rpc/ffrpc.*`, `rpcbase.h` | broker socket, own node id, copy of the registry, pending callbacks | `open`, `connectToBroker`, `handleBroken`, `timerReconnectBroker`, `docall`, `sendToDestNode`, `handleRpcCallMsg`, `handleBrokerRegResponse`, `call`, `close` | the broker, and through it other nodes |
| FFRpcMemoryRoute | `fflib/rpc/rpcbase.h` | node id -> FFRpc of this process | `addNode`, `getRpc` | broker and gate inside `h2engine` |
| FFGate | `fflib/server/ffgate.*` | client sessions and the worker each is bound to | `handleMsg`, `handleBroken`, `changeSessionLogic`, `closeSession`, `routeMsgToSession`, `broadcastMsgToSession`, `close` | clients, workers |
| FFWorker | `fflib/server/ffworker.*` | sessions known to the worker | `processSessionReq`, `processSessionOffline`, `processSessionEnter`, `sessionChangeWorker`, `sessionClose`, ... | gates, scripts |
| Entity, EntityMgr, CmdMgr, props | `fflib/server/entity.*`, `cmd_util.*`, `prop.h` | entities by type/uid and by session | `add`, `del`, `get`, `setSession` | worker, game modules |
| DbMgr / FFDb | `fflib/server/db_mgr.*`, `fflib/db/*` | connection pool, one queue per connection | `initDBPool`, `asyncQuery`, `doQuery`, `cleanup` | worker queue (results come back as posted tasks) |
| HttpMgr | `fflib/server/http_mgr.*` | one queue | `request`, `syncRequest` | worker |
| game modules | `src/task`, `src/item`, `src/map`, `src/npc`, `src/skill`, `src/chat`, `src/player` (paths below `src/src`) | tasks, items, AOI grid, ... | commands of clients and events | entities, event bus |
| log, perf monitor, tools | `fflib/base/log.*`, `perf_monitor.*`, `*_tool.h`, `arg_helper.h` | buffers, config | | all |
| script bindings | `workerlua`, `workerpy`, `workerjs`, `workerphp`, `workercpp`, `fflib/python`, `fflib/server/script*.h` | embedded interpreters | | FFWorker |
| C# port | `workercs` | a second implementation of the library and a game | the same | the same protocol |
| vendored / generated | `lib3party`, `fflib/db/sqlite3*`, `fflib/xml`, `fflib/server/gen-cpp`, `fflib/rpc/msg_def` | | | |

What makes these components correct, and what is hard about them:

| component | correct when | hard because |
|---|---|---|
| TaskQueue | tasks run once, one at a time, in order of posting; `close` waits for the thread; no wake-up is lost | `m_flag` is read without the mutex; posters, closers and the thread interleave; the flag may change between two checks |
| TimerService | a timer goes off once (or again and again), not before its time, whatever happens to the clock | wall clock, timers added by callbacks, `stop` from another thread |
| smart pointers | an object is destroyed once, after its last strong reference | counters shared by threads; `lock` of a weak pointer during the last release |
| SocketTcp, epoll loop | bytes come out in order; a connection that broke is reported, and then no more of it; no event reaches another connection that uses its fd | edge-triggered events, two threads closing, fd numbers used again, short writes |
| framing | the messages that come out are those that went in, however the bytes are cut | cuts inside the header, empty bodies |
| FFBroker | names, ids, sockets and sessions agree; a message goes to the node it was meant for or back | connections that break in any state, names registered again before the old connection was seen broken, messages addressed by ids that are out of date |
| FFRpc | each call gets its own answer; a node that loses its connection comes back | the opening thread against the queue's thread, refusals, several BROKEN events and timers, lost messages |
| FFGate, FFWorker | a session is known to one worker, the one its gate routes to; it is forgotten everywhere when the client leaves | migration between workers, messages in flight, closing from both ends |
| EntityMgr | the maps by id and by session agree | the session changes under the entity |
| DbMgr | each query has one answer, on the queue of its caller | shut-down, an empty pool, a connection that fails |
| game modules | bags, tasks and the grid keep their invariants over any sequence of commands | long sequences of legal commands |

The `hazards` of PROJECT.json place each hard behaviour at its line, with the
property that watches it, or with the reason why none does.

Of the 350 000 lines of the repository most are vendored (sqlite, PHP, Lua, python
headers) or generated (thrift messages); the platform's own C++ is some
25 000 lines, and its core (`base`, `net`, `rpc`, `server`) is what is modelled here.

## 2. How the parts interact

A component owns an `FFRpc` (or is the broker) and so a TaskQueue; the IO
thread turns socket events into tasks, timers and database threads post their
callbacks, and so every handler runs alone. This is why the modules of broker, nodes, gate, workers
and games take **one handler as one step**, and module `TaskQueue` is where that is
justified: it shows, thread step by thread step, that a queue implements
`FifoExecutor`. Where threads meet without a queue, a step is one access to
what they share: `IOEventEpoll`, `SmartPtr`, `TimerService`, `SyncCall`, `DbMgr`, and
the functor of a login in `ChatRoom`.

```
 client --TCP--> FFGate --FFRpc--\              /--FFRpc-- FFWorker -- EventBus -- game modules
                                  == FFBroker ==                     \- scripts
 (gate and broker: one process)  /   (TCP links)  \--FFRpc-- FFWorker -- DbMgr (a TaskQueue per connection)
```

A node registers a name with the broker, is given a node id, and is sent the
registry (name -> id) whenever it changes. A call looks the id up in the copy
of the caller, and the broker routes it by id alone. The answer is routed to the
id of the caller, and its callback is found by `callbackId`.

## 3. Modules

| module | what it is | code |
|---|---|---|
| `FifoExecutor` | what the owner of a TaskQueue relies on | (abstract) |
| `TaskQueue` | `post`, `consume`, `run`, `close`, the mutex and the condition variable, a step per access to shared state | `fflib/base/task_queue.h` |
| `LogLemmas` | lemmas about logs, induction over the naturals, nested sequences | |
| `RpcNet` | links between nodes and broker, the messages, the memory route | `fflib/rpc/rpcbase.h`, `fflib/net/*` as far as seen from above |
| `FFBroker` | the broker against peers that do anything; also the assumption `EnvStep` it makes about them | `fflib/rpc/ffbroker.*` |
| `FFBrokerProofs` | theorems about it | |
| `FFRpc` | the nodes | `fflib/rpc/ffrpc.*` |
| `RpcSystem` | broker and nodes, lost connections, fairness, the properties of the whole | |
| `RpcSystemProofs` | theorems about broker and nodes together | |
| `BrokerRestarts` | `RpcSystem` with a broker whose process ends and is started again | `fflib/rpc/ffbroker.*`, `ffrpc.cpp` |
| `BrokerRestartsProofs` | theorems about it | |
| `SyncCall` | `call()` against the IO thread, the TaskQueue and other callers | `fflib/rpc/ffrpc.h`, `ffrpc.cpp` |
| `SessionDirectory` | what the gate promises about its sessions | (abstract) |
| `SessionNet` | messages between gate and workers, the registry the gate sees | `fflib/rpc` as `RpcSystem` shows it |
| `FFGate` | the gate: clients, sessions, requests of the workers, shut-down | `fflib/server/ffgate.*` |
| `FFWorker` | the workers, and what a game asks of them | `fflib/server/ffworker.*` |
| `SessionSystem` | clients, gate and workers together, workers whose connections break or whose processes end, and that come back | |
| `SessionProofs` | theorems about it | |
| `IOEventEpoll` | the epoll loop, registration, deferred closing, and `SocketTcp` as two threads use it | `fflib/net/ioevent_epoll.*`, `socket_op.h`, `sockettcp.cpp`, `acceptortcp.cpp` |
| `SendBuffer` | sending: what the kernel takes and what is kept | `fflib/net/ioevent_epoll.*`, `socket_op.h` |
| `IOEventProofs` | theorems about `IOEventEpoll` and `SendBuffer` | |
| `SocketProtocol` | from reads to messages, binary and WebSocket | `fflib/net/socket_protocol.h`, `message.h`, `wsprotocol.h` |
| `SmartPtr` | the counts under `SharedPtr` and `WeakPtr` | `fflib/base/smart_ptr.h` |
| `TimerService` | timers, a clock that is set, `stop()` | `fflib/base/timer_service.h` |
| `ThreadProofs` | theorems about `TaskQueue`, `SmartPtr` and `TimerService` | |
| `DbMgr` | the pool of database connections | `fflib/server/db_mgr.*` |
| `ChatRoom` | chat: login, talk, logout, its table, the entities it files | `src/chat/chat.cpp` (below `src/src`), `fflib/server/entity.cpp` |
| `ServerProofs` | theorems about `DbMgr` and `ChatRoom` | |
| `MC*` | the instances; `MCNet`, `MCThreads` and `MCServer` hold several modules each | |

State and code:

* **Broker and nodes.** `node_sockets`, `service2nodeId`, `m_for_allocID` are the fields of
  `FFBroker` with these names; `session[c]` is the `SessionData` in the socket
  object of connection `c`. A connection has an end on each side: `open`, `broken` (the BROKEN
  event is posted and not yet handled) or `none`. An identity in `Conn` is used
  again when both sides have forgotten it, with a new session, as a new socket
  object has. `toBroker[l]` and `toNode[l]` are what is under way on a link: bytes in the
  socket and tasks posted by the receiver's IO thread. Both are FIFO, so they
  are one queue. When a connection breaks each side still gets some prefix,
  and then BROKEN. The queue of a node of the broker's process (`InProc`)
  stands for the tasks it and the broker post to each other. Of `FFRpc` the fields
  keep their names. `pc[n]` is the thread that
  calls `open()` and `close()`, which polls two fields that the handlers change.
  `ran` and `served` are history: which callback ran with the result of which
  call, and which node handled a call for which service; `tag`, a field of the
  messages that the code does not have, names the call for them.
* **Restarts of the broker.** `BrokerEnds` clears the broker's tables and its counter and
  breaks every connection; until `BrokerStarts` a connect fails, which ends an
  `open()` and leaves a reconnect timer set again.
* **Sessions.** `m_client_set`, `m_worker_client` and `m_allocID` are the fields with
  these names. `inbox[c]` is what the gate's IO thread has posted for a client's socket:
  its messages, then its BROKEN. `toWorker[w]` and `toGate[w]` are calls
  through the broker, in the order of their sender, as `RpcSystem` shows. A worker
  is known to the gate by `service2nodeId`, its copy of the registry, which may be late:
  a call to a worker that has gone, or under an old id, ends nowhere. When the connection of a worker breaks
  (`ConnectionBreaks`) the worker goes on with the clients it has, handles what it has received, and registers again by
  `timerReconnectBroker`; what was on its way, and what it sends meanwhile, is lost. Its process may end as well
  (`WorkerEnds`), and then its clients go with it. `num`, `client` and `first` in a message are history, and so are
  `missed`, the sessions whose offline message was lost, and `asked`, those a game asked to move or to close. What
  scripts do is any of the requests `Requests`, at any time; a move may name any index of `Targets`, of a worker or of none.
* **Sockets.** `kernel` says which connection a descriptor denotes, `edge` what
  epoll has yet to report, `m_allIOinfo` which connection a descriptor is
  registered for. `closing[t]` is where thread `t` (the IO thread or another)
  is in `SocketTcp::close()`, one step per access to `m_fd` or `m_refSocket`: the test, the read and the clearing of `m_fd`,
  `unregfd` under its mutex, the BROKEN event with what `m_refSocket` is then, and the end of that reference are six steps. A
  round of the loop collects callbacks under the mutex and then runs them one by one; one event may give up to three.
* **Sending.** A unit on the `wire` carries the number of its message. `room`
  is what the kernel takes, `waiting` its promise to report EPOLLOUT.
* **Framing.** Each action takes one pass of a loop over the bytes of one read; a read
  brings any part of what is left. `script` is what the peer sends (binary messages, a WebSocket of either handshake and its
  frames, or a request that is none), `delivered` what the protocol was given, and `upset` says that a read ended where the code loses
  its place: within the bytes of a head that are zero, within a request that holds "GET" by chance, or within the key of the earlier handshake.
* **SmartPtr.** Each atomic operation on a count is a step, and what follows from
  its result another. `at[p]` is where the thread is that uses variable `p`.
* **Timers.** `thread` is the timer thread between its steps, `real` the true time (history),
  `shift` what was done to the clock. A round is: wait, take over new timers, look at
  the first timers of the map, call.
* **Synchronous calls.** `pc[t]` walks through `call()` and `docall()`; `io` is a message the IO
  thread has compared with `nSyncCallBackId` and not yet stored: an answer, or a request of another node under the same number.
* **Pool.** A TaskQueue of the pool is a list, a batch, what runs, and whether it is open:
  `TaskQueue` shows that this is enough. `query[n].at` is where query `n` is.
* **Chat.** `queries[c]` wait at a database connection, `functor[c]` is the login functor there
  between two accesses to what the worker's thread uses too; `said` counts, as history, what the table should.

An operator whose name ends in `_Something` after the name of another operator
is a mutant: a bug somebody might plausibly write. It is there to show that a
property would notice, and no specification uses it.

## 4. Runs

| run | instance | shows |
|---|---|---|
| `taskqueue` | `MCTaskQueue`: 2 producers, 2 closers, 1 post each and by tasks | no lost wake-up, order, nothing twice, `close` waits, calls return, `ImplementsFifo` and `ImplementsFairFifo` |
| `broker` | `MCFFBroker`: 2 connections, used again any number of times; 1 name and the empty one; 1 node in the process; 3 ids; 1 message under way per link | the five registry invariants and `IdsAreNeverReused`, whatever the peers do |
| `rpc_calls` | `MCRpcSystem`: 2 nodes, one in the broker's process; 2 calls of the kinds ask, tell and unknown interface | each callback runs with its own answer, and does run |
| `rpc_restarts` | `MCRpcSystem`: 2 nodes, 1 call, 1 close, kill or time-out of `open()`, 1 lost connection | a call reaches its service or nobody; broker and nodes agree (`NodesAgree`); nodes are the peers the broker assumes (`ImplementsAnyPeers`) |
| `broker_restarts` | `MCBrokerRestarts`: 2 nodes, the broker's process ends twice, 1 more lost connection | every node has one way back (`NodesFindTheBroker`) and is at last registered for good (`NodesComeBack`) |
| `session_moves` | `MCSessionSystem`: 2 clients with 2 messages each, 2 workers, 2 requests (move, send, broadcast), a game that throws | gate, workers and clients agree; messages are handled, in order, and by a worker that was told of the session |
| `session_all` | `MCSessionSystem`: 2 clients, 2 workers, 1 message each, 2 requests (move, also to an index of no worker, and close), a game that throws, broken connections and ended processes of workers with 1 return, the gate closed | the gate implements `SessionDirectory`; no message about a session that ended; nobody is left on a worker but in the three ways that `NobodyIsLeftBehind` names |
| `net` | `MCNet`: 2 connections and 2 descriptors, reads of 2 units, 1 unit of data per peer, a thread that closes; 3 messages of up to 4 units into a buffer of 2; 2 binary messages, 3 WebSocket frames, or 1 after the earlier handshake, cut anywhere | descriptors, registrations and BROKEN events (`SocketsAreServed`); whole sends; whole messages, but where a cut or a ping disturbs (`upset`, `PingDisturbs`); and what must at last be told or sent |
| `threads` | `MCThreads`: 3 `SharedPtr`, 3 `WeakPtr`; a single and a loop timer of 1 or 4 units, the clock set once, back by 8 or forward by 4; 3 calls of one thread and 1 request of another node | one death of an object; timers kept, on time, not early, not after `stop()`, and at last; a call that waits comes back |
| `server` | `MCServer`: modids 1 and 3, 2 connections, 2 set-ups, with or without a clean-up between them, 2 queries; 3 sessions with one uid, 2 messages | a clean pool runs nothing; queries and answers keep their order while the pool is whole; players keep their count; all that is begun ends |
| `rpc_wrong_answer`, `rpc_cut_at_open` | see section 6 | two findings |

**Bounds.** Each is a guard of the action that counts, and caps what is unbounded in
the code.

* `MaxPosts` (TaskQueue), `MaxCalls` (FFRpc, SyncCall), `MaxAsked` (SyncCall), `MaxMsgs` (messages of a client, or
  of a binary peer), `MaxRequests`, `MaxSends`, `MaxQueries`, `MaxLogins`, `MaxChats`: how often
  something is begun. Two are enough for one to overtake, replace or be mistaken for
  another; `MaxSends = 3` lets one be kept while another is partly written.
* `MaxRestarts`, `MaxCuts`, `MaxBrokerRestarts`, `MaxInits`, `MaxSets`: faults, and what must
  survive them. Two ends of the broker let ids be handed out again while
  nodes hold those of two predecessors.
* `MaxAlloc` (ids of the broker): 3 in `broker`, where a peer addresses all of
  `1..MaxAlloc`, known or not; 4 and 6 elsewhere, which is never reached.
* `MaxInFlight`: messages under way per link in `broker`, where peers send for ever; only
  those peers use it (elsewhere the calls bound what is under way).
* `MaxSize`, `Room`, `RecvBuffer`, `MaxData`, `MaxBody`, `MaxFrames`: sizes; a message larger than
  the room the kernel has, a read that fills its buffer and one that does not, bodies of 0 and 1
  characters, a message of two fragments with a control frame.
* `MaxStart`, `MaxReal`, `MaxSlow` (time in units of the time-out of epoll_wait): timers are registered up to
  `MaxStart`, a round takes at most `MaxSlow` units, and time ends at `MaxReal`, after both timers
  are due whatever is done to the clock. That the loop timer then goes off no more is not held against it.
* `MaxConn` bounds the connections of one set-up.
* Two connections are enough for one that takes the name or the place of
  another, three for a node that reconnects while its old connection is still
  known to the broker; two descriptors for one that is used again.

**Reductions.** Connections and nodes (`rpc_restarts`, `rpc_wrong_answer`), connections
(`broker`) and clients (`session_all`) are symmetric: no definition tells them apart.
`SYMMETRY` is not used in runs with
liveness. The `broker` run has a `VIEW` without `toNode`: no guard but that of
`PeerReceives`, which only shortens it, and none of the properties reads it, so
two states that differ in it alone have the same successors up to it. That of `session_all` leaves out the history
`served`, `movedAway` and `toClient`, which no guard and none of its three properties reads, in the same way. In `MCNet`,
`MCThreads` and `MCServer` several modules that share no variable are explored side by
side: the variable `part` is chosen at the start and only that module moves. It is the
sum of their behaviours and not the product, which would say nothing more about either.

**Deadlock** is checked in `taskqueue`, which lets a finished run stutter. The other
runs set `CHECK_DEADLOCK FALSE`: with bounded
messages and faults a server does come to rest when nothing is left to handle,
and a peer, a client or a game may stop whenever it likes.

**Fairness.** Nothing is assumed of clients, peers, games, callers, closes, losses and
ends of processes: they may never happen. What is assumed:

| specification | assumption | because |
|---|---|---|
| `TaskQueue!FairSpec` | each thread gets on with an operation it has begun | the scheduler; whoever waits for the mutex gets it |
| `RpcSystemFair` | handlers of the broker per connection; handlers, timers and the `open()` loop of each node | `ImplementsFairFifo`: a queue that is posted to runs its next task. One queue is FIFO, so that no connection starves another |
| `RestartsFair` | the same, and an ended broker is started again | a broker that stays down has no nodes |
| `SessionSystem!Fairness` | each handler of the gate per client and per worker, each worker's handlers | as above |
| `EventFair` | the IO thread runs its loop; who has begun `close()` ends it | the loop has no way out but `close()` of the IO service |
| `SendFair` | the IO thread; the peer that is up reads | TCP; a peer that never reads may keep its buffer full for ever |
| `TimerFair` | the timer thread and time go on | |
| `SyncFair` | callers (strong), the TaskQueue, the other side's answers, the IO thread (strong where it takes the mutex) | strong fairness stands for a mutex that is handed over: it is free again and again while others take it |
| `DbFair` | each thread of the pool, the worker's thread; strong for the callbacks posted to the worker | the worker's queue is FIFO, so that an answer in it is run although the worker may always have something else to do |
| `ChatFair` | the threads of the database, and the worker's handling of a logout it has begun | |

**Further configurations.** Beside the runs there are configurations which show, in a
second or two each, that what a comment or an assertion says does not hold; section 6
says what they show:

| configuration | module | violated |
|---|---|---|
| `SendDropped.cfg` | `SendBuffer` | `NothingIsDropped` |
| `EventFin.cfg` | `IOEventEpoll` | `BreaksAreReported` |
| `EventRace.cfg` | `IOEventEpoll` | `EventsHaveTheirSocket`, `BrokenOnceAndLast`, `SocketsAreRegistered` |
| `SessionGhost.cfg` | `MCSessionSystem` | `SocketsAreNotNull`, `LogoutFindsEntity`, `ReturnedWorkersAgree` |
| `DbTwice.cfg` | `DbMgr` | `QueuesAreThere`, `OrderIsAlwaysKept` |
| `ChatLogins.cfg` | `ChatRoom` | `LoginOnlyOnce`, `EveryoneIsListed`, `NoGhosts` |
| `TimerLate.cfg` | `TimerService` | `TimersAreNotLate` |
| `MCBrokerIds.cfg` | `MCBrokerRestarts` | `CallsReachTheirService` |
| `SyncTwo.cfg`, `SyncHang.cfg` | `SyncCall` | `CallsReturnTheirAnswer`, `RequestsInOrder`; `CallsComeBack` |

TLC stops at the first violation: where a configuration has several properties, leave in the one that is to be seen.

## 5. Proofs

`ThreadProofs` proves of `TaskQueue`, for every number of producers, closers and posts, the
invariants of run `taskqueue` and that the queue implements `FifoExecutor`. The
inductive invariant adds to them who holds the mutex at which label, that a
sleeping thread has an empty list and an open queue, and that the batch in hand, the list
and the tasks that have run are together the accepted ones. Assumption: only
`TaskQueueAssumption` (the sets of threads are disjoint).

`FFBrokerProofs` proves the six properties of run `broker` for every set of
connections, names and in-process nodes and for all bounds, under `AnyPeersSpec`:
the peers may take **any** step that satisfies `EnvStep`, which leaves the
broker's own tables alone and only says what happens to a connection. A session
is kept as long as the connection exists for the broker, it starts with
`NoSession`, and nothing is left to handle where there is no connection. So the
theorems do not depend on what the peers are. `AnyPeers` discharges the assumption for the peers
of module `FFBroker`, `NodesImplementPeers` of `RpcSystemProofs` for FFRpc nodes.

The inductive invariant `IInv` is the five invariants with three more conjuncts:
`OwnersAreFound` (a live connection with an id is in the table under it: without it
one cannot tell that erasing the id of one connection leaves the others),
`SessionsConsistent` (a session has a name only if it has an id, and a type
exactly if it has an id: this is why `processSyncClientReq`, which tests the type, never
overwrites an id given by `handleRegisterToBroker`, which tests the id), and
`QuietWhenGone` (no handler runs for a connection that is gone).
`IdsAreNeverReused` follows from the same invariant: a new entry of the table is
`m_for_allocID + 1`, and all the old ones are at most `m_for_allocID`.

`RpcSystemProofs` proves what the runs `rpc_restarts` and `rpc_calls` check but progress, for any nodes, connections
and calls, and, where the run has them, faults. `RpcInv` joins `IInv` of `FFBrokerProofs` with what the nodes keep (`NodeInv`) and with
what links, registry and nodes have to do with one another (`LinkInv`).

* `NodesImplementPeers`: every step of a node is an `EnvStep` of the broker, so that the theorems
  of `FFBrokerProofs` hold for the system; and their invariant is used in the other proofs.
* `CallsArrive`: the argument is about all the pairs of a name and an id that exist at a time
  (`Bindings`: the registry, the copies of it that nodes have or that are on their way, the calls on
  their way, the sessions). No id is in two pairs with different names (`BindingsInv`), because
  ids are not handed out again and everybody copies pairs whole. So it does not matter how old
  the pair is that a caller uses.
* `Agreement`: a node has one connection or one timer (`OneWayInv`), a connection carries one
  registration, as its first message (`RegisterInv`), and the last registry under way on it is the broker's.
* `OwnAnswers`: while no connection is lost and no node closes, is given up or is killed, every callback runs with the answer
  of its own call. The hypotheses `MaxCuts = 0` and `MaxRestarts = 0` are those of run `rpc_calls`, and they are needed: run
  `rpc_wrong_answer` shows that one lost connection breaks it (section 6). `AnswerInv` says that a connection that has
  registered stays that of its node (`SteadyInv`), that an id leads to the node that has it (`HomeInv`), and that a message under
  way is either a call, whose sender has the id it names and the callback under its number, or an answer on its way there
  (`ReturnInv`). A node takes a call for an answer when its `destServiceName` is empty, and that is the default name of an
  `FFRpc` (`ffrpc.h:57`). No call is mistaken for one, because a node without a name gets an id but no entry in
  `service2nodeId` (`ffbroker.cpp:205`, `NamedInv`), so nobody can call it.

`BrokerRestartsProofs` does the same for `BrokerRestarts`. The next broker counts ids from 0 again, so that what `RpcInv` says of ids
that are bound to one name for ever is false there, and with it that calls reach their service. Its parameter `lasting` says whether
these conjuncts are meant; the lemmas about the steps of nodes and broker are proved for both values, and `RpcInv(FALSE)` is kept
by the end of the broker, too.

* `RestartsAgree`: ids and the registry agree, with no further hypothesis.
* `OneWay`: a node that runs has one connection or one timer. `WayInv` follows the two threads of a node from `open()` on: while the first
  waits, the id it waits for comes on a connection that is up, or not at all (`Waits`). The hypothesis `~CutsWhileOpening` is that
  of the run, and it is needed: run `rpc_cut_at_open` shows a node without a way.
* `BrokerFound` is `NodesFindTheBroker`. A refusal finds its socket because a node whose registration is under way, or was refused,
  has not forgotten it (`RefusalInv`). `MaxRestarts = 0`, as in the run, is needed for this part only: `open()` that gives up, or
  `close()`, forgets a socket whose refusal may still come, and `handleBrokerRegResponse` closes it without a look (`ffrpc.cpp`).

`SessionProofs` proves all that runs `session_moves` and `session_all` check but progress, for any clients, workers,
messages, games and, where the run has them, lost connections and ended processes. There are four invariants, because the theorems
are about different specifications:

* `GateInv` holds under `SessionSpec`: a session id has one client (`IdInv`), and its entry at the gate
  (`EntryInv`), each message on its way (`MessageInv`) and each entity made for it at a worker (`EntityInv`) are
  that client's. An offline message is about a session that has ended. It gives `Directories` (each step is
  one of `SessionDirectory`, or a stutter) and `Silence`.
* `OrderInv` follows the messages of a client from its socket over the link to the worker, through three
  conditions on neighbours (`RoutedFirst`, `RoutedInOrder`, `ServedFirst`): `Orderly`, under `SessionSpec` too.
* `KnownInv` holds while no connection breaks (`SteadySpec`): the worker a session is bound to, where it is one, has heard of
  it or will, before the client's messages, and an offline message is the last about its session (`Agreed`, `Introduced`).
* `LeftInv` holds under `SessionSpec`, with no further hypothesis. Only sessions a game has asked about (`asked`) are moved, closed for a
  worker, entered, or bound after their end (`RequestsAreAsked`, `ArrivalsAreAsked`, `EntriesAreAsked`). For any other: a worker that has a
  client for it, or a message that will make one, is the one it is bound to, or its offline message is on the way as
  the last about it, or is among the `missed` (`ServersAreFollowed`). A break cuts the queue of a worker: either the offline
  message stays in it, or the same step adds the session to `missed`, so that the condition survives however often the connection breaks and
  returns (`NobodyLeft`). A client without an entity is the one exception that a hook that throws makes.

`IOEventProofs` proves `SocketsAreServed`. `EventInv` follows a descriptor from `accept` to the end of the
connection: accepted and not yet opened, registered, taken by a thread in `close()`, waiting in
`m_listFuncToRun`; in each of these it denotes the same connection, and it is in one of them at a time. That is
why the kernel may hand it out again right after the loop has closed it. Two threads in `close()` may have read the same
`m_fd`, or one of them what the other has cleared; the invariant therefore says nothing of the number a thread holds but in the case
of a single closer, and `unregfd`, which looks it up under the mutex, keeps the rest. `BrokenEndsIt` comes from where the threads
are: once a BROKEN is posted `m_fd` is -1 for good, so that no thread passes the test again, and each other thread that
has passed it posts one event at most; and a socket reference is dropped only by a thread that has posted.

It proves `SendsAreWhole` of `SendBuffer`, too, for any messages, senders and sizes of the kernel's buffer: what is on the wire is a
prefix of what was accepted for sending, and what follows it is what waits in `sendBuffer`. The heart of it is what one
`sendAll` takes of the buffer (`Taken`, a recursive function over `TakeFirst`): taken and left, joined, are what was there.

Of `SmartPtr` `ThreadProofs` proves `SharedOwnership`. `m_ref_count` is the number of owners and of those `lock()` that
are about to undo their increment, `m_weak_ref_count` that of all who hold `RefData` (`CountInv`, by counting in
finite sets); and at any time the object has an owner, or one variable is about to delete it, or it is deleted.

Of `TimerService` it proves `TimersAreServed`, and `CallbacksInTime`: the two action properties of `CallbacksComeDue`
(`TimersAreNotEarly`, `StoppedMeansQuiet`). `TimerInv` says that a timer waits at one place (`OnceInv`) until it is called
(`CallInv`), and, while nobody sets the clock, that one that waits was not due when the last round that has ended began (`DueInv`). A
round ends at the first timer that is not due, and those behind it are not due either, because the map is in the order of its keys and
a key is never below the end of its timer: `checkTimeout` only brings an end forward (`Timely`). That the map is in order after
`addNewTimer` is a lemma about a recursive function over the list (`InsertAll`).

`ServerProofs` proves `PoolIsSound` and `OrderIsKept` for any modids, connections, set-ups, clean-ups and queries, under
`DbMgrAssumption` only (modids and bounds are naturals). `DbInv` says where things are: a query that is not settled is in one queue, in the list, in
the batch or running, and each queue holds its queries in the order of asking (`PlaceInv`); what is posted is among the answers,
once (`ResultInv`); a queue that is not in the pool is closed and joined (`LeftInv`), and so are the entries `cleanup()` has gone
through (`WorkerInv`). The order needs two more conjuncts, which hold only while the pool is whole: every query is in the queue its modid selects
(`RouteInv`), and an answer waits at the worker only when all earlier queries of its modid are done or wait before it (`AnswerInv`).
An emptied pool is whole, too: that no query is left in a queue then follows from `LeftInv` and `WorkerInv`. A pool that is not
whole never is again before the process ends, because `cleanup()` throws at the entry without a queue and does not clear the pool.

It proves `PlayersAreKnown` of `ChatRoom` for any uids, sessions and connections. Its hypotheses are those of run `server`: no two
clients use a uid at the same time, and none sends a second login before the first is answered (`~Share`, `MaxLogins = 1`). They are
needed: `ChatLogins.cfg` shows what happens without them (section 6). `ChatInv` says that a login waits once, at the connection of its
uid (`SelectInv`); that, as the queries of a uid go through that one connection, an update waits before the logins with its uid
(`UpdateInv`) and the login of a client that is gone before that of the one who is there (`LastInv`); so that a functor finds
the count that was last said (`FunctorInv`), which is kept by the entity, on its way to the table, or in the table (`CountInv`).

The assumptions are those of the models' constants. Two were added for the proofs: `Fd` and `Client` are finite
sets, since a process has a bounded number of descriptors. And the values that stand for nothing
(`NULL`, `NoOne`, `NoPtr`, `Free`, `NoSock`, `None`) are none of the things they stand beside.

`LogLemmas` has `SetInduction`, induction over the naturals in a form without an operator
parameter. `RanksExist` (a worker at every place of the order of names, so that `allocWorker` is defined) and
`FlattenType` are proved with it. `IterationExists`, that a function defined by such a recursion exists, is what the proofs about
`Taken` (`SendBuffer`) and `insertAll` (`TimerService`) rest on.

Only model-checked:

* liveness, which is outside of the prover's reach (`CallsReturn`, `ImplementsFairFifo`,
  `CallsAreAnswered`, `NodesComeBack`, `MessagesAreServed`, `EventsAreServed`, the last part of
  `CallbacksComeDue`, `AnswersEndTheirCall`, `RequestsAreSettled`);
* `MessagesArrive` of `SocketProtocol`: it is about what a recursive function makes of each way to cut the bytes, an induction over
  data that would have to follow the parser through every state.

## 6. Findings

Two are runs:

* `rpc_wrong_answer`: when the caller has gone, the broker sends the answer back
  to the node that answered (`ffbroker.cpp:313`), with the `callbackId` of the
  caller. `handleRpcCallMsg` cannot tell it from an answer, and when the node has a
  call of its own under the same number it runs that callback with it and erases it.
  Callback ids are small numbers counted from 1 in every process, so that two
  nodes use the same ones.
* `rpc_cut_at_open`: `handleBroken` sets the reconnect timer only when `m_runing`
  is set, which `open()` does after it has seen the node id, in another thread
  (`ffrpc.cpp:58-77`, `196`). A connection that is lost in between is never replaced.

The further configurations show more of the kind:

* `SendDropped`: `asyncSend` keeps the rest of a message only if a part of it was
  taken; when the kernel takes nothing (`sendAll` gives 0, which `socket_op.h:116` calls a
  success) the message is dropped and the connection goes on without it (`ioevent_epoll.cpp:237`).
* `EventFin`: when the last data of a peer and its end come before epoll_wait looks, one edge
  stands for both. `readAll` stops after a read that did not fill its buffer (`socket_op.h:110`),
  and no EPOLLRDHUP is asked for (`ioevent_epoll.cpp:185`): the break is not reported
  until this side sends.
* `EventRace`: `SocketTcp::close()` tests, reads and clears `m_fd` without a lock, and posts BROKEN before it drops `m_refSocket`
  (`sockettcp.cpp:58-64`). Two threads may pass the test. Then BROKEN is posted twice, each time with the socket, or a RECV follows it
  (`BrokenOnceAndLast`), or the later event has a socket that is NULL already (`EventsHaveTheirSocket`). What holds of
  every interleaving is `BrokenEndsIt`: at most one event, that of the other thread, follows the first BROKEN.
* `EventRace`, too: the second thread may have read `m_fd` before the first has cleared it and call `unregfd` after the descriptor was
  closed and given to another connection. That connection is then unregistered and its descriptor closed, while its socket
  thinks it is open (`SocketsAreRegistered`), and nobody is told.
* `SessionGhost`: `closeSession` erases the session and closes the socket, whose BROKEN event then finds
  nothing and makes an empty entry with `m_client_set[id]` (`ffgate.cpp:122`); `close_impl`,
  a second close, or a move of that session uses its NULL socket (`ffgate.cpp:86`, `199`, `222`), against the assertion of
  `smart_ptr.h:141`.
* `SessionGhost`, too: a worker that was restarted is told that a session it never saw has
  ended, makes an empty client for it (`ffworker.cpp:268`), and the hook of `chat.cpp:107` uses
  its NULL entity; the exception leaves the client there for good.
* `SessionGhost` (`ReturnedWorkersAgree`): a worker whose connection to the broker broke keeps `m_worker_client`, and nothing repeats a
  `SessionOfflineReq` that was lost meanwhile: it registers again (`ffrpc.cpp:165`) and keeps the clients of sessions that have ended.
* `sessionChangeWorker` (`ffworker.cpp:376`) and `changeSessionLogic` (`ffgate.cpp:180`) accept any index: a session that is moved to an
  index of no worker is bound to nobody, and the messages of its client are dropped, one by one, by `asyncCall`. `TheBoundWorkerKnows`
  therefore speaks of sessions that are bound to a worker.
* A session that was closed by its worker may come back to life on another one. A message of the client that was queued
  before the close makes an empty entry with `m_client_set[id]` (`routeLogicMsg`); a move of that session gives the entry a worker before
  it fails on the NULL socket (`ffgate.cpp:199`); the client's further messages are then routed to that worker, which makes
  a client for the session and keeps it, since no end of it will be announced. The attempt to prove `EndedSessionsAreSilent` and
  `StrangersAreIntroduced` without a condition showed it; with 3 messages of one client and the requests move and close
  TLC finds it, too. Both therefore end with the first handler that failed (`thrown = {}`).
* `DbTwice`: a second `initDBPool` appends entries and configures those of the first (`db_mgr.cpp:51`):
  new entries have no queue, and a query that comes to one throws. And `modid % m_dbPool.size()` (`db_mgr.cpp:81`) sends a modid to
  another queue than before while its earlier queries still wait in the first, so that they are no longer executed or answered in order. The
  proof of the order failed here; with the modids 1 and 2 no set-up of two connections shows it, with 1 and 3 TLC finds it.
* `ChatLogins`: the login check looks at a uid that another thread sets later,
  so that two logins of one session pass (`chat.cpp:100`: "can be sent only once"); the logout of a replaced player deletes
  the entry of the one who replaced him (`chat.cpp:81`); and a player who leaves between the functor's check and
  its `add()` stays filed for ever (`chat.cpp:27`). Besides, `del()` looks for the session of
  an entity after `processSessionOffline` has set it to 0 (`ffworker.cpp:270`, `entity.cpp:83`), so that the
  entry by session is never removed.
* `TimerLate`: only the first timer that is not due is rebased when the clock was set back, under its
  old key (`timer_service.h:203`): others wait behind it, although the start is recorded so that a
  changed clock is handled (`timer_service.h:79`).
* `MCBrokerIds`: after a restart of the broker a node may call with an id of the old registry before it has the
  new one, and the call goes to another node (`ffbroker.cpp:24`). `ffbroker.h:105` calls the id unique.
* `SyncTwo`, `SyncHang`: `m_dataSyncCallInfo` has room for one call, and with two the one gets the
  answer of the other; `handleSocketProtocol` does not look whether a message is an answer (`ffrpc.cpp:123`), so that a request of another
  node under the same number is returned by `call()` as its answer, and is never served (`SyncTwo.cfg` with one thread and `MaxAsked = 1`); an answer that comes before `call()` has stored the callback id is missed, and `call()` hangs; and
  `call()` overtakes what its thread has posted before, although `ffrpc.h:84` says it posts. Nothing in the repository
  uses `call()`.

Read in the code and not modelled: `isExist` ends in `return true` (`ffrpc.cpp:380`).

What the runs show to be right and is easy to doubt:

* a refused reconnection does converge (`NodesComeBack`), because a refusal closes
  the socket and its BROKEN event sets the next timer;
* `handleBroken` of the broker, which erases by name, never takes the name from a node that has come back
  (`NodesKeepTheirNames`), because that node is refused as long as the name is there;
* `handleBroken` of a node does not look whose event it handles, and yet a node never has two ways back or
  none (`NodesFindTheBroker`), because a new connection is only made after it;
* messages of a session stay in order through moves (`ServedInOrder`), though they go to two workers by different
  links: the new worker learns of the session by the same link as its messages;
* a descriptor never denotes the connection of a registration that is older (`SocketsAreServed`), because it is closed
  only by the IO thread, between two rounds;
* the count of a player survives a login that comes before the last logout is written (`PlayersAreKnown`), because the queries of one uid go to one connection.

## 7. Not modelled

* Data races on containers: `run()` clears the list of a TaskQueue without its mutex, `EntityMgr`'s maps and
  `FFRpc`'s fields are used by two threads here and there. What a race inside `std::map` does is
  not described; the order of whole operations is.
* `docleaanup` of a broker that is closed (`ffbroker.cpp:107`): the process ends with it, and that is `BrokerEnds`.
* `open()` sends the registration in `connectToBroker` and assigns `m_master_broker_sock` when that returns (`ffrpc.cpp:48`), both in the thread
  that opens: `OpenConnects` is one step, so that no event of the new connection is handled between the two. A BROKEN event handled there would be
  overwritten by the assignment, and that node is without a way back as in `rpc_cut_at_open`; a refusal handled there would find no socket to
  close (`ffrpc.cpp:390`). What is said of refusals and ways back (`NodesFindTheBroker`) is said of nodes whose connect has returned.
* An exception in a handler, which is caught and logged, except where it leaves state half changed
  (`processSessionOffline`, the callbacks of `DbMgr`).
* `RpcInterfaceStaticFunc`, the form of `reg` for plain functions, which answers
  to `destNodeId` instead of `fromNodeId`: the repository registers methods only.
* Calls between workers (`callFunc`, `scriptRpc`): calls of `FFRpc` between nodes, which `RpcSystem` models.
* The closing of a listening socket; `Connector` beyond the links it makes; the select version of the loop.
* In `SocketProtocol` lengths above 125, the arithmetic of masks and of the handshake keys: data. In `SmartPtr`
  an explicit `reset()` of a `WeakPtr`, which nothing calls.
* The synchronous query of `DbMgr`, and sqlite or mysql themselves: a query is executed at once by its thread.
* `EventBus`, `HttpMgr`, log and tools: one thread each, and nothing that two steps could disagree about.
* Game modules other than chat. `loadFromDB` of tasks and items hangs on `EntityDataLoadBegin` and `EntityDataLoadEnd`, which
  nobody fires; `checkNewTask` compares iterators of two maps, which is undefined and no behaviour; the grid of `map.cpp` is
  never given a size, so that nobody has a neighbour; the rest is bookkeeping driven by scripts on one thread.
* Script bindings, the C# port (a second implementation of the same protocol), vendored and generated code.

## 8. What is left

All components with concurrency, failure or a protocol are modelled, and every invariant and action property that a run
checks is proved, but for `MessagesArrive`. Left are:

1. `MessagesArrive` (`SocketProtocol`): by induction over the messages sent, once for each state of the parser.
2. `AlwaysOneWayBack` under `RpcSystemSpec`: the proof of `OneWay` without the steps of the broker's process, for the nodes of the
   broker's process too, which `BrokerRestarts` does not have.
3. Liveness on larger instances than those of section 4.
