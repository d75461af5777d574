# A formal model of cloud-manager

cloud-manager is a collection of Spring Boot starters (commons, shiro, rocketmq,
stream-rocket), a small framework library and some twenty demonstration servers built on
them.  Most of the 1600 files are vendored JavaScript, entity classes, configuration and thin
controllers.  The program's own logic is in the starters and in `framework`: a Netty RPC with
service discovery, a session store shared by several web nodes, a distributed lock, an id
generator, message listeners, a change-data-capture listener.  The gateway serves a diagram
editor, a page of its own over the mxGraph library that is kept in the repository.  This
directory holds TLA+ modules for that core, TLC configurations that check them on small
instances, and TLAPS proofs of the results that matter most.

Paths below leave out `src/` and the package directories where they are clear.

## 1. Inventory

"Hard" lists the behaviour a unit test hardly reaches.  `PROJECT.json` names every component,
and every hazard at its line.

### Components with a module

| Component | Code | State | Operations | Hard | What makes it correct |
|---|---|---|---|---|---|
| Id generator | commons `utils/SnowFlake.java` | `lastTimestamp`, `sequence` | `nextId`, `tilNextMillis` | clock set back, restart, sequence used up within a millisecond | ids are unique over all nodes and increase on each; a spinning caller is served |
| Redis lock | framework `core/lock/RedisLock.java`, `Lock.java` | one Redis key (value = expiry time, time to live), locals of each caller | `lock` (SETNX, EXPIRE, GET, GETSET, SET), `unlock` (DEL) | every interleaving of commands, a crash between two of them, time running out | at most one owner; a key left behind never blocks for ever |
| Netty RPC | commons `netty/rpc` (`NettyProxy`, `OutputClientHandler`, `MessageCallBack`, `InputServerHandler`, `MessageRecvInitializeTask`) | the map of handlers per address, each handler's callbacks, connections, server pool, bean cache | `invoke`, `sendRequest`, `channelActive`, `channelRead` on both sides, `start`/`over`, `resolveBean`, `run` | callers that connect at once, responses late or never, lost wake-ups, double-checked lookup | a call gets its own result; no response misses its callback; every call returns |
| Shiro session store | shiro starter `SpringShiroSessionDAO`, `RedisSimpleSession`, `DefaultMemorySessionDAO`, `ShiroSessionManager` | a serialized copy in Redis, a cached object per node with an age, the `changed` flag in the object | `doCreate`, `doReadSession`, `update`, `delete`, `touch`, setters, `stop` | requests on one node share an object; nodes overwrite each other in Redis; stale caches | what a setter wrote is kept; staleness is bounded; a deleted session stays deleted |
| Kickout filter | shiro starter `KickoutSessionControlFilter`, `LogoutFilter` | the account's deque of session ids in the cache, the kickout attribute of each session, in Redis and in each node's copy | `onAccessDenied`, logout | read-modify-write of the deque by overlapping requests, copies that have not heard of a kick, sessions that leave without the deque | at most `maxSession` sessions work, the right one is kicked out, and none of those passes for long |
| RPC discovery | commons `DiscoveryService`, `ZookeeperService`, `PollRibbon` | nodes and watches in ZooKeeper, `init` and `ipMap`, a ribbon per service with its `pos` | `register`, `getIp`, the watcher, `setIpMap`, `getServiceAddress`, `getIpAddress` | the map is cleared and refilled in place while callers copy it; a lock that is replaced by what it guards | no change of the servers is missed; readers see one refresh after the other; a choice is within its list |
| RocketMQ consumers | stream binder `RocketBlockingQueueConsumer`, `SimpleRocketMessageListenerContainer`; rocketmq starter `DefaultRocketMQListenerContainer` | batches in the client's threads, a bounded queue, the stored offset | `consumeMessage` (three of them), `nextMessage`, `executeListener`, `start`, `destroy` | failures inside a batch, crashes between acknowledging and executing, a full queue | the listener container loses nothing and keeps the order; the binder loses no more than it holds; all is consumed |
| Diagram editor | gateway `js/MXGraph.js`, `leftpanel.js` over mxGraph's `mxGraphModel`, `mxCell`, `mxUndoManager`, `mxUndoableEdit`, `mxGraph`, `mxGraphView` | the tree of cells, ends and lists of edges, ids, the history, the group entered | drop, append, connect, reconnect, delete, group, ungroup, move, split, label, copy, cut, paste, restore, enter, exit, home, undo, redo | long sequences of edits taken back and repeated; edits that the view reports from inside another; a full history | undo and redo lead exactly to where one was; tree, edges and ids stay consistent |

### Components without a module

| Component | Code | What is hard |
|---|---|---|
| TCC transactions | `atomikos` controllers, `TccParticipantController`, `TccCoordinatorController` | confirm fails half-way and is followed by cancel |
| Change data capture | `InstanceListener`, `TableInfoKeeper`, `OpenReplicatorEx` | cached columns against schema changes in the binlog |
| Zipkin span transport | `RocketSender`, `RocketCollector` | a send whose callback never comes |
| Retry limit | `RetryLimitHashedCredentialsMatcher` | concurrent increments of a count in the shared cache |
| Sharding | `dubbo-producer` `algorithm/*` | precise and range routing must agree |

These are small (a handful of lines with state each) or demonstrations of a library's protocol,
and come after what is modelled here; section 7 has the order.

### Not to be modelled

RPC registrars, the bus binder, Shiro's filter configuration, data-source and library
configuration, gateway filters: Spring wiring, or predicates without state.  MyBatis
extensions, Excel import, mapper plugins: string processing, reflection and I/O.  The RocketMQ
template, Atomikos, LCN and Elastic-Job protocols are those of libraries outside this
repository.  Thin servers (config, eureka, hystrix, admin, FastDFS, crawler, elasticsearch,
oauth2) are an annotation or a controller over a service.  `plugins` holds the Java side of
mxGraph and code generators, `grpc-interface` is generated code, `CefSharp` a browser shell.
`EurekaService` fills its map as `ZookeeperService` does, and the ribbons other than
`PollRibbon` are never instantiated.

Of the JavaScript, which is by far the largest part of the repository by lines, only the page
(`js/*.js`, some 850 lines) is the repository's own.  The rest is libraries: `vue.js`, jQuery
plug-ins, and mxGraph twice, as `mxgraph/src/js` and as `mxClient.js`, the concatenation of the
same files that the page loads.  The model covers what the page uses of mxGraph to change a
diagram; painting, shapes, layouts, event handling, codecs and styles, which are most of it,
have no state that the properties are about.  The share of the JavaScript that is mapped is
therefore small, and would stay small if every operation of the page were modelled.

### How the components interact

A web request goes through the Shiro filters (`ShiroSessionManager` reads the session once per
request, `KickoutSessionControlFilter` reads and writes the deque and the kickout attribute of
*other* sessions through the same session manager), and the session DAO meets the other nodes
only in Redis.  Services call each other through `NettyProxy`, which asks `DiscoveryService`
for an address and keeps one handler per address for ever.  `DiscoveryService` holds one
ribbon per service, which reads the address map that `ZookeeperService` rewrites: the two meet
in `AddressMap`, which the one implements and the other builds on.  The lock, the id generator
and the RocketMQ consumers are libraries without callers in the other components modelled here;
the diagram editor talks to the gateway only to load and save a file.

## 2. Modules

| Module | Stands for |
|---|---|
| `SnowFlake` | generators of several nodes, their clocks, restarts |
| `SnowFlakeProofs` | uniqueness and order of ids, for all constants |
| `RedisLock` | clients of one lock key, one step per Redis command |
| `RedisLockProofs` | mutual exclusion, the owner's key, bounded lease, for all constants |
| `NettyRpc` | callers, client event loop, connections, server pool |
| `NettyRpcProofs` | a call's result is its own, no response misses its callback, for all constants |
| `ShiroSession` | one session on several nodes |
| `ShiroSessionProofs` | a session that is gone stays away; what Redis holds and how far nodes lag until a change is disturbed; for all constants |
| `Kickout` | the sessions of one account, on nodes that cache them |
| `KickoutProofs` | the deque and kicked sessions under overlapping requests, the limit and the choice of the victim, for all constants |
| `ZookeeperService` | callers, ZooKeeper's event thread and the servers' nodes |
| `AddressMap` | what readers may see of the address map: it is emptied, then grows, then rests |
| `PollRibbon` | `getServiceAddress` and `getIpAddress` by several threads over an `AddressMap` |
| `DiscoveryProofs` | of both: no change is missed, refinement of `AddressMap`; monitors and indices, and what a call alone gets; for all constants |
| `RocketConsumer` | one queue of a topic, consumed by the stream binder or by either listener |
| `RocketConsumerProofs` | what each consumer loses, and the order of the orderly one, for all constants |
| `GraphModel` | operators: mxGraph's model and its changes |
| `DiagramEditor` | the page: its operations, the view, the history |
| `EditHistory` | what the undo history promises, if every edit can be undone and redone where it was made |
| `EditHistoryProofs` | the marks of the edits, and where undo and redo lead, for all constants |
| `MC...` | the constants of the instances, symmetry and views |

### SnowFlake

`nextId` is synchronized, so a call is one step, with one exception: a caller that used up the
sequence waits in `tilNextMillis`, in the monitor, while the clock moves (`pc = "spin"`).
`NextIdNewMilli` and `NextIdSameMilli` are the two branches of `nextId`; the refusal of a clock
that moved backwards throws before it changes a field, and is no step.  Bit fields become
*spans* (`SeqSpan` for `1 << sequenceBits`), `(high << bits) | low` becomes
`high * span + low` (`Pack`), and `Signed` keeps the sign bit that a timestamp of 42 bits would
reach.  `SetBack` and `Restart` are the environment; `Adjusted` and `Restarting` say which nodes
they may hit.  A restart takes at least a millisecond.

### RedisLock

Every Redis command is an action (`SetIfAbsent`, `SetExpire`, `Get`, `GetAndSet`, `Restore`,
`Unlock`), and so is the local comparison with the clock between GET and GETSET (`Check`).
`redisValue` is fixed on entry as in the code.  GETSET on a key that was deleted meanwhile
returns null, on which the code throws: the value it wrote stays (a *ghost*).  Time is counted
in ticks, all clocks agree.  The code puts no bound on the duration of `lock()`, on that of the
commands of one round of its loop, or on the use of the lock.  `AttemptMax`, `RoundMax` and
`HoldMax` are what a client is allowed; time passes all the same when one takes longer, and the
history variable `overruns` counts the ticks in which somebody does.

### NettyRpc

A caller is in one `invoke` at a time, and its steps are the points where other threads can
come between: `containsKey`, `connect`, `put`, registering the callback, writing, awaiting.
`CHANNEL_FUTURE_MAP` never loses an entry, so a caller connects at most once and handlers are
named after callers.  A request stands for its own result; `Failed` is a response whose error
field is set, which the client never reads.  Messages are sets, so responses arrive in any
order; `Disconnect` drops what is on the wire.  `context` read before `channelActive` has
written it (a data race) is a choice in `Write`.

### ShiroSession

Objects have identities, because two requests of one node share what is cached while a third
holds the object that was cached before.  `doReadSession` is GET, SET and cache in three
steps, a setter is a change of the map and a change of the flag in two, `update` tests and
clears the flag and saves in two, `delete` uncaches and deletes in two.  Attribute values are
abstracted to presence, `PRINCIPALS_SESSION_KEY` is kept because the code by-passes its cache
for sessions without it.  The session timeout (30 minutes, against a cache life of seconds) is
the action `Expire`.  Any request on any node may change the session, at any time.  Five history
variables tell what has happened: `intended` (the attributes as the setters leave them),
`writeAge` and `writer` (when and on which node the last one ran), `unfit` (the requests that
have overlapped another one, or came to another node than `writer` within `timeToLiveSeconds`)
and `disturbed`: whether such a request has changed the session, or a request has come in the
middle of a change.

### Kickout

`onAccessDenied` in five steps: get the deque, push, kick (one turn of the loop each), put,
check the attribute; and a sixth, `serve`, in which the application behind the filter may write
the session.  `maxSession` and `kickoutAfter` are the two settings of `KickoutProperties`,
chosen in `Init` and never changed.

The kickout attribute is part of the session, and the filter reads and writes it as
`SpringShiroSessionDAO` keeps sessions: `redis[s]` is what Redis has, `copy[n][s]` what the
memory of node *n* has, which is used until it is older than `TimeToLive` (`RunsOut`) whatever
has happened in Redis, and `mine[t]` is the object a request works on, which stays with the
request (`View`) when the memory drops it.  `Kick` marks the victim as this node sees it and
saves that; `Write` saves what the request has, over what others have saved; a stopped object
throws (`PushThrows`, `CheckThrows`, `WriteThrows`).  A read with its save, a setter with its
update and a stop with its delete are one step here; `ShiroSession` takes them apart.

`since`, `outAge`, `working` and `disturbed` are history variables: which sessions have entered
a deque since a session last did; for how long a session has been kicked out or gone in Redis;
which sessions have been let through and are neither kicked out nor gone in Redis; and whether
requests (or a logout) have overlapped, or a copy has run out under the request that works on
it.  The expiry of the cache entry, which only some configurations set, is left out.

### ZookeeperService, AddressMap, PollRibbon

A node in ZooKeeper is a service, an address and the number ZooKeeper appends, since a server
that restarts is listed twice until its old session ends.  Reading the children and registering
the watcher is one request; a change unregisters the watchers on its path and queues their
events.  `getIp` is read, clear, put by put, set `init`; the event thread does the same without
the flag.  A request may fail: in `getIp` the caller gets an exception, in the watcher it is
printed and the watcher stays unregistered (`Lost`).  The expiry of the client's own ZooKeeper
session, which takes its watchers too, is not modelled.  `refreshed` is a history variable.

`AddressMap` keeps the number of keys and whether a refresh is under way, which is all that
`PollRibbon` depends on.  There, `synchronized (pos)` is reading an Integer and entering its
monitor, two steps; monitors belong to values, because small Integers are shared objects.
`pos++` is a read and a write.  A copy that the map changes under ends in a
`ConcurrentModificationException`.  `alone` is a history variable.

### RocketConsumer

`mode` says which consumer it is.  A thread consumes a list of messages, one step per message;
`Handle` and `HandleFails` are the body of `consumeMessage` in the listener container, `Put` and
`Drop` the binder's, `Finish` the return after the loop.  What the client does with the result
(acknowledge, send back, suspend), when it stores its offset and where a restart begins is
RocketMQ's, in clustering mode for the listener container (its default) and with a local offset
for the binder, which sets broadcasting.  A crash loses what is in memory; `destroy` stores the
offset first.  The binder's `stop()` is no action: `doShutdown` is empty, `hasDelivery()` is
always true and keeps the loop alive.

### GraphModel, DiagramEditor

JavaScript runs in one thread and an operation brackets its changes in `beginUpdate` and
`endUpdate`, so each operation of the page is one step.  Within it everything happens in the
source's order: an operation lists its calls of the graph (`update'`), and `Commit`, conjoined
with each of them, folds these calls over the model and ends the update; a change is a record
that is executed (and then holds what it replaced), an edit is the sequence of changes.  The
runs' view leaves out `update`, which nothing reads afterwards.  `processChange` runs before
the edit reaches the history, as in `endUpdate`.  Cells are created from finite sets, and a cell
that has never been added has no id.  `undo.docs` is a history variable: the documents between
the edits.  Geometry, style, visibility and the collapsed mark are left out: they change through
records of the same form as the label's.  The page overrides `isCellFoldable` to return false
(`MXGraph.js` line 147), so the keys that fold and unfold (lines 303 and 306) find no cell to
fold and nothing is ever collapsed; the case of a collapsed new parent, in which the view would
go home after a change (`mxGraph.js` line 2064), does not arise.  The clipboard is a
picture of the cells copied; pasting makes objects after it (`CloneCells`), outside the diagram
and outside the history, and adds them with changes.  Where mxGraph refuses an edge
(`getEdgeValidationError`) nothing is created: `EdgeValid` is a guard.

`EditHistory` is the history on its own (`mxUndoManager`, `mxUndoableEdit`), over documents of
any kind.  An edit is there a pair of documents, the one it was made in and the one it led to,
and a promise: undone in the second it leads to the first, redone in the first to the second,
and anywhere else nothing is known (`Lost`).  Operations report one edit (`OneEdit`) or, when the
view reports one from inside `endUpdate`, two (`TwoEdits`); `Undo` and `Redo` pass the edits up to
a significant one.  `DiagramEditor!KeepsHistory` is the refinement: the document is what
`Document` sees of the editor, the pairs are neighbours in `undo.docs`, the marks are those of
the editor's edits.  The loops of the two modules are written differently: the editor's execute
change after change, `EditHistory` says which edits are passed and where that leads.

## 3. Runs

TLC checks deadlock only where the system cannot stop: `session_sticky`, `session_logout`,
`kickout`, `poll_ribbon` and the two editor runs check it; the others end when their bounds are
used up or when every session is gone.

| Run | Bounds | Shows |
|---|---|---|
| `snowflake_ids` | 2 nodes, sequences of 2, 4 milliseconds, one set back | `UniqueIds`, `IncreasingIds` although *a* restarts and *b*'s clock is set back; `SpinEnds` |
| `redislock` | 2 clients, expiry 4, attempt 1, round 1, hold 1, 2 rounds, 1 crash, 1 overrun, 13 ticks | `MutualExclusion` and `OwnerKeepsKey` until somebody overruns; `BoundedLease` and `GhostIsRecovered` always |
| `rpc_calls` | 2 callers with 2 and 1 calls, pool of 2, services that throw, 1 disconnect | `OwnResult`, `WaiterIsRegistered`, `TableHoldsUnanswered`, `CallsReturn` |
| `rpc_wakeup` | one call each, no failures | **violated** `WokenWhenAnswered` |
| `session_sticky` | 2 nodes, 2 requests, one attribute, time to live 1, until a change is disturbed | `Durable`, `BoundedStaleness` |
| `session_logout` | 2 nodes, 2 requests, time to live 0 | `GoneForGood` |
| `kickout` | 2 nodes, 3 sessions (2 once requests have overlapped), 2 requests at a time, time to live 0, `maxSession` 1 or 2, both values of `kickoutAfter`, logouts, expiry | `DequeWellFormed` and `NoOverstay` always; `AtMostMaxSession`, `KickedInOrder` until requests overlap or a copy runs out under its request |
| `zookeeper_watch` | 2 callers, 2 services, 2 addresses, 3 nodes | `NoUpdateMissed`, `ServesAddressMap` (refinement of `AddressMap`) |
| `poll_ribbon` | 2 callers that call for ever, up to 3 addresses, no call begins on a ribbon whose `pos` is 4, or while a `pos++` has read 4 | `LoneCallSucceeds` |
| `rocket_consumers` | each of the 3 consumers with 2 threads, batches of 2, 2 failures, 2 crashes or shutdowns, 4 messages for the binder (queue of 1, as in the code) and 3 for the others | `AtLeastOnce`, `InOrder` for the listener container, `LossBounded` for the binder, `AllConsumed` for both |
| `editor_model` | 5 vertices, 4 edges, 2 groups, 4 operations (append, reconnect, split, group, copy, cut, paste, restore), history of 3, any undo and redo | `UndoRedoExact`, `TreeConsistent`, `EndsListed`, `DictionaryExact` |
| `editor_history` | 3 vertices, 2 edges, 1 group, 5 operations (drop, connect, delete, group, ungroup, move, label, restore, and enter, exit, home), history of 3 | `OneEditPerStep`, `KeepsHistory` (refinement of `EditHistory`) |

Why the bounds are enough:

- `snowflake_ids`: two values of a sequence make it wrap in every millisecond; four
  milliseconds leave room to issue, be set back, be refused, catch up and issue again.
- `redislock`: clients return to `idle` and start again, so two of them play the crashed owner,
  the winner, the loser and the owner after the winner; 13 ticks are three lives of a key.
  `Expire`, `RoundMax`, `AttemptMax` and `HoldMax` meet `Timely` (section 5) with equality;
  the one overrun is any call, round or use of the lock that takes a tick longer.
- `rpc_calls`: the second call of a caller is where a late response of its first could go
  astray; two callers make two handlers; the pool of two lets two tasks race for the bean.
- `session_*`: with two nodes and two requests there are four object identities, the most that
  caches and requests can hold.  In `session_logout` a time to live of 0 keeps an entry usable
  until the next tick and expired afterwards, which is all that `GoneForGood` tells apart; the
  view leaves out history variables that the property does not mention.  In `session_sticky` a
  time to live of 1 also tells a copy that is younger than the last change from one that is
  older.  Requests that read overlap on one node and on two, and the writing moves from node to
  node; the search stops at a disturbance, after which the properties say nothing.  Each of the
  three conditions is needed: with any of them dropped from the histories TLC finds a property
  violated.
- `kickout`: with three sessions and a limit of one or two, the deque overflows by one and by
  two; two nodes and a time to live of 0 (until the next tick) make each hold a copy that the
  other has outdated, and two requests overlap in every way.  After an overlap the properties
  that are left are about the deque and about one session, and two sessions are enough.
- `zookeeper_watch`: the callers race for the first read and with the event thread; three nodes
  over two addresses let an address be listed twice, and a server go and come back during a
  refresh.
- `poll_ribbon`: two callers hold two ribbons or one, and one monitor or two; with three
  addresses `pos` wraps, and a refresh shrinks the map below it.  `MaxPos` keeps overlapping
  calls from raising `pos` for ever; a bound on `pos` alone would not do, because a call that
  has read `pos` before a reset stores its increment after it (the proof of `RibbonType` found
  that; with three callers TLC shows it).
- `rocket_consumers`: four messages are more than the binder's queue, its loop and a waiting
  thread hold; three are a batch of two and one that another thread may get or must not; two
  failures send a message to the dead letter queue; two crashes make a restart crash again.
- `editor_*`: a history of three is overrun by four edits; four operations build an edge in a
  group and take it apart, or copy a connected pair with Ctrl-A and paste it; the fifth of
  `editor_history` is one more edit beyond the history.  Splitting
  an edge takes a third vertex and an edge to spare, which three appends in `editor_model` leave.
  Undo and redo are not counted.
  `UndoRedoExact` has no place in `editor_history`: there it follows from `KeepsHistory`, by
  `HistoryExact` (section 5), as long as the history is not empty.

### What the violation says

`rpc_wakeup`: `MessageCallBack.start` awaits without looking for the response; one that is
there already signals nobody, and the caller sleeps out its timeout.

### Behaviours met while modelling that have no run of their own

Here the code does something that a comment, or a reader, would not expect.  The models contain
all of them; the properties above are stated so that they say what holds all the same.

- `SnowFlake`: `lastTimestamp` is not persisted (line 88).  A generator that restarts while its
  clock is set back repeats ids, against the class comment (line 16).  With such a node in both
  `Restarting` and `Adjusted` TLC finds `UniqueIds` violated.
- `RedisLock`: the loser of a GETSET race puts back what it read with an unconditional SET (line
  57).  When the winner has unlocked and a third client has the lock by then, that client's
  value and time to live are replaced; the comment (line 56) says the value is not modified.
  `MutualExclusion` and `OwnerKeepsKey` hold because the value put back is about as young.
  `lock` computes the key's value on entry, so a client that had to wait keeps the lock for that
  much less than `lockExpirseTimeout`.  `unlock` deletes whatever the key holds (line 78): an
  owner that has used the lock for too long, and was followed by another, deletes that one's key.
  This is an overrun, after which neither property says anything.
- RPC: `resolveBean` returns the null it read before the lock when another thread has put the
  bean meanwhile (`MessageRecvInitializeTask` line 66): the caller gets null from a service that
  works, while `MessageCallBack` line 28 says that null is for timeouts.  A broken connection's
  handler stays in `CHANNEL_FUTURE_MAP`, and later calls wait for their timeout.
- Sessions: `touch()` clears the `changed` flag another request has set (`RedisSimpleSession`
  line 76; line 12 says what the flag is for): its attribute is not saved.  `update` writes back
  a session that another node has stopped and deleted (`SpringShiroSessionDAO` line 93, against
  line 77).  `doReadSession` saves the whole session it has read; a change that another node
  saved between its GET and its SET is taken back.  A node that changes the session from a copy
  it has cached before another node changed it takes that change back.  `Durable` and
  `BoundedStaleness` are therefore stated until a change overlaps another request, or follows a
  change on another node within `timeToLiveSeconds`.
- Kickout: two first requests of an account that overlap both pass the filter with
  `maxSession = 1` (the code has a TODO there), and a session that logged out keeps its place in
  the deque.  The attribute is read from the node's copy of the session (line 94,
  `SpringShiroSessionDAO` line 174): a session that another node has kicked out passes there for
  up to `timeToLiveSeconds`, is pushed into the deque again and kicks out the one that had
  replaced it, so that in the end both may be marked and the user logged out twice.  If it then
  changes an attribute, its copy without the mark is saved over the mark, and a session that was
  logged out elsewhere is created again.  With `kickoutAfter` a request whose copy runs out
  while it is in the filter marks another object than its own and passes.  `AtMostMaxSession`
  counts the sessions that were let through and that Redis does not have as kicked out or gone.
- Discovery: one `init` flag and one map serve all services, so a client of two services gets
  the addresses of whichever was read or changed last.  A caller that was overtaken by the event
  thread writes its older list last, and the map stays stale until the next event.  A watcher
  whose request fails is never registered again.
- `PollRibbon`: calls that overlap check, read and increment `pos` under different monitors; one
  may run past its list even when the addresses never change, and `pos` may grow without being
  reset (line 35 says that it starts again at 0).  A call also fails while the map is being
  refilled.
- RocketMQ: the binder acknowledges a message when it is queued and forgets what its listener
  throws.  A process that crashes before its first offset is stored starts at the end of the
  queue (`CONSUME_FROM_LAST_OFFSET`); the model begins after that.  With the listener container
  set to broadcasting, RocketMQ would not send failed messages back; the model has the default.
- Editor: `append()` draws its edge from the node appended last, which may have been deleted or
  belong to a replaced diagram (`MXGraph.js` line 435, while line 84 forbids loose edges), and
  the first call draws an edge without a source.  `restore()` leaves the view in a group of the
  old diagram (`mxGraph.js` line 2040 tests only for changes of the root itself): later cells go
  into a tree nobody sees, `exitGroup` from there may not end, and undoing such edits mixes the
  ids of the two trees.  This is why `DictionaryExact` and entering groups are in separate runs.
  `rootChanged` counts ids anew, so ids of deleted cells are used again after `restore()`, which
  the comment in `cellAdded` (line 699 of `mxGraphModel.js`) excludes.  Pasting an edge without
  one of its ends drops the clone of the edge (`mxGraph.js` line 4347) after `restoreClone` has
  connected it: the pasted vertex lists an edge that is in no diagram, which is why `EndsListed`
  speaks of edges that have been in one.

## 4. Fairness

- `SnowFlake!FairSpec`: clocks tick, and a thread that spins in `tilNextMillis` is scheduled.
  Calls of `nextId`, set backs and restarts are not assumed to happen.
- `RedisLock!FairSpec`: clients keep asking for the lock (recovery of a key needs somebody who
  wants it), their steps are scheduled, and time goes on: strong fairness of `Tick`, since
  clients with open deadlines disable it again and again.
- `NettyRpc!FairSpec`: weak fairness of the calling thread only, whose `await` has a timeout.
  Nothing is assumed of network, event loop or server: `CallsReturn` holds although all of them
  stop.

- `RocketConsumer!Spec`: weak fairness of each of the client's threads, of the binder's loop, and
  of the start after a crash (a supervisor restarts the process).  Messages need not be sent,
  offsets need not be stored, and failures are bounded by `MaxFailures`: a listener that never
  succeeds in orderly mode blocks its queue, which is what the mode is for.

No other run needs fairness.

## 5. Proofs

All proofs are for arbitrary constants that meet the named assumptions of the modules; TLC
evaluates these on every run.

**SnowFlakeProofs.**  `SnowFlakeUnique` and `SnowFlakeIncreasing`: `Spec => []UniqueIds` and
`Spec => []IncreasingIds` for any number of nodes and any field widths, under
`OneDisturbance` (no node both restarts and has its clock set back), which cannot be dropped
(section 3).  Neither property is inductive: they say nothing of
the generator's fields.  `IInv` adds that what a node has issued is ordered by (timestamp,
sequence) (`Ordered`) and lies at or before the generator's position (`Behind`); after a
restart, when the position is forgotten, it lies before the clock, which needs a clock that was
never set back.  The lemmas on `Pack` (a field smaller than its span does not carry, so packing
is monotone and injective) and on `Machine` take the order over to the ids.

**RedisLockProofs.**  `RedisLockType` and `RedisLockBoundedLease` hold without assumptions on
timing.  `RedisLockMutualExclusion` and `RedisLockOwnerKeepsKey` hold for every number of
clients, rounds, crashes and overruns, until the first overrun, under `Timely`, which relates
the allowances to the expiry: `AttemptMax + 2 * RoundMax + HoldMax <= Expire`, `AttemptMax +
3 * RoundMax <= Expire` and `HoldMax < Expire`.  The defaults of `Lock.java` (expiry 30 s, wait
10 s) leave room for a call of 11 s, rounds of 1 s and a use of the lock of 17 s.  The code
enforces none of the three allowances; a client that exceeds one is an overrun, not a behaviour
that the theorems leave out.  `RedisLockInvariant` is the inductive invariant, `Safe` until
`overruns` is positive.  `Safe` says that every client is within its time (`InTime`); that what
it will write is young (`Fresh`); that a loser puts back a value about as young, and until then
so is the one in the key (`Restoring`); that a client that has read an expired value finds it
unmoved or finds a young one (`Racing`), which is what makes the comparison after GETSET
decisive; that the key of an owner stays and does not run out before its owner is done
(`Owned`); and that there is one owner (`Single`).

**NettyRpcProofs.**  `RpcType`, `RpcOwnResult`, `RpcWaiterIsRegistered` and
`RpcTableHoldsUnanswered`, for any number of callers, calls, pool threads and broken
connections, with no assumption beyond the module's.  The properties look at a response only
once it is there, so they need what must hold before: a request that has not been handed over
or sent has left no trace (`Untouched`), is on the wire or with the server on its own handler's
connection (`OnTheWay`), and what comes back is its own result or an error, on that connection,
after its task is done (`Answered`); a callback is kept by the handler that its request goes
out with (`Registered`), even when callers that connect at once replace each other's handler.

**ShiroSessionProofs.**  `SessionType` and `SessionGoneForGood` hold for any number of nodes and
of overlapping requests, all of which may write.  They need little besides the types: a request
has an object exactly beyond `get` (`Served`), and before `doCreate` there is nothing
(`Uncreated`).  That a fresh object can always be found (`Free`) is a count: a request that is
about to get one has none, so caches and other requests cannot refer to all of them.
`SessionDurable` and `SessionBoundedStaleness` hold for any number of nodes, all of which may
write, and of requests, which may overlap; as the properties say, until a change of the session
is disturbed.  Then the code does lose changes (section 3).  The argument follows the requests
that have met no other and, if their node is not that of the last change, came after
`timeToLiveSeconds`: they are not in `unfit`.  Such a request is the only one (`Alone`), and
`InStep` says how the copies stay in step while nothing has been disturbed: only such requests
change the session (`Fit`), Redis is up to date unless one is about to save (`InSync`); what is
changed is not stopped and will be marked (`Running`); what was just read, and what a request
works on that may change it, is what the setters left (`Current`); it works on the object that
its node has cached unless reads pass that one by (`OwnCopy`); a usable copy is up to date on
the node of the last change, and elsewhere if it is younger than that (`CachedCurrent`).  That
is why a request that comes `timeToLiveSeconds` after the last change may be on any node.

**KickoutProofs.**  `KickoutType`, `KickoutDequeWellFormed` and `KickoutNoOverstay` hold however
requests overlap, on any number of nodes: the deques in the threads have no session twice and
only sessions that have come (`Known`), the loop ends at `maxSession`, and a copy is never older
than `timeToLiveSeconds`, so one that has missed a kick, and is therefore at least as old as it,
is dropped in time (`Lag`).  `KickoutAtMostMaxSession` and `KickoutInOrder` are about accounts
whose requests have not overlapped and had no copy run out under them, as the properties say;
copies that are out of date are included.  Then one thread at most is in the filter or behind it
(`Alone`), the sessions that work are live in Redis (`WorkingLive`), they are in the deque or in
the copy that will replace it, and so is the request's own session unless its node knows that it
was kicked out (`Covered`), and the deque is in the reverse order of entry (`InOrder`).  A
session that passes on a copy that has missed its kick is pushed again, which is why `Covered`
holds of it too, and why `Ordered` speaks of the last entry and not of the first.  There are no
hypotheses on the constants: a limit of 0 is included.

**DiscoveryProofs**, the address map.  `ZookeeperType`, `ZookeeperNoUpdateMissed` and
`ZookeeperServesAddressMap` (`Spec => ServesAddressMap`), for any number of callers, services and
registrations.  Whoever fills the map holds the monitor (`Locked`), so a step of the refresh maps
to a step of `AddressMap` or to none.  For the watchers: each is registered, or has one event
queued, or neither (`OneEvent`); a caller that may still make its watcher has not made one
(`Unused`); and unless an event says otherwise, what the event thread has read is what is there,
with a watcher registered (`Fetched`), and so is the map when nothing is on its way (`Fresh`).

**DiscoveryProofs**, the ribbon.  `RibbonType` and `RibbonLoneCallSucceeds`, for any number of callers and
addresses.  The type invariant is not inductive: that the owner of a monitor is in its block
follows from the step that enters it, but that `pos` stays within `Positions` needs a count
(`Room`): `pos`, and what a `pos++` has read of it, plus the number of calls on the ribbon never
exceed the bound, since each call adds one at most.  `Lone` is what the call keeps while nothing
overlaps it: its copy is the map, and `pos` stays as it was checked.

**RocketConsumerProofs.**  `ConsumerType`, `ConsumerAtLeastOnce`, `ConsumerInOrder` and
`ConsumerLossBounded`, for any number of threads, messages, failures and crashes, any batch size
and capacity of the binder's queue.  No message at or below the stored offset waits for its
acknowledgement (`Stored`), what a thread has passed in its list is dealt with (`Passed`), and
what is acknowledged was handled or is in the broker's hands (`Acknowledged`): hence
`AtLeastOnce`.  In orderly mode one thread at a time has everything that is pending, a run of
consecutive messages (`Orderly`), which makes `InOrder` inductive.  For the binder each crash
loses what was in the queue and in the loop, which is `Prefetch + 1` at most (`Loss`); what is
acknowledged and neither handled nor in flight was lost to an earlier crash.

**EditHistoryProofs.**  `HistoryType` and `HistoryExact`, for any size of the history (0, which is
unlimited, included), any documents and any edits.  `IInv` (`Good`) says that the edits up to the
index are in effect and the others can be brought back (`Marked`), that each was made where the
one before it led (`Chained`), and that the user is between the two around the index
(`Between`).  `Exact` alone is not inductive: undo may pass several edits, and what lies beyond
the next one is known from `Chained` only; and without `Marked` an edit might ignore an undo.
That the edits passed one after the other lead to where the first was made (`BackIs`, `ForthIs`)
is an induction over the loop.  It is carried out by hand, on the edit nearest to the index at
which the walk would differ from the expected one, since sets of natural numbers have least
elements (`Least`).  `HappenedGood` is about `undoableEditHappened`: trimmed, shifted by one when
it is full, and extended, a good history is good, with the new edit last; `TwoEditsStep` uses it
twice.  The theorems are about `EditHistory!HistorySpec`; that the editor implements it is what
the run `editor_history` checks.

Each of these inductive invariants was checked by TLC, on instances of the size of section 3,
before it was proved.

**Only model-checked.**  Liveness (`SpinEnds`, `GhostIsRecovered`, `CallsReturn`,
`AllConsumed`), which is out of the prover's reach; and of the editor its type invariant,
`UndoRedoExact`, `OneEditPerStep`, `KeepsHistory`, `TreeConsistent`, `EndsListed` and
`DictionaryExact`: `UndoLoop`, `RedoLoop` and `UpdateEdgeParents` are RECURSIVE operators, for
which tlapm has no SMT backend, and the operations are folds over sequences of changes, about
which only an induction over data would say anything.  That a single edit keeps its promise is
therefore checked, that a history of such edits keeps its own is proved.

## 6. Mutants

Each property of a passing run has a mutant in the module it is about: an operator next to the
definition it replaces, marked "Mutant", that changes it as a plausible slip in the code would
(a missing mask, `<` for `<=`, no comparison after GETSET, an error field that is not set, a
flag forgotten, `putIfAbsent` for `put`, one session too many, a kick that is not saved, a copy
that never runs out, a watcher that is not registered
again, an index that is not kept).  With the mutant in its place
TLC finds the property violated.

## 7. Plan

Modules that could follow, the most important first:

1. `RetryLimit`: get, increment, put of the retry count by concurrent logins.
2. `Tcc`: try, confirm and cancel of two participants with lost and repeated calls; an abstract
   all-or-nothing transaction.
3. `ChangeCapture`: columns against schema changes, restarts of the replicator.
4. `SpanTransport` and `Sharding`.

Next theorems:

- `GraphModel`: that executing a change twice restores the model (`ExecuteChild`,
  `ExecuteTerminal`, `ExecuteValue`), one change at a time, which needs no induction; over the
  changes of an edit it would then be the argument of `BackIs` once more.  The operators would
  have to move to a module without RECURSIVE ones.
- A ribbon over `ZookeeperService` itself, where it now builds on `AddressMap`: both refinements
  together give `LoneCallSucceeds` for the composition.
- The modules listed above, with their invariants.
