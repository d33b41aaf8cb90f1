# Verification of mmo-server

TLA+ models of the Go game server in this repository, the TLC runs that check
them on small instances, and TLAPS proofs for every value of the constants.
File and line numbers are those of the repository.

## 1. The system: inventory

| part | code | state | operations | talks to |
|---|---|---|---|---|
| asynchronous database | `pkg/db/async.go` | bounded queue, batches per statement, timers, workers, closed flag | QueryAsync, ExecAsync, batching, timer flush, worker, retry, Close, WaitForCompletion | database; used by the cache |
| write-behind cache | `pkg/db/cache_sync.go` | dirty entries with a status, ticker, closed flag | Get, GetMulti, Set, SetMulti, Delete, DeleteMulti, Flush, flushLoop, Close | Redis cache, asynchronous database |
| area-of-interest grid | `pkg/aoi/aoi.go` | cells with entities and a counter, a lock each | AddEntity, RemoveEntity, UpdateEntity, surrounding cells, query by distance | used by the player state manager |
| player state manager | `pkg/sync/player_state.go` | players, subscribers, callbacks | register, unregister, update, subscribe, notify, broadcast | grid |
| distributed lock | `pkg/redis/lock.go` | Redis key with token and expiry, renewals, stop channel | Acquire, TryAcquire, Release, Refresh, automatic renewal | Redis |
| publish/subscribe | `pkg/redis/pubsub.go` | subscriptions, handlers, stop channel | Subscribe, PSubscribe, Unsubscribe, message loop, Close | Redis |
| gateway sessions | `pkg/gateway/session.go`, `handler.go` | sessions, index by user, heartbeats | register, read, write, heartbeat check, cleanup, broadcast, Stop | transports, router |
| gateway transports | `pkg/gateway/*_server.go` and others | listeners, connections | accept, read, write, Stop | sessions |
| secure connection, keys | `pkg/gateway/secure_connection.go`, `pkg/security/crypto.go` | key pairs, shared keys | handshake, encrypt, rotate | peer |
| network server | `pkg/network/server.go` | clients, buffers, locks | pumps, Broadcast, heartbeat check, Close | peers |
| gRPC connections | `pkg/rpc/conn_manager.go` | connections, "being created" marks | GetConnection, idle cleanup, Close | gRPC |
| registry, load balancer | `pkg/rpc/load_balancer.go` | instances, watches | Register, Deregister, cleanup, WatchService, selectors | gRPC clients |
| RPC clients and servers | `pkg/rpc/*client*.go`, `*server*.go` | pending calls, timeouts | Call, retry, answer, close | peers |
| router, discovery | `pkg/protocol/router.go` | instances, watches | Route, Broadcast, watch | handlers |
| message formats | `pkg/protocol/message.go`, `converter.go`, `pkg/rpc/protocol.go` | none | encode, decode | all |
| metrics, configuration, programs | `pkg/metrics`, `pkg/config`, `cmd` | counters | collect, serve | all |

What makes each modelled part hard, and what would make it correct:

* **Asynchronous database.** Submitters, timers, workers, retries, `Close` and
  `WaitForCompletion` share a bounded channel and a map of batches. An accepted
  operation should be called back once, fail only after its last retry, never be
  in two places, and no batch should be left without somebody to flush it.
* **Write-behind cache.** Three kinds of `Flush` run next to writers and readers;
  a statement fails in the middle of a batch; a key is rewritten while its older
  write is being flushed. A write should reach the database once, and the cache
  should not go back to an older row.
* **GetMulti.** A loop ranges over a slice that its body shortens in place.
* **Grid and players.** A move takes the player's lock and the locks of two cells
  one after the other, with unregistration and other moves in between. A player
  should be in exactly one cell, the counters right, and a query by distance exact.
* **Distributed lock.** Leases expire, renewals are late or fail, answers are lost,
  processes end, and stop requests travel through a channel that names only the key. A
  holder should keep the key for its lease, its renewal should go on, and abandoned keys
  and goroutines should end.
* **Gateway.** A session keeps its lock during a blocking read, and Stop and the cleanup
  loop close sessions with the table locked: does everybody get on in the end? The streams
  of a QUIC connection share a session id without a lock, and the heartbeat checker
  removes ids it collected earlier.
* **Secure connection.** All connections share one key pair, which any handshake may
  rotate between another's derivation and its response.
* **Network server.** Two kinds of lock are nested in both pumps, the heartbeat checker,
  Broadcast and Stop.
* **RPC.** Callers wait for a connection that another is creating; watchers of the
  registry hold slices that the registry rewrites; calls are retried, closed, answered
  late, or answered two at a time.
* **Router.** The list of instances is read without a lock while it is shifted in place.
* **Publish/subscribe.** A stop channel and a running flag outlive the object they belong to.
* **Formats.** Lengths are cut to their width, and two fields of a header overlap.

## 2. Modules

| module | models | remarks |
|---|---|---|
| `AsyncDB` | `async.go` | one action per step between two synchronisation points |
| `AsyncService` | what `async.go` promises of one operation | abstract specification; `AsyncDB` implements it |
| `AsyncDB_proofs` | | invariants and refinement |
| `CacheSync`, `MCCacheSync` | `cache_sync.go` | uses the database as `AsyncService` describes it; of GetMulti, what it does to the cache |
| `CacheSync_proofs` | | flushes, owners of entries, what is stored and what is cached |
| `MultiGet` | the lookups of `GetMulti` | array, slice length and range index are explicit |
| `MCRequests` | | `MultiGet` and `QuicSessions`, which share no state, in one run |
| `AOIGrid` | geometry of `aoi.go` | pure operators |
| `PlayerWorld`, `MCPlayerWorld` | `player_state.go` with the cells of `aoi.go` | composes both parts |
| `PlayerWorld_proofs` | | geometry, types, what holds whatever overlaps, and what of players whose calls do not |
| `RedisLock`, `MCRedisLock` | `lock.go` | one key; Redis, its clients, renewals and time |
| `RedisLock_proofs` | | exclusion, renewals and leases |
| `Gateway` | `handler.go`, Session of `session.go`, accept paths of the WebSocket servers | one goroutine per session, cleanup loop, Stop, one broadcast |
| `QuicSessions` | `quic_server.go`, `quic_stream_handler.go`, SessionManager of `session.go` | streams of a connection share its handler |
| `SecureLink` | `secure_connection.go`, `crypto.go` | a key is told by the pair it comes from |
| `NetServer` | `network/server.go`, `message_handler.go` | both locks, all goroutines |
| `ConnManager` | `conn_manager.go` | one endpoint |
| `RpcRegistry` | `load_balancer.go` | one service name; views on a shared array |
| `GrpcCall` | `grpc_client.go`, `grpc_server.go`, `call.go`, `rpc.go` | attempts are requests of their own |
| `SimpleRpc` | `client_standalone.go`, `server_standalone.go` | a socket without message boundaries |
| `PubSub` | `pubsub.go` | one channel and one pattern that matches it |
| `Router` | `protocol/router.go` | arrays named by capacity, read field by field |
| `Wire` | `protocol/message.go`, `rpc/protocol.go` | pure operators on sequences of cells |
| `Requests_proofs` | | `Wire`, `QuicSessions` and `MultiGet` |
| `Messaging_proofs` | | the inductive invariants and types of `NetServer`, `PubSub` and `Router` |
| `Rpc_proofs` | | the inductive invariants and types of `GrpcCall` and `RpcRegistry` |
| `Services` | | the eight parts that share no state, composed; the other inductive invariants, and the theorems about all of them |
| `MCServices` | | `Services` on small instances, and `Wire` on short inputs |

A definition whose comment says "mutant" is a plausible wrong version of
the definition that follows it. No specification uses it; it shows that a property
can tell right code from wrong.

### AsyncDB

`subm` follows each submission: the closed flag is read (`checked`), and later,
without the lock, the operation goes to a batch or to the queue. A full batch,
`processBatchByTimer`, `Close` and `WaitForCompletion` flush by holding `batchMu`
and enqueueing one operation per step; an enqueue on a full queue drops the
operation (`lost`), because `processBatch` and the retry ignore the error. A worker
takes an operation, runs it (success, error or cancelled), sleeps before a retry and
requeues. `Close` marks, flushes, closes `stopChan`, waits for the workers and closes
the queue; a later send on the closed queue is a Go panic (`panicked`) after which
nothing happens. The text of the SQL is reduced to "which batch"; statistics are left out.

### CacheSync

`client` follows Set, SetMulti, Delete, DeleteMulti, Get and GetMulti between cache, dirty
entries and database. `flusher` follows the runs of Flush: the ticker's (a call by
hand behaves like a tick), Close's, and those that "go cs.Flush" in a Set starts, any number of which may
run at once (`Kicker`; `kicks` counts those not running yet). A statement succeeds, fails (applied or
not) or is dropped, in which case the caller waits on `resultChan` for ever (`hung`). A Set whose cache
write returned an error may have been applied (`SetCacheFails`); a Delete ignores such errors, and so do the
fills of Get and GetMulti.
A write is a number, so no two rows are equal. `UPDATE` changes only an existing row,
as the code's SQL does. Version, Tags, DirtyTTL and the status "flushing" are never
used by the code, and statistics are left out.

GetMulti reads the dirty entries of the keys that MGet does not have, and caches them, under one read lock
(`MultiDirty`), asks the database for the others (`GetQuery`) and fills the cache key by key
(`GetFill`). Which keys its loop finds and which it leaves to ask is `Sorted`, the
outcome of `MultiGet`'s loop: a dirty key may be skipped or, when the request repeats it, found and asked as well.

`latest`, `direct`, `overlapped`, `raced`, `astray`, `failed` and `flushed` are history. `astray` holds the
keys cached by a Set that then failed, or asked from the database although dirty, until the next Set.

### MultiGet

A request is any list of identifiers and may repeat one. `missing` is the backing array, `len` the
length of `missingIDs`, `idx` the range
index. Go's `range` evaluates the slice once, so the loop runs over the original
length of the array while `append(missingIDs[:i], missingIDs[i+1:]...)` shifts it.

### AOIGrid and PlayerWorld

A move is MoveBegin (look up), MoveReadOld, MoveSet, MoveCompare, MoveLeave,
MoveEnter and MoveNotify, one per lock section. Unregistration has two steps,
because the position is read before the cell is locked; the manager's lock is held
throughout. A registration makes a new object, and a move under way goes on with the
old one. UpdateOther stands for the updates of velocity, rotation and attributes.
Coordinates are integers; height and float32 rounding are left out. `disturbed`
records the players whose calls overlapped or that went outside the scene, `gone` the updates whose
player was unregistered since they began.

### RedisLock

`redisKey` and `ttl` are Redis: the scripts of Release and Refresh compare and change
them in one step. A token belongs to one call of TryAcquire; `stage` is where its caller
stands, with a step between SetNX and startAutoRenew and one between Release's script
and stopAutoRenew. A call may fail, applied or not. `renew` is the goroutine of the token,
`stops` the channel, and HandleStop closes what is registered when the request
arrives. The channel also keeps who sent a request, but only for the history `crossed`;
`missed`, `frail` and `expired` are history too. An attempt that does not win changes nothing,
so Acquire's loop is TryAcquire with a new token. Time is in ticks, and timeouts are at least three
(in the code, nanoseconds: less would make the interval zero, on which NewTicker panics).
If `prompt` is false goroutines run arbitrarily late, as after a pause of the process.

### Gateway and QuicSessions

A session's goroutine goes through read, reading, handle, respond (or complain) and, at
the end, unregister and close. `reading` holds the session's lock, so Close and a
broadcast wait for it; `mutex` is sessionsMutex, which the cleanup loop and Stop hold for
their whole range. The accept paths set the deadline of the connection once; nothing
extends it, and after it (`late`) reads and writes fail. A client is never obliged to send:
only the deadline ends a read for certain. In `QuicSessions` a stream checks the
handler's flag, presents an id or has one generated (the handler's id is empty between
the two), makes the session, and then looks the session up before each message. The checker's ids
(`expired`) are removed one by one, whatever they stand for by then.

### SecureLink

RotateKeys writes the private and the public key in two steps under the lock; the
handshake reads them without it, in two calls. `crossed` records that a rotation ran
between these reads. The client is external and derives its key from the response.

### NetServer

`wlock` and `rlock` are clientsLock, `closing` is who holds a client's closeMutex.
Close first closes the connection and then takes clientsLock to leave the table. The
processors of `message_handler.go` are what they do to this state: one answer, a new
`lastPing`, or a Broadcast.

### ConnManager, RpcRegistry, GrpcCall, SimpleRpc

An entry of `ConnManager` is created by one call and is creating, ready, failed, shut or
refused; a failed transport may recover by itself. A caller that waits with the lock held ends with two
unlocks (`Unlock`, `UnlockAgain`): the second is fatal, or releases a lock that another caller holds by
then. `dead` is the end of the process, by a nil connection or by such an unlock. In `RpcRegistry` a list that a watcher holds is `shared` while it is a view on the array
the registry uses: writes in place reach it. In `GrpcCall` an attempt that timed out may
still be run by the server; a panic there, over a method with builtin argument types or in the method, is
recovered from and answered with an empty response, which the client takes for a success
(result "empty"). `done` loses a signal when the caller's channel is full; the channel that Go makes itself
has `DoneRoom` places. In `SimpleRpc` one Read may return several messages,
which then do not parse.

### PubSub, Router, Wire

`PubSub` keeps `isRunning`, the closed `stopChan` and the object apart, as the code does,
and Redis sends a message once for each kind of subscription. A handler that is subscribed again is in
the list again, so calls are counted per entry. `Router` copies the cells
of the slice it was handed one field at a time, while registrations overwrite
and deregistrations shift them. `Wire` treats a byte or a whole number as a cell, so
that only cutting to a width and the overlap in the header remain of the conversion.

### Services and MCServices

The eight parts share no state, so a behaviour of `Services` is a behaviour of one of them
(`part`), and `v1` to `v16` stand for its variables in the order of its declaration. The
registry has two parts, one with watchers and one with the load balancer. `NetServer`,
`PubSub` and `Router` share the instance `Msg`, and `GrpcCall` and `RpcRegistry` the instance
`Rpc`, those of the modules with their proofs. In `MCServices` TLC
also evaluates `MessagesDecode` and `CallsDecode`: the conversions of `Wire` on all short
inputs, with widths of 4 and 8 in place of 2^16 and 2^32.

## 3. Runs

| run | states | shows |
|---|---|---|
| `async` | 147,247 | all invariants, refinement of AsyncService, and liveness of operations and Close |
| `cache_flush` | 496,884 | concurrent flushes: nothing is sent twice, pending entries are owned, clean means stored; dirty entries are written in the end |
| `cache_fresh` | 1,968,675 | what the cache may hold while clients write, read, fail and a Flush runs |
| `cache_lost` | violation | a write made during a Flush of its key is lost |
| `requests` | 369,692 | no identifier lost, or asked for more often than requested; ids under which messages are handled; unused sessions expire |
| `multiget_dirty` | violation | an identifier with a dirty entry is asked from the database |
| `multiget_error` | violation | after an error of the cache the database is not asked |
| `world` | 848,829 | visibility, counters, placement, queries, what callbacks are told |
| `lock` | 317,405 | exclusion, renewals, leases; abandoned keys and renewals end |
| `lock_held` | violation | a late stop request ends the renewal of the next holder |
| `services` | 2,298,916 | types, locks of the network server, one connection per endpoint, registry watchers, gRPC calls, stand-alone calls, publish/subscribe, keys, routing |
| `gateway` | 166,103 | every connection is closed and unlisted in the end, and Stop returns |

The type invariants of the modules before `services` are in the modules and, but for
`CacheSync`'s, `Gateway`'s and `QuicSessions`', proved; the runs do not list them again.

Bounds, and why they are enough for the cases of interest:

* `async`: two operations, one batch of two, a queue of one, one retry, one worker. A
  full queue, a full batch, a stale timer, a retry meeting a full queue and a late
  submitter all occur. The proofs cover all other values.
* `cache_flush`: two keys, batches of one, two writes, one fault: several batches per
  Flush; the ticker, Close and up to two goroutines of a Set at once; a failed or dropped statement with
  another batch behind it. Flush reads neither the cache nor what an Immediate write does, so `FlushSpec` leaves these out.
  `cache_fresh`: two keys, one client that writes one or both, with and without Immediate, one that reads one or both,
  two writes, one fault, any number of expiries: fills race with writes and with the ticker's Flush. Close and further
  runs of Flush change the cache in no way and are left out of `ReadSpec`. The theorems are about
  `Spec`, which has all of this, and every value of the constants.
* `requests`: every request of up to three of three identifiers and all splits into cached, dirty and
  stored; three suffice to skip an element, and to find and ask the same one. One QUIC connection with
  two streams and one id a client presents, next to the empty and the generated ones.
* `world`: two players, two movers, two updates, two registrations per identifier; a
  scene of 6 by 8 with cells of 2, so the grid is cut off in Z; positions one apart in
  different cells, one beyond the last row, one just outside the scene.

* `lock`: two tokens of one process, timeouts of 3 and 6 ticks with a configured
  interval of 2 (too long for the shorter timeout), a channel of one place, two faults: an expired holder
  meets a new one, stop requests cross and block, two renewals fail in a row, the process
  ends. Tokens of different processes meet only in Redis; the proofs cover them.

* `services`: two clients with a Send channel of one place; three callers with two calls
  each (a creator, a waiter inside and one outside the lock); two instance ids with two
  registrations each and one watcher; one Call of two attempts (three in the code; the theorems cover them)
  and one asynchronous call; three stand-alone calls; two messages, two openings of publish/subscribe and a handler that
  subscribes twice; two sessions
  and three key pairs (a rotation inside another's handshake, and a second one); two
  instance ids, three changes and one caller of the router, which is enough for a shift
  and an overwrite under a reader, with arrays of 1, 2 and 4 places, the capacities that
  append doubles through.
* `gateway`: two sessions and one broadcast: a holder of the table waits for one session's
  read while the other waits for the table.

Symmetry is used for keys (`cache_fresh`) and movers (`world`), which occur
in no liveness property of these runs and are interchangeable everywhere.
Deadlock is not checked: clients need not call anything, bounds stop the runs, and
after a panic the process is gone.

Fairness. `AsyncDB`: a goroutine that can run does (Go's scheduler), a database call
returns (OperationTimeout), a timer fires, a released mutex is granted; Close goes on
once begun; nobody is obliged to submit or to close. `CacheSync`: the ticker
ticks, and a run of Flush under way goes on; no client is obliged to call, or to finish a call.
`RedisLock`: time passes, renewals and the handler run when they can, and a call of
TryAcquire or Release that was begun goes on; nobody is obliged to acquire or to release.
`Gateway`: goroutines run, the deadline of a connection passes, Route returns by its
timeout, and a waiter for sessionsMutex gets it although the cleanup loop takes it again and
again (Go hands a mutex to a waiter of one millisecond: strong fairness). No client is
obliged to send, to connect or to leave. `QuicSessions`: time passes for a session nobody
uses, and the heartbeat checker ticks and goes through its list; connections and streams
need not do anything. `PlayerWorld`, `MultiGet` and the parts of `services` have
safety properties only.

Each violation run is a disagreement with a line of the repository:

* `cache_lost` (`cache_sync.go:797`): flushBatch removes dirty entries by key, also the
  newer one. `cache_sync.go:124` promises a periodic flush to the database, and
  `docs/IMPLEMENTATION_STATUS.md:184` conflict detection and version control; Version is
  never compared. `CleanMeansStored` shows that this and an Immediate write are the only
  ways in which a key without a dirty entry is left with an older row, failed flushes
  included.
* `multiget_dirty` (`cache_sync.go:343`): the range skips identifiers. An
  identifier with a dirty entry is then asked from the database and the older row is
  returned and cached.
* `multiget_error` (`cache_sync.go:302`): when MGet fails, missingIDs stays empty and GetMulti returns an
  empty answer without an error. `cache_sync.go:301` says that the error is ignored and the database queried next.

* `lock_held` (`lock.go:356`): the request queued by Release closes the renewal that a
  new TryAcquire of the same process has registered meanwhile. `lock.go:62` says that held
  locks are tracked for renewal. `RenewedUnlessCrossed` shows that nothing else ends
  the renewal of a held lock.

Observed while modelling, without a run of its own:

* `WaitForCompletion` returns nil while a worker still runs or sleeps before a retry
  (`async.go:252`, comment at 231 "等待所有操作完成"); `WaitDrains` states what it does ensure.
* A batched operation or a retry that meets a full queue is dropped without a callback
  (`async.go:368`, `474`); `AsyncService` therefore has `Drop`.
* After an error in a batch its entries stay "pending", and no Flush takes them again
  (`cache_sync.go:782`); `FlushedInTheEnd` counts these entries as given up. A dropped statement leaves its run
  of Flush waiting for ever (`cache_sync.go:850`); if it is the ticker's, no tick flushes any more. The property
  shows that nothing else is held up: other batches, other runs, and later writes of the same key.
* A Get or GetMulti that read a row before a Set may fill the cache after it (`cache_sync.go:207`, `260`, `435`),
  and a Set that failed may have changed the cache (`475`). `CacheIsFresh` lists these cases and
  shows that there are no others for a key last written by a Set.
* An Immediate write leaves an older dirty entry, which a later Flush writes over it
  (`cache_sync.go:480`).
* A player that leaves the scene is not moved in the grid any more and stays there
  after unregistration (`aoi.go:238`).
* A Release that fails returns before the renewal is stopped (`lock.go:184`): unless the
  caller tries again, the key is renewed for as long as the process lives.
* The renewal always uses the timeout of the acquisition; `lockInfo.timeout`, which Refresh
  updates (`lock.go:246`), is never read.
* A Close called by a goroutine that holds clientsLock (Broadcast with a full channel,
  `server.go:138`; checkHeartbeats, 169; Stop) waits for that lock for ever.
  `SomeoneCanStep` exempts it and shows that nothing else blocks.
* The second wait for a connection in creation holds the lock that its creator needs
  (`conn_manager.go:150`), so it runs into its timeout and then unlocks twice. The second unlock is fatal, or takes
  the lock from a later waiter, whose wait may then end well; `OneLiveConnection` holds until the process ends. The first wait may return
  nil without an error when the creator failed (line 115).
* A handshake that a rotation crosses leaves the two ends with different keys
  (`secure_connection.go:147`). The client's key is unmarshalled without
  the base64 decoding that the server's own key gets, and the session id it must send back is
  never told to it.
* Of a payload length only the upper half survives Encode (`message.go:146`): header
  fields take 22 bytes and HeaderSize is 20. `MessageRoundTrip` says what Decode makes of it.
* NewService keeps a method only if its messages come from a package whose path is
  "proto_define" (`rpc.go:120`); the repository's own path is "mmo-server/proto_define".
* A panic in the server's Call is recovered from without an error (`grpc_server.go:104`), and the client takes the empty
  response for a success; `RunsMatchAttempts` says for which calls.
* SetUserID is never called: the gateway's index by user stays empty and BroadcastToUser
  always fails. SessionManager.Stop, QUICStreamHandler.Close and handleQUICConnection are
  never called either, and the router never consults its HandlerRegistry.
* After Close of publish/subscribe a later Subscribe starts a loop that ends at once, and
  a second Close panics on the closed channel. A Subscribe that fails leaves its handler in the list, and a
  second one adds it again (`pubsub.go:131`): the handler is then called once per entry.

## 4. Proofs

All theorems hold for every value of the constants allowed by the named
assumptions `AsyncAssumption`, `CacheAssumption`, `MultiGetAssumption`, `SceneAssumption`,
`WorldAssumption`, `LockAssumption`, `WidthAssumption` and, in `Services`, `ConnAssumption`,
`LinkAssumption`, `SimpleAssumption`, `NetAssumption`, `PubAssumption`, `RouteAssumption`,
`GrpcAssumption` and `RegAssumption` (sizes and limits are naturals, markers differ from
data, the cells divide the scene evenly in X, the spawn point is in the scene, timeouts are
at least three ticks, a call is made by Call or by Go and not by both and has an attempt,
the key manager makes a pair at the start, there is an array for a list that grows by one, the channel Go makes has room for two signals, and
there are as many names for the goroutines of Sets as Sets).

* **AsyncDB.** `IInv` is TypeOK with `Control` (which lock holder, timer and closer
  states go together), `Places` (an operation is in exactly one place),
  `Answers` (attempts, retries and results agree), `BatchHasFlusher`, `Panics` and
  `WaitInv`. No conjunct but the types is inductive alone: that nothing is
  copied needs to know who may hold `flush`, and that a batch has a flusher needs
  that an entry in `batchTimers` implies a timer that has not run. From `IInv` follow all the
  invariants of the run, and `Refinement`: every step is a step of `AsyncService` or
  leaves its state alone.
* **CacheSync.** `IInv` joins `PendingIsOwned` and `CleanMeansStored` with `Calls` and `Runs` (what
  a client call and a run of Flush carry at each stage), `Numbers` and `OwnWrite` (a write that its
  client has not noted as dirty yet is nobody else's), `OneHolder` (one run at most holds a
  write of a key), `NotYet` (what was not sent was not applied), `InStep` (along the plain
  course the dirty entry is the last write, a run holds that entry or none, and what it
  has sent is in the database) and `Apart` (where calls do not overlap, the one call on a key
  knows what the cache may hold, and what it is about to fill it with). `CacheIsFresh` follows from `Apart`, which needs `InStep`: a Get
  or GetMulti refills the cache with what it read from the dirty entry or from the database earlier.
* **MultiGet.** `MultiInv` joins the properties with `NothingMissed` (nothing is missing before MGet
  answers or when it failed). `AskedAsRequested` exhibits
  the places of the request that are still to be asked; `RemovedFacts` says what the in-place removal leaves of them.
* **PlayerWorld.** Geometry first: `SurroundingCovers` says that the cells within
  the rounded-up range contain the cell of every position within the distance, also when
  the grid is cut off. `TypeInv` then types objects and movers. `Visible` and `Covered`
  need no more, because each cell step keeps them by itself. `Kept` (from its lookup on, an update has the
  registered object or its player was unregistered since) gives `CallbackToldWhatChanged`. `Alone` (an undisturbed
  player has at most one update, of the registered object), with `Placed`
  (where such a player is at each stage of its move) and `CountExact` is
  inductive, and gives `ExactPlaces` and, with the geometry, `ExactQueries`.

* **RedisLock.** `IInv` adds to the properties `Fresh` (a token that is not registered yet has
  no renewal, no stop request and no entry), `Open` (a registered channel is open),
  `Gone` (a token with a stop request under way is not the key's again), `Running`,
  `Ticker` and `Lease`. `Lease` is what makes `LeaseKept` inductive: what is left of a lease
  exceeds the time to the next renewal by the timeout less one interval, or less two after a failed
  renewal, and three intervals fit the timeout (`IntervalFacts`).
* **Services.** `Inv` is the inductive invariant of the part the behaviour is of; the lemmas of
  each part say that its `IInv` holds initially and is kept, and `PartSteps` that a step is one
  of the part. `TypeCorrect` is proved relative to `Inv`, with `TriesLeft` (a gRPC call that
  backs off has an attempt left): most bounds of `TypeOK` follow only from the invariant, as
  that no call is signalled three times from `SignalledAt`. The parts:
* **ConnManager.** `IInv` is `Types`, `OnlyRegistered` (of all entries only the registered one
  is live) and `DialsItsOwn`: a caller that dials has its own entry registered, still in
  creation. The last is what makes the deletion after a failed dial harmless.
* **SecureLink.** `IInv` adds to `KeysAgree` `PairIsWhole` (the manager's two keys belong together
  unless one rotation is under way), `DerivedFromPair` (a handshake that was not
  crossed still sees the pair it derived from) and `QuietBefore`. KeysAgree alone
  says nothing of a handshake in progress.
* **SimpleRpc.** `IInv` adds to `CallsSettle` `OwnResponse`: a call that is not registered yet has no
  response, and a response that waits for its call is its own.
* **NetServer.** `SomeoneCanStep` is about a state, so the invariant has to say who can hold
  what: `HolderLoops` (clientsLock is held by goroutines in a loop only), `CloserUnlists`
  (a closeMutex is held by a Close about to take that client out of the table), `CloseHasClient` and
  `StartsOnce`. `NetEnough` then finds the goroutine that can go on.
* **GrpcCall.** `RunsAreBehind` counts: a method ran at most as often as there are attempts that were
  sent and are no longer under way. It needs `RequestsAreSent`, and with
  `RetriedBefore` (a later attempt follows a retryable error), `SuccessRan` and `SignalledAt`
  (how often `done` ran at each stage of Go and of Close, and for whom a signal may be lost) it is inductive.
* **PubSub.** `OnePlace` (a message copy is in the stream or in the hands of one loop, once),
  `SentOnce` (what is on its way was published, and twice only with both kinds of
  subscription) and `Once` (an entry's count and the copies on their way together never exceed
  what it may get, two at most). The count alone is not inductive: a second copy may
  still arrive.
* **RpcRegistry.** `RegIInv` is `RegTypes` and `LatestListed`: the latest registration of an id is
  in the list until it is down. `NoPhantom` alone says nothing of what a later
  notification sends. What GetInstances, WatchService and cleanup keep (`Active`) is defined by the rank of each
  instance among those that are up, not by recursion; `RegRanks` shows that the ranks leave no gap, and
  `RegActive` that the result holds the instances that are up and no other.
* **Router.** A caller or a watcher holds a slice of an array that others write to. `CallersSafe` and
  `NotesSafe` say of each holder that the cells of its slice (`ReadsOnly`) hold only ids
  registered at some time since its lookup; `RouteRewrite` says that an overwrite adds to them only
  the ids it writes. `RoutedToRegistered` speaks of what was already read, so it is not inductive.
* **QuicSessions.** `ClaimedIsPresented` (once a stream is past its authentication, the handler's id is one
  a stream presented) with `QuietBefore` and `CountIsExact`.
* **Wire.** `FieldRead` and `FieldCut` say what reading a field with its length before it
  gives, on whole and on cut data. From them: requests and responses come back
  (`RequestRoundTrip`, `ResponseRoundTrip`), a cut request is refused wherever it is cut
  (`CutRequestRefused`), and what exactly Decode makes of an encoded message
  (`MessageRoundTrip`, `MessageKept`).

Only model-checked: liveness (`CalledOrLost`, `CloseTerminates`, `FlushedInTheEnd`,
`FreedInTheEnd`, `RenewalEnds`, `SessionsEnd`, `OrphansExpire`), which needs fairness and
ENABLED. Every other property that a run shows to hold is also proved.

## 5. Not modelled

Statistics and averages, logging, SQL text, JSON and protobuf conversion, float32
rounding, height, callback registration, AutoRenew switched off, cryptography, and:

* the Redis cache and the connection pools (`redis/cache.go`, both `connection_pool.go`), which
  pass each call on to a client library and keep no state between calls;
* the converters (`protocol/converter.go`): copies of fields between formats;
* the handler registry (`protocol/handler_registry.go`): one map behind one lock, which
  no other part uses;
* metrics: maps of counters behind one lock and an HTTP endpoint;
* the gateway's index by user, which stays empty, and its unused QUIC path;
* reflection on the methods of RPC services, of which the models keep whether a method
  is found; the RPC factory and the example service, which are wiring;
* configuration, programs, examples, tools and generated code;
* torn reads inside one field, where the code reads without a lock (`Router`), and data
  too short for a message header (`Wire`).
