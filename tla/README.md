# TLA+ models of the Bun/Elysia starters

The repository holds two HTTP service starters for Bun and Elysia,
`bun-elysia-clean-starter` (PostgreSQL, Redis, RabbitMQ, S3) and
`bun-elysia-mongo-starter` (MongoDB, Redis, RabbitMQ, gRPC). Their own logic is
the infrastructure around the routes: clients that reconnect, a lock and a
leaderboard kept in Redis, a boot order and a graceful shutdown. This directory
models that logic in TLA+, checks it with TLC and proves its safety with TLAPS.

Paths below are relative to `bun-elysia-clean-starter/src` (clean) or
`bun-elysia-mongo-starter/src` (mongo).

## 1. Inventory

| Component | State it keeps | Operations | Hard part | What makes it correct |
|---|---|---|---|---|
| Sorted-set board (`infrastructure/cache/redis-client.ts` 465-577) | the board key, the temp key of a rebuild | `zRebuild`, `zIncrByIfExists`, `zAddNXIfExists`, `zRem` | a rebuild is several commands beside other writers; it may die between any two; keys expire, later with every write | readers never see a partial board; only a rebuild creates one; late commands take nothing back; a stale board is replaced once writes stop |
| Distributed lock (same file, 387-436) | the lock key, commands on the wire | `acquireLock`, `releaseLock` | a command outlives the call that timed out on it; retry, expiry, crash | one owner; only the owner releases; every call returns |
| Redis connection (clean 50-174 and 580-591; mongo 32-144) | reconnect timer, two intervals, `closing` | `createBunClient`, its handlers, `close` | events after close, dials failing in several ways, Bun's own reconnect | nothing outlives close; one interval each; a lost connection returns |
| Plain cache commands (same file) | keys with TTL | `set`, `del`, `expire`, `incr`, `flushPattern`, SCAN | mongo's SET then EXPIRE; a scan beside writers; commands cut off by a lost connection | no key without the TTL asked for; listings are complete; a window ends |
| Redis singletons (`infrastructure/cache/redis-manager.ts`) | one client per role | lazy getter, `closeRedisClients` | a getter raced with itself | one client per role |
| RabbitMQ client (`infrastructure/rmq/rabbitmq.ts`) | connection, channel, timer, flags, callbacks | `connect`, `scheduleReconnect`, `onConnect`, `close` | every await may be interleaved with a drop, a channel error or shutdown | health is true, no orphan connection, consumers follow the connection, it comes back |
| Graceful shutdown (`lib/shutdown.ts`) | `shuttingDown`, the loop over disposables, the kill timer | `shutdown(reason, code)` | repeated signals, hanging or failing cleanup, the deadline | requests first, each resource once and in order, exit 0 is true, it ends |
| Startup (`index.ts`, `main.ts`, `config/env.ts`, `instrumentation.ts`) | which resources exist | import telemetry, check the environment, connect DB, migrate, connect Redis and RabbitMQ, listen | failure at any stage, promises of one stage settling in any order, a signal before the handlers, telemetry that cannot be loaded | fail fast; no traffic before everything is there |
| HTTP pipeline (`http/server.ts`, `http/middleware/*`, `lib/request-context.ts`) | per-request context | hooks in order, error boundary | concurrent requests in shared hooks, errors in any hook | the request's own id on its lines and its answer, one closing line |
| Health routes (`http/routes/health.routes.ts`) | none | ping raced with a timer | late answers | a hung pool reads as down, and every probe is answered |
| Tracing (`lib/tracing.ts`) | none | `traceOperation` around an await | tracer failing before or after the operation | the operation runs once, its outcome is told |
| Pure code (`lib/pagination.ts`, `errors.ts`, `result.ts`, `datetime.ts`) | none | functions | boundary values | bounds hold |
| Mongo lifecycle (mongo `main.ts`, `index.ts`) | what `shutdown` closes | startup, shutdown on every signal, two servers | no guard, no deadline, several teardowns at once, unhandled rejections | databases outlive requests, exit 0 is true |
| Mongo RabbitMQ, Mongoose, gRPC | client state | connect, close | as above, with fewer guards | as above |

How they interact: `main.ts` creates the clients and hands their `close()` to
`setupGracefulShutdown` as disposables (RabbitMQ, then Redis, then the
database). Use cases reach Redis through the client's typed interface
(`types.ts`), whose comments state what callers may rely on. The health route
reads `isConnected()` of RabbitMQ and pings the rest. Everything runs on one
JavaScript thread, so a step is the code between two awaits or one callback;
concurrency is between awaits, between processes that share a Redis, and with
the brokers.

`PROJECT.json` lists every component with its status and every hazard with its
line and the property aimed at it.

## 2. Modules

| Module | Models | State and actions |
|---|---|---|
| `Board` | the four sorted-set commands that write, over one board | `board` and `temp` are keys (sorted set and TTL class); `pc`, `entries`, `todo` are each rebuild; every Redis command is an action (`DelTemp`, `AddChunk`, `ExpireTemp`, `Swap`); a Lua script is one action because Redis runs it whole. `db`, `change` and `Commit` are the callers, as the comments in `types.ts` describe them |
| `RedisLock` | `acquireLock`, `releaseLock`, the timeout race and the retry | `owner` is the key; `wire` the commands a client has sent and Redis has not run; `reply` an answer on its way; `pc` the call |
| `Leaderboard` | what a sorted set in front of a database promises its readers; no chunk, temp key or TTL | `db`, `board`, `taken` (the standings that each rebuild has read). `Board!Promise` is the refinement mapping |
| `Lease` | what a lock with a TTL promises; no code detail | `holder`, `users`. `RedisLock!Promise` is the refinement mapping |
| `RabbitMQ` | the whole client of either starter (`clean`) | the module's `state` object, `dial` (the `connect()` in progress, by its await), and the broker: `up`, `open`, `heard`, `fed` |
| `Shutdown` | `setupGracefulShutdown` for any list of disposables | `calls` are the runs of `shutdown()` past its guard, by what they await; `begun` counts `dispose()` calls; `exited` the exit code |
| `RedisConnection` | `createBunClient` and `close` of both starters | `link` is Bun's connection, `timer`, `monitors`, `keepalives`, `closing` the closure's variables; `auto` tells the starters apart |
| `Cache` | the plain commands of both starters, on top of `RedisConnection` (which it extends) | `store` is each key's TTL class, `counter` the window of `incr`; `call` is what a caller of several commands has under way; a Redis command is an action, and `GivesUp` is a command cut off by the connection |
| `Service` | the clean starter's process; extends `Shutdown` with the boot and with time | `boot` and `awaited` are where `index.ts` and `startServer` are and which promises of the stage are pending; `raw` the environment by kind of variable; `elapsed` and `flushSince` the clock of the shutdown. `ImplementsShutdown` is the refinement of `Shutdown` |
| `MongoService` | the Mongo starter's process | `boot`, `awaited` as above; `runs` is every run of `shutdown()`, by the step of `Teardown` it awaits; `up` what is open; `flushing`, `flushed`, `failed` the telemetry providers |
| `Http` | a request in either starter: hooks, probes, tracing, error boundary | `req[r].phase` is the hook that is next; `ctx` what AsyncLocalStorage holds, `lines` what was logged, `ping` each pool's race, `runs` how often the operation ran |
| `MCBoard`, `MCRedisLock` | model values for TLC | |
| `*_proofs` | theorems of the module of that name; those of `RedisConnection` are in `Cache_proofs`, which carries them to the cache | |

A definition whose comment starts with "Mutant:" is no part of the model: it is
a plausible bug, put in the place of the definition below it to see that the
property meant to catch it does.

### What is abstracted, and what is assumed of the outside

* Scores are small naturals and a score grows by one. A TTL is a class: none,
  the temp key's, the caller's. `SlowLink` is false when a chunk never reaches
  Redis later than the temp key's TTL after the chunk before it; every chunk
  refreshes that TTL, so this asks for one command a minute.
* Callers of the board commit to the database first and rebuild a board that
  reads as missing. That is what `types.ts` asks of them; no caller is in the
  repository.
* A connection delivers a client's commands in order. When it is lost, each
  command on it has run or never will, and the answers are gone (`Run` before
  `ConnectionLost` gives the first case). Commands sent while it is down wait
  in Bun's offline queue, which is the rest of `wire`.
* Each lock client uses a value of its own. `LeaseCoversUse` is true when
  callers stop using the lock before its TTL: no lock with a TTL excludes a
  caller that does not. `OnlyOwnerReleases` does not need it.
* A backoff delay is "some time": a timer that is armed may fire at any point.
* `onConnect` is called while the client is ready, as consumers do at startup, by
  one consumer and as often as it likes: `callbacks` is how often its callback
  stands in `connectCallbacks`, and `again` counts the calls repeated on the
  client's channel, each of which sets the consumer up there once more.
* A connection that drops and its close handler are one step, so nobody reads
  `isConnected()` between the two.
* RabbitMQ listeners are attached in the same step as the last await of
  `connect()` returns; a close event that the library has queued before that
  step and delivers inside it is not modelled.
* Bun's `RedisClient` (external): a dial settles within `connectionTimeout`;
  `close()` gives up a dial under way; `onclose` may or may not be called for a
  failed dial that somebody awaits; with `autoReconnect` Bun dials again by
  itself after a drop. After a failed first dial `RedisConnection` goes on
  running; that the process exits is `Service`'s and `MongoService`'s.
* Commands of `Cache` are sent only while the client says it is connected. One
  that is cut off has run or not and its caller hears nothing (the `catch`
  returns a default), which is `GivesUp`, possibly after the command's own step.
  `set` is called with a positive TTL, and counters have keys of their own.
* `Service` abstracts environment variables to three kinds (required, defaulted,
  optional) and four values each; `extreme` is a number that `Value.Check` lets
  through and `Value.Decode` refuses. OpenTelemetry packages are three: what
  `lib/tracing.ts` imports statically (two) and the rest of the SDK; any of them
  may be broken. A second is one `Tick`. Shutdown's own steps take no time, and
  a step that is due (a timer has fired) happens before the next tick.
* Elysia (external) runs hooks in the order `Http` writes down. A body too
  large, a token refused, an invalid query are choices. Feature routes are what
  the starters are made for: a handler that awaits one traced operation.
  AsyncLocalStorage keeps the contexts of concurrent requests apart: that
  `enterWith()` in a hook reaches its own request only is assumed, not shown.
* A tracer fails before it calls the operation or in the span's bookkeeping. A
  `startActiveSpan` that throws by itself after its callback has returned is not
  modelled; `lib/tracing.ts` 77-80 would run the operation again.
* The Mongo starter installs an `unhandledRejection` handler and a snapshot
  timer, so a boot that fails may end the process or leave it without servers;
  `MongoService` allows both.
* The kill timer of a shutdown is `unref()`d: it keeps no process alive by
  itself. A drain or `dispose()` that never settles holds a socket or a handle,
  and the process with it; `ShutdownEnds` rests on that. Without any handle
  left the process ends on its own.

## 3. Runs

| Run | Instance | What it shows |
|---|---|---|
| `board` | one rebuilder, two writers, two members in chunks of one, one increment and any number of joins and leaves, one aborted rebuild | whole swaps, no creation by guarded commands, no score taken back, right TTL, stale boards heal once writes stop, and the refinement of `Leaderboard` |
| `board_pair` (violation) | two rebuilders | finding 1 |
| `board_orphan` (violation) | one rebuilder that may die | finding 2 |
| `lock` | two clients, four commands on the wire | exclusion, the refinement of `Lease`, release by the owner only, calls return |
| `lock_false` (violation) | the same | finding 3 |
| `rabbitmq` | both starters, five faults, two repeated `onConnect` calls on a channel | health, no orphans, consumers on every channel and not one set-up too many, no reconnect after close, an attempt always under way or due, reconnects |
| `rabbitmq_channel` (violation) | one fault | finding 4 |
| `rabbitmq_halt` (violation) | one fault | finding 5 |
| `service` | the starter's five disposables, two requests, three signals or errors, a deadline of 10 and a flush limit of 3 | traffic only when ready, requests before resources, each resource once and in order, exit 0, the flush in time, the end, and the refinement of `Shutdown` |
| `redis_connection` | both starters, three faults, two keys, two callers, a window of two | no leak after close, one interval each, no race, a dial always under way or due, comes back; no key without a TTL but by a cut-off SET, complete listings, windows end |
| `http` | both starters, two requests | ids are not mixed up, operations run once, probes are true and answered |
| `mongo_service` | two requests and two calls, two signals | databases outlive requests, exit 0 is complete, the process ends |

Bounds. Two members in chunks of one give a rebuild with a middle, where
another command or a death can fall; two writers let one member's join be
overtaken by its increment; the increment may be skipped, dropped, counted twice
or overtake a join, and joins and leaves go on for ever, so a board's TTL can be
refreshed for ever (two increments pass as well, with 1.3 million states in
place of 228 216). On a lock's wire, four commands hold what an abandoned acquire (two
SETs) leaves plus a whole second call. Two lock clients are a holder and a
stranger. Five faults let a reconnect fail at each of its awaits with a drop or
channel error before and after, and two repeated calls on a channel tell "once
more" from "as often as remembered". The
five disposables are the ones `main.ts` registers. With two requests one can end
while another runs, and three signals or errors are a first, one during the
drain and one during the teardown. A deadline of 10 leaves room for slow
disposables, for a flush that is cut off after 3, and for the case where both do
not fit; what matters is the order of these times, and `TimeBoxed` is proved for
any. Two keys give a SCAN a middle, and two callers let a flush meet a set. Two
HTTP requests are one and the other, which is what confusing ids takes. Two runs
of the Mongo starter's `shutdown()` can be at any two of its eight steps. A bound only ever
stops a fault, an increment or a call from starting, never a step of the code that is under way. `CHECK_DEADLOCK FALSE` stands where
the system really may stop: a board nobody writes any more, a client that is
closed, a process that has exited.

Fairness. Only what must happen in the code is fair. `Service`: time, the kill
timer and the disposals that are due (a timer cleared, a flush whose limit has
passed); requests, the drain and every other cleanup may hang, and a boot need
never end. `MongoService`: nothing there has a deadline, so its end needs that
every request and call ends and every close and flush settles; that is an
assumption about the outside, and the run shows that several teardowns at once
do not wait for each other. `Http`: hooks go on and the probes' timers fire; a
pool may never answer, and a traced operation may never settle. `Cache`: the
connection's fairness, and time in Redis. `RedisLock`: the timers alone
(`COMMAND_TIMEOUT` and the retry's pause); Redis may never answer. `RabbitMQ`
and `RedisConnection`: timers fire, and a request on a connection is answered,
refused or cut (heartbeat, connection timeout), with refusals bounded by
`MaxFaults`, since nothing comes back while everything fails for ever. `Board`:
a rebuild that was called runs on, a writer sends its command or drops it,
readers keep asking for a missing board; a rebuild over a board that exists is
possible and not fair. Redis expires a board that is left alone (`LeftAlone`: no
write and no rebuild under way) and need not expire any other, since every
guarded write puts the expiry off (`redis-client.ts` 477-479). So
`StaleBoardHeals` is about writes that stop; without that condition TLC refutes
it.

## 4. Findings

Each is a run that TLC ends with a counterexample to something the source says.

1. `board_pair`: all rebuilds of a board build in one temp key
   (`redis-client.ts` 547), so two rebuilds at once can swap in a partial
   board. While no two rebuilds overlap the claim holds, and is proved.
2. `board_orphan`: ZADD and EXPIRE of the temp key are two commands (558, 561).
   A death between them on the first chunk leaves the key without a TTL. The
   next rebuild deletes it, so it lasts until then.
3. `lock_false`: the first SET NX takes the lock and its answer comes too late;
   the retry's SET NX runs, is answered with nil because the key holds the
   caller's own value, and `acquireLock` returns false to the lock's owner
   (410-414). Nobody then releases the lock before its TTL. The property is about
   an answered retry; two attempts that both time out end in the same false
   (415-417), and nothing tells the caller which it was.
4. `rabbitmq_channel`: a channel that the broker closes alone is only forgotten
   (`rabbitmq.ts` 146-149); no reconnect follows.
5. `rabbitmq_halt`: `close()` during a reconnect returns at once, and the
   `connect()` in flight sets consumers up on a new channel while Redis and the
   database are being closed.

Noted while modelling, without a run of their own:

* An increment that is dropped (`redis-client.ts` 471 and 488) on a board that
  others keep writing is never restored: "the next rebuild restores the score"
  (489), but "active boards never expire" (477), so no rebuild need come.
  `types.ts` 49-50 calls skipping safe because "the next read rebuilds the whole
  board", which is true of a missing board only. `StaleBoardHeals` promises the
  repair once writes stop.
* `onConnect` guards against a second registration (`rabbitmq.ts` 212-218) and
  still fires the callback on the current channel (219-222), so a repeated call
  sets the consumer up twice on that channel; later channels get it once.
* With two runs of the Mongo starter's `shutdown()`, the exit of one may cut the
  metrics flush of the other; `ExitZeroIsComplete` asks for the flush of a lone
  run only.
* `index.ts` guards the import of `instrumentation.ts` and not that of `main.ts`
  (21), which reaches `@elysiajs/opentelemetry` and `@opentelemetry/api` by the
  static imports of `lib/tracing.ts` (1-2). A broken install of either ends the
  boot (`ImportMain`), though lines 8-9 say that telemetry being broken "must
  never block boot".
* `types.ts` 30-32 says that `zCountGreater` answers null for a missing key; it
  answers 0, ZCOUNT's answer.
* The Mongo starter's error middleware takes the id from the request's header,
  so a request whose id was generated is answered "unknown" (`Http`'s
  `MongoOnError`; `Correlated` is stated accordingly).
* The Mongo starter's readiness probe answers 200 whatever the verdict in its
  body, so an orchestrator that looks at the status never sees it fail.
* A set-up that fails half way leaves the Mongo starter's connection to
  RabbitMQ open, once for every attempt (`SetupFailsOpen`); its README (line 45)
  describes the client with "reconnect + leak guards".
* The Mongo starter's `closeRabbitMQClient` knows of no client at shutdown
  (`Closes`), so RabbitMQ is cut by the exit.

## 5. Proofs

TLAPS checks every theorem for every value of the constants that meets the
module's `ASSUME`s: any finite set of members, any number of writers, clients
or disposables, any number of faults and of repeated calls. The type invariants are proved;
only those of `RedisLock` and `RabbitMQ`, which relate a call to what it waits
for, are runs' properties as well.

* `Board_proofs`. `TypeInv` is `TypeOK` with `TodoKnown`: a rebuild sends only
  entries it was called with, without which ZADD's scores have no type.
  `TypeCorrect`, `SwapCreates`, `ScoresGrow` and `TTLKept` follow for any number
  of rebuilders. `SwapIsWhole` (`NeverPartial`) and `Implements` (the refinement
  of `Leaderboard`) have two hypotheses. `[]Alone`: no two rebuilds overlap,
  whoever they belong to and however many there are in turn; finding 1 shows that
  it is needed, and the run's one rebuilder satisfies it. `InTime`: no chunk is
  later than the temp key's TTL, or the board is one chunk (the code's chunks are
  of 500); on a slower link the temp key expires under its rebuild. Their
  invariant `BuiltSoFar` says that the temp key is exactly the entries carried so
  far. The refinement adds `Reading` (a rebuild has read standings exactly while
  it is under way): commands on the temp key are stutters, a rebuild takes effect
  in `Swap` or fails, and a late or dropped command is one member's change or none.
* `RedisLock_proofs`. The invariant adds to `TypeOK`: `NothingBehind` (an answer
  in hand means nothing of that client is still on the wire), `LastIsSet` (a
  call that waits for its SET sent it last) and `TrustIsTrue` (who was told, or
  is about to be told, that it has the lock is Redis's owner). `Exclusive` and
  `Refines`, the refinement of `Lease`, assume `LeaseCoversUse`; `OwnerReleases`
  assumes nothing.
* `RabbitMQ_proofs`. `LinksInv` ties the module's state to the broker's side:
  only the client's own connection has listeners and is open (`OnlyOwnIsHeard`),
  the channel belongs to the connection, `connect()` owns a connection nobody
  listens to, and nothing else is open. `Fed` counts set-ups per channel: the
  callback is remembered once at most, a connection in the making is fed nothing,
  and only calls repeated on a channel add to its one set-up.
  Together they are inductive; none is alone, because the close handler clears
  the state without looking at which connection it belonged to. `ReconnectIsDue`
  is part of the invariant (`DueNext`): every path that loses the connection arms
  the timer or fails inside an attempt that does. `AlwaysDue` states it.
* `Shutdown_proofs`. `OneCall`: one run of `shutdown()` passes the guard and has
  disposed exactly the resources before the one it awaits. `Untouched` and
  `ZeroIsTheEnd` cover the states before and after.
* `Service_proofs`. The refinement first: every step of the boot is a stutter of
  `Shutdown` (it changes only what the mapping hides), every later one is a step
  of it. By it `ServiceRequestsFirst` and `ServiceZeroIsGraceful` come from
  `Shutdown_proofs`' invariant, with `BootInv` (a boot does not accept, and ends
  with 1) where the mapping hides the boot; `ServiceOnceInOrder`
  comes from `Shutdown_proofs`' theorem itself. `ReadyFirst` rests on `EnvInv` (past
  the import the environment is checked, or `main.ts` cannot be loaded) and
  `StageInv` (earlier stages are connected; a promise of this one is ready or
  awaited). `TimeBoxed` rests on `FlushInv`: from the telemetry's turn on, no more
  than the flush limit has passed.
* `MongoService_proofs`. `IInv` has three parts beside the properties: `Staged`
  (how far the boot is says what is open), `Drains` (how far a run is says what
  is closed and drained; another run only finds more closed) and `Flushes` (the
  run that flushes is past the tracer, and a lone run has flushed or failed).
* `Cache_proofs`. First the connection. `Closed`: `close()` is called on a client
  that was handed out, and nothing opens its connection again. `Pair` and
  `Running` tie the intervals to each other and to the connection. `Due`: a client
  is handed out with its connection up, so whenever it is down later a dial is
  under way or the timer armed. `CacheIsAClient` is the refinement of
  `RedisConnection` by the cache on it, and carries the four invariants there
  (`ConnectionOfCache`). Then the commands, by `CallsOK`: a listing's stable keys
  are among those it has found or has still to pass, and only a set between its
  commands holds a key.
* `Http_proofs`, for any number of concurrent requests. A step changes one
  request's slot (`Step`), so the invariant is `SlotOK` of every slot: `Contexts`
  (the context is the request's own from `derive` on, and no line is a closing
  one before the end), `Answered` (there is one then), `Ran` (an operation has
  not run before its span and has run once after it), `Routed` and `Verdicts` (a
  ping that reads as up was answered, a verdict is the pings'). The ids of
  different requests are different (`Ids`); nothing else relates two slots, and
  `Slot` says that none ever holds another's id. `OnlyForward` is an action
  property: a step of a request brings it nearer to its answer (`Nearer`, a later
  phase or a ping settled), and leaves every other as it is.

TLC alone checks liveness (`StaleBoardHeals`, `CallsReturn`, `Reconnects`,
`ShutdownEnds` of both processes, `ComesBack`, `WindowEnds`, `ProbesAnswer`):
TLAPS proves none under fairness here. What two of the arguments rest on is
proved: that a reconnect is always due (`AlwaysDue`, twice) and that no request
goes back (`OnlyForward`). No proof uses ENABLED, induction over data or a
recursive operator.

## 6. Not modelled

* S3, OpenAPI documents, schemas: one call outward, or data.
* Formatting and transports of the logger, the instruments of the Mongo
  starter's `metrics.ts`, `printEnvConfig`: output.
* Pagination, `Result` and dates: one-line functions without state, where a unit
  test says as much as a model would.
* PostgreSQL pooling, the migrator's SQL, Mongoose's own reconnect, the gRPC
  transport: the drivers' code. The processes' models have what `main.ts` awaits
  of them.
* The getters of `redis-manager.ts` check a variable and await; each is called
  once, before the server and the signal handlers exist, so that two calls never
  meet. What they create is `RedisConnection`, when they run is `Service`.
* The Mongo starter's `acquireLock` rejects when both its tries fail where the
  clean one returns false; the rest of its lock is `RedisLock`.
* Read commands (`get`, `mget`, `exists`, `ttl`, `zScore`, `zCountGreater`): they
  change nothing, and a reader's view is what the board's and the cache's
  invariants speak of.
* The gRPC handlers and the feature code a user of the starters adds.
