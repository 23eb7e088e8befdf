# Formal models of Go-basics

This directory holds TLA+ models of the programs in this repository that keep
state across steps of several actors, TLC configurations that check them on
small instances, and proofs, checked by TLAPS, that hold for every size.

The repository is a Go course: 66 numbered lessons and a handful of larger
programs. A lesson that prints and ends has nothing to check; the others have
goroutines, a database, a network, a signal or a crash in them, and those are
modelled here. Paths below are relative to the repository's root.

## The system

| part | code | modules | status |
| --- | --- | --- | --- |
| fixed-window rate limiter | `system-design/fixed-window-counter` | `LimiterBreaker`, `RateLimiter`, `RateLimiterProofs`; its `run()` in `GracefulShutdown`, its `config.Load` in `Settings` | modelled; the demo client is left out |
| gateway, order and user services | `63_microservices` | `PlatformBreaker`, `OrderService`, `OrderServiceProofs`, `Gateway`, `Middleware` | modelled; chaos switches and getters are left out |
| live server dashboard | `server-dashboard` | `DashboardHub`, `DashboardHubProofs` | hub, clients, registry, simulator, page; REST reads left out |
| go-crud shop | `go-crud/internal/{order,product,user}` | `StockLedger`, `ShopOrders`, `ShopOrdersProofs` | modelled |
| migration runners | `go-crud/internal/database`, `37_...`, `47_capstone/internal/store` | `Migrations`, `ServersProofs` | modelled |
| graceful shutdown | `42_...`, `46_docker`, `47_capstone/cmd/api`, the limiter's and the gateway's mains | `GracefulShutdown`, `Gateway`, `ServersProofs` | modelled |
| capstone API | `47_capstone/internal/api` and `/store` | `TaskApi`, `ServersProofs`, `Middleware`, `Settings` | modelled; lists only read |
| middleware and interceptors | `39_...`, `47_...`, `62_grpc/interceptors.go`, `63_.../observability.go` | `Middleware`, `ServersProofs` | modelled |
| configuration | `41_...`, the capstone's and the limiter's `config.go` | `Settings`, `ServersProofs` | modelled |
| small stores | `43_testing_http`, `37_.../store.go`, `tiny-crud`, `bookmarks-api` | `CrudStore` | modelled |
| SQLite transactions | `36_...`, `38_...`, `61_sqlc` | `Transactions` | modelled |
| token service | `60_jwt_auth` | `TokenService`, `ProgramsProofs` | modelled; signatures are abstract |
| gRPC inventory | `62_grpc` | `Inventory`, `InventoryClient`, `ProgramsProofs` | modelled |
| task queue | `65_asynq` | `TaskQueue`, `ProgramsProofs` | modelled; asynq itself as the lesson uses it |
| worker pools | `48_...`, `31_.../demo3_worker_pool` | `WorkerPool`, `ProgramsProofs` | modelled |
| resilience tools | `64_resilience` | `Fanout`, `LessonsProofs` | modelled; `x/sync` as the lesson uses it |
| concurrency lessons | `22` to `25`, `45`, `49` to `58`, `66` | `ForkJoin`, `CondQueue`, `Contention`, `Channels`, `LessonsProofs` | partly: single-goroutine demonstrations left out |
| language lessons, generated code, notes | the rest | - | not modelled |

`PROJECT.json` maps every definition to the lines it translates and lists the
hazards, the runs, a mutant for each property, and the theorems.

### How the parts interact

Most programs are separate processes that share nothing. The ones that interact:

- *Microservices.* The gateway calls the order service, which calls the user
  service. `OrderService` composes the three for `CreateOrder` (the gateway as
  deadlines and hang-ups, the user service as a process that executes messages
  late, twice or never) over `PlatformBreaker`; `Gateway` has the dashboard's two
  RPCs at once and the draining of the servers behind it; `Middleware` has the
  chain of interceptors through which one click's id travels.
- *Rate limiter.* Several server processes, each with a `LimiterBreaker` of its
  own, share one table. `RateLimiter` composes them with the database.
- *Dashboard.* Registry, hub, pumps, simulator and main are one module, because
  every step of one is a rendezvous with another.
- *Shop.* Requests meet only in Postgres: `ShopOrders` has the rows, the locks and
  the statements, and implements `StockLedger`, where an order is one step.
- *Capstone.* The timeout middleware makes a request two processes on one
  `ResponseWriter`; `TaskApi` composes them with the store.

### What is hard, and what correct means

Hazards are listed one by one in `PROJECT.json` with the properties that would
catch them. In short, per part:

- *limiter*: a statement the service gave up on commits all the same; results come
  back to a breaker that has moved on. No window grants more than its limit, a
  burst over a boundary is at most twice that, only outages open the circuit, a
  half-open circuit has its probe on the way, everybody admitted is answered.
- *orders*: a key is looked up and written in two critical sections with a remote
  call between; a lost answer hides a reservation. Duplicates only come from calls
  that overlap, an answer is an order of its own key, confirmed orders are covered.
- *dashboard*: a client leaves in three ways and two close its channel. The hub
  never panics, no report is missed, gone tabs leave, the process exits.
- *shop*: rows are locked one by one in the order of the cart, while products are
  edited and users deleted. Rows read stay as read, references hold, and the tables
  move as if an order were one step.
- *migrations*: instances start together and crash between files. The recorded
  versions are the schema, and whoever serves has all of it.
- *shutdown*: signals, deadline, workers, pool. Steps happen in the documented
  order on every path to exit status 0, cutting nobody off, and a signal ends the process.
- *capstone*: PATCH rewrites a whole row it read earlier. No patch is lost.
- *tokens*: a refresh token is good once. A login never has two, and a login that
  has ended never comes back.
- *inventory, queue, pools, channels*: retries repeat and do not repeat the work,
  no task is lost, no channel is closed twice, everybody ends.

## The modules

A comment at the head of each module says what it models; this is how state and
actions correspond to the code.

### LimiterBreaker and RateLimiter

`LimiterBreaker` is `service/breaker.go`: a breaker is a record and every method,
atomic under its mutex, an operator (`Allows`/`AfterAllow`, `AfterSuccess`,
`AfterFailure`, `AfterRelease`). `RateLimiter` holds one per server.

A request moves through `pc` = new, calling, backoff, done. `Refuse`, `Admit` and
`FailFast` are the three ways into `Check`; `Receive` (the count arrives), `Fail`
(an SQL error arrives) and `GiveUp` (timeout, dropped connection or cancelled
context) end an attempt; `EndAttempt` is what `increment` does next, and `Settle`
is the switch of `Check`, with the breaker's method and the answer in the same
step because nothing shared is read between them. `Commit` is the database: it
executes a statement in `stmts`, whether or not somebody still waits for it. A
statement that was given up stays there and may commit at any later time, or
never. Its `now()` is anything between sending and commit. `RetryAfterHeader`
includes the `max(..., 1)` of the middleware. Left out: backoff durations (a timer
may fire any time), wording, `X-RateLimit-*` headers.

### PlatformBreaker and OrderService

`PlatformBreaker` is `internal/platform/resilience.go`, a module of its own because
the two breakers differ: this one keeps its failure count when it trips, only counts
a failure reported while open, and classifies errors in `Do` (`AfterDo`).
`CutByDeadline` and `CutByCancel` are the wrapped context errors `RetryPolicy.Do`
returns from a backoff, whose gRPC code is Unknown.

In `OrderService` a call moves through new, checked (the key was not in the map),
calling, backoff, decided (`persist` has not run), done. `ValidateCredit` messages
are in `rpcs`; the user service executes them in any order, late, or never.
`orders` is a sequence because ids are handed out in order; `idem` maps keys to
positions in it. Left out: validation at the edge, order lines (a call has a
total), calls without a key (the gateway always sends one), the getters.

### DashboardHub

One action per case of `hub.Run`'s select (`HubStops`, `Register`, `Unregister`,
`Deliver`), per step of `IngestStats` (`Ingest`, `Broadcast`), of `ServeWS`
(`Connect`, `QueueSnapshot`), of the pumps and of main. `register` and `unregister`
are unbuffered, so the sender's and the receiver's step are one. A panic is a state:
the hub's takes the process down, a handler's is recovered by net/http. `Show` is
what the page does with a message. Left out: the values of the stats, pings (a
deadline is a lost connection), the REST endpoints.

### StockLedger and ShopOrders

`StockLedger` is the abstract specification: `Place` puts an order into the tables
in one step, with its stock and at the prices of that moment; products, users and
orders change around it. `ShopOrders` is the code: `FindUser`, `SelectPrice`
(`SELECT ... FOR UPDATE`), `AdjustStock`, `InsertOrder`, `Commit`, the statements of
the back office, a crash, and Postgres' abort of one of two transactions that wait
for each other. The variables are the committed tables; what a transaction has
locked and written follows from how far it got, so the refinement mapping to
`StockLedger` is the identity on the tables and `LedgerKept` is its specification.
Cancelling or deleting an order leaves the stock where it is, as in the code.

### TaskApi

A request is an outer goroutine (`Accept`, `Expire`, `HandlerDone`, `TimedOut`) and
a handler goroutine (`Read`, `Write`, `Commit`, `Delete`, ...) that may outlive it. A
row carries the version of SQLite's snapshot; `Write` fails with SQLITE_BUSY when
the row moved since it was read. `last` is the history of who patched a field last.

### Migrations, GracefulShutdown, Gateway, Middleware, Settings

`Migrations` is three runners of one algorithm; `ifNotExists` tells go-crud and the
capstone, whose files create tables unconditionally or not, apart. Steps are
read-the-versions, apply one file with its row, serve; a crash is possible anywhere
and a new start follows. `GracefulShutdown` has `run()` of five programs as one
program counter, with requests, workers, signals and the deadline beside it. A request
of the capstone may be `overdue`: `Timeout` has answered, so that `Shutdown` does not
wait for it, and the handler's goroutine goes on and may still hold or take a database
connection (`Overdue`, `Query`, `QueryEnds`). Only the limiter's `pgxpool.Close` waits
for those; `database/sql` does not.
`Gateway` has one request per element of `Requests`, the outcomes its two RPCs can
have, and the health, lame duck, GracefulStop and Stop of the servers.
`Middleware` sends a call inwards and outwards through the layers of its system, on
up to two goroutines. In the programs with a `Timeout` an answer is three steps, set a
header (`StartWriting`), record the status (`Record`) and send it (`Send`), and those of
the two goroutines interleave: the status logged and the one sent can differ, and a
header map written while the other goroutine copies it may end the process. A handler
may panic with `http.ErrAbortHandler` ("abort"), which `Recover` panics again. `Settings`
groups the settings by how they can be wrong, and has an operator who corrects what a
refusal named. The capstone's checks that `-addr` and `-db` are not empty (`config.go:115`)
are not there: an empty environment variable means the default, and these two flags are
among those the model leaves out.

### CrudStore and Transactions

`CrudStore` has five stores as values of `impl`. Requests to the unguarded slice of
`bookmarks-api` read it in one step and write in another, because its handlers do;
the others are atomic under a mutex or a single statement. `Transactions` gives a
transaction a copy of the tables that replaces them at its commit, a second writer
is refused ("database is locked"), and any statement may fail.

### TokenService, Inventory, InventoryClient, TaskQueue

`TokenService`: one action per critical section (`UseRefreshToken`,
`NewRefreshToken`, `RevokeRefreshToken`, `RequireAuth`, ...), with other requests
between them. `Inventory`: products are pointers to records, because `GetProduct`
and `WatchStock` go on using one after the lock is released. `InventoryClient`: one
RPC of the nine demos with both flow-control windows, breaks of the connection,
deadlines, and grpc-go's retry policy, which repeats an RPC of which nothing has
been read. `TaskQueue`: asynq's states, a worker that is killed or drained, and the
handlers of the lesson; the library is modelled from how the lesson uses it.

### WorkerPool, ForkJoin, CondQueue, Contention, Fanout, Channels

The goroutine programs. A variable such as `how`, `policy`, `demo` or `lesson` says
which lesson runs; the actions are its atomic steps (a lock, a load, a send), and
sleeping and printing between them is left out, so every order is possible.
`Channels` writes a lesson as the sequence of channel operations of each goroutine
and interprets it under the rules of the Go runtime.

### The MC modules

`MCRateLimiter`, `MCOrderService`, `MCDashboardHub` and `MCShopOrders` give the
constants of one module values. `MCServers` and `MCPrograms` bundle the smaller
components: `program` picks one of nine, or ten, at the start of a behaviour, the
variables of the others stay idle, and a property of theirs is asked in the
behaviours that run it. The sizes of all of them are constants of the MC module, so
that the proofs about it hold for every size. Nothing is composed there, and no component sees another;
it is nineteen model checks in two runs.

## Runs

| run | instance | asks |
| --- | --- | --- |
| `limiter_retries` | 3 requests (one without key), 2 servers, limit 1, 2 attempts, fail-closed, threshold 1 | `TypeOK`, `GrantsWithinLimit`, `CountsAreAttempts`, `EveryRequestAnswered` |
| `limiter_breaker` | 4 requests, 1 server, limit 1, window 1.5 s in half-second ticks, fail-open, threshold 2 | `BoundaryBurst`, `RetryAfterNotEarly`, `OpenNeedsOutage`, `ProbeOnItsWay` |
| `order_calls` | 3 calls over 2 keys, of an active, a disabled and an unknown user, threshold 2 | `TypeOK`, `DuplicatesOverlap`, `AnswerIsOwnOrder`, `UnverifiedOrdersSmall` |
| `order_retries` | 2 calls of one user and one key, 2 attempts each, threshold 1 | `ConfirmedCovered`, `ProbeOnItsWay`, `EveryCallAnswered` |
| `dashboard_feed` | 1 tab, 2 reporters of 1 server, channels of size 1, 3 reports | `TypeOK`, `HubNeverPanics`, `NoReportMissed`, `GoneTabsLeave`, `ExitsUnlessJammed` |
| `shop` | 2 clients, 2 products, carts in both orders and one with a product twice, 2 prices, stock up to 2 | `ShopTypeOK`, `RowsHeld`, `RefsKept`, `LedgerKept` |
| `servers` | nine components, one at a time, below | `TypeOK`, `NoLostPatch`, `SchemaIsRecorded`, `ShutdownOrder`, `EdgeTellsTheTruth`, `StartedIsSound`, `StoreIsHistory`, `ServersAnswer` |
| `programs` | ten components, one at a time, below | `TypeOK`, `OneTokenPerLogin`, `RetriesRepeat`, `TasksDoneAndTried`, `OneResultPerJob`, `LessonsTellTheTruth`, `EndedForGood`, `EverybodyEnds` |
| `order_duplicate`, `order_charge`, `order_probe`, `dashboard_stale` | small | one disagreement each, below |

`servers` and `programs` ask each component its own properties:

| `program` | instance | properties |
| --- | --- | --- |
| api | 2 requests, 2 fields, one task | `NoLostPatch`, `EveryRequestReturns` |
| migrations | 2 instances, 3 files, 2 faults | `RecordedIsApplied`, `ServesMigrated`, `AllComeToServe` |
| shutdown | 2 requests, 1 worker, 2 signals | `ShutdownOrder`, `SignalEndsIt` |
| edge | 1 request, both services draining | `UserDecides`, `EveryGatewayAnswers` |
| settings | 6 starts | `StartedIsSound`, `RunsInTheEnd` |
| crud | 2 clients, 2 ids, 1 injected failure | `StoreIsHistory`, `OneShot` |
| shop | 2 clients, carts in opposite orders, 1 order | `EveryOrderAnswered` |
| chain | 2 calls | `PanicsStayInside`, `LogTellsTheAnswer`, `OneIdPerClick` |
| tables | 2 clients, 2 names, 2 tasks | `NothingHalfDone`, `ReadsAgree` |
| tokens | 1 account, 2 requests, 3 tokens, 1 tick | `OneTokenPerLogin`, `EndedForGood` |
| stock | 2 products, 2 streams, 1 key, 1 watcher | `RetriesRepeat`, `NeverOversold` |
| client | batches of 4, 3 events, window 1, 2 breaks | `AnswersAreWhole`, `RetriesAddNoWork`, `EveryCallEnds` |
| queue | 2 tasks, 1 retry, 1 stop of the worker | `DoneAndMoreOnlyAfterStops`, `DeadLettersAreTried`, `EveryTaskSettles` |
| pool | 2 workers, 3 jobs, buffer 1 | `ClosedForGood`, `OneResultPerJob`, `PoolEnds` |
| join | 2 writers, 1 reader, every guard | `JoinedIsCounted`, `EveryJoinReturns` |
| cond | 2 producers, 2 consumers, 2 rounds, capacity 1 | `FirstInFirstOut`, `QueueDrains` |
| lock | 3 workers, 3 attempts | `EveryWorkerGetsOut` |
| fan | 3 tasks, limit 2, 3 units | `PeakIsTrue`, `FirstErrorIsTheCause`, `NothingLeaks` |
| chan | six lessons as they are | `ReceivedInOrder`, `NobodyIsLeft` |

### Bounds, and why they are enough

Clocks stop at `MaxClock`, which leaves time for a cooldown to pass and a window to
end; requests and calls are one-shot, a client's repetition being another request
with the same key; reports are numbered up to `MaxReports`. Channels of capacity 1
make "full" happen with two messages; the code's 16 and 64 only make it happen
later. With three requests and limit 1 there are more requests than grants, and
with two attempts a late commit and its retry can both count. One tab is enough for
the hub's safety with TLC because no case of `hub.Run` reads one client's channel to
decide about another's; the proof of `HubSafe` covers any number.

In the shop two transactions and two rows are a deadlock, a stock of 2 lets one
order succeed before the next fails, and the proofs cover every size. The flow
control window of `InventoryClient` is one message instead of 64 kB: with the four
messages of the demos only a small window makes a sender wait. Faults are bounded
everywhere (`MaxFaults`, `MaxBreaks`, `MaxStops`, `MaxSignals`) because an operator
who crashes a program for ever keeps it from any liveness; two of them put a fault
into the recovery from another. Where numbers stand for kinds (a price, a setting,
an id), the kinds are what the code tells apart.

Bounds of another kind: in `MCServers` two calls overlap only in lesson 63, whose
services call one another; elsewhere calls share nothing but the counter of request
ids. In `CrudStore` nobody calls the unguarded store any more once two calls have
overlapped, because nothing is promised of it from then on.

Symmetry is used only in runs without liveness. Deadlock checking is off: the
systems stop when every request is answered, the script is over or the process has
exited.

### Fairness

Weak fairness of the steps of a goroutine that can go on: the Go scheduler is fair,
and each wait in a handler is bounded by a timer (`context.WithTimeout`,
`time.After`). Clients, networks, databases, signals and clocks are not fair: what
they do may happen, never must. Three exceptions:

- `Contention.SeeStop` and the shop's `SelectPrice` have strong fairness. The first
  is a `select` with a ticket and the stop both ready, which Go decides at random;
  the second is Postgres' lock queue, in which a waiter is not overtaken for ever.
- `Migrations.Step` includes a restart: whoever runs the service starts it again.
- `TaskQueue.Restart`, for the same reason.

Without the deadlock detector of Postgres the shop's `EveryOrderAnswered` fails, as
the mutant `DeadlockUnseen` shows; the same holds of a lone `Signal` in lesson 52
(`SignalOne`).

## Disagreements between the code and what it says

With a run that shows them:

1. `OneOrderPerKey` (`order_duplicate`): `orderservice/service.go` says a re-sent
   CreateOrder returns the same order. Two overlapping calls make two. What does
   hold is `DuplicatesOverlap`: a call that starts after the key's order exists
   never makes another.
2. `ChargedOnce` (`order_charge`): a retry "cannot double-charge". A lost answer of
   `ValidateCredit` followed by a retry reserves the amount twice.
3. `ClosesOnAnswer` (`order_probe`): the circuit closes when "probe succeeded". A
   probe that its caller cancelled closes it as well.
4. `ViewNeverBackwards` (`dashboard_stale`): `ServeWS` says it sends the snapshot
   and then registers the client. It registers first, so a stale snapshot can follow
   newer updates.

Without one; the models behave as the code does, and their properties are stated
so that they hold of it:

- `fixed-window-counter/internal/service/breaker.go:13`, "exactly one probe call
  through": a call admitted while the circuit was closed can come back during a probe
  and clear `probing`; a second probe follows. `config.go` lets a window of 1.5 s
  pass, for which `limiter.WindowStart` (used by tests only) differs from the SQL.
- `fixed-window-counter/cmd/api`: after a drain that takes too long `run` returns
  without `srv.Close`.
- `47_capstone/README.md:92` promises a 504; a handler that sees its expired context
  writes nothing and the client gets an empty 200 (`server.go:118`,
  `middleware.go:153`). In `TaskApi` that is the status "empty".
- `42_graceful_shutdown/main.go:76` and rule 7 (line 319): "the second signal is NOT
  caught". It is swallowed until `run()` returns.
- `46_docker/main.go:142`: a failed `ListenAndServe` ends in "stopped cleanly", exit 0.
- `65_asynq/main.go:244`: the error handler's alert is for tasks that have run out of
  retries; SkipRetry and tasks recovered from a dead worker are archived without.
- `41_config_and_env/main.go:131`, "flags beat everything": a malformed `APP_PORT`
  fails before the flags are read, and parse errors hide the checks' errors, so
  correcting a configuration takes up to four refusals (`RunsInTheEnd`).
- `36_database_sql/main.go:285`: the debit's row count is not looked at, so that a
  transfer from a book that is not there creates pages. `NothingHalfDone` takes that
  as what was asked.
- `61_sqlc`: the schema's foreign keys are not enforced (SQLite needs a pragma), so a
  task can name a user that is not there.
- `60_jwt_auth/main.go:401`: a logout that races a refresh of the same token revokes
  nothing; the chain goes on under the next token. `EndedForGood` is about logins
  whose chain has ended.
- `62_grpc/interceptors.go:22`, "Logging next -- so it observes the recovered error":
  a panic unwinds past the logging layer, which writes no line
  (`LogTellsTheAnswer`). The same holds of the interceptors of `63_microservices`.
- `62_grpc/main.go:116`, retries "only when it is safe (the request was never
  delivered ...)": a stream whose connection breaks before anything was read of it is
  started again, and messages the server has handled are handled once more; the
  idempotency keys live as long as one stream (`server.go:208`) and cannot help.
  `RetriesAddNoWork` says what does hold. `GetProduct` and `WatchStock` read a
  product after the lock is released.
- `47_capstone/cmd/api/main.go:151`, "in-flight requests are done, so nothing needs the
  database any more": `Timeout` (`middleware.go:153`) returns while the handler goes on,
  so a drain in time can end with statements under way, and exit status 0.
  `ShutdownOrder` excepts exactly those requests.
- `39_middleware/main.go:152`, "re-panic so the server handles it normally", and
  `47_capstone/internal/api/middleware.go:127`, "let it through": `Recover` runs on
  `Timeout`'s goroutine, where the server does not recover, so that
  `http.ErrAbortHandler` would end the process. No handler of the repository panics with
  it. `PanicsStayInside` excepts it.
- `39_middleware/main.go:111`, `47_capstone/internal/api/middleware.go:71`:
  `statusRecorder` is written by the handler and by `Timeout` without a lock. The log may
  have one status and the client the other, when the timeout races the handler's answer;
  and as lesson 39 logs the last status and not the one that was sent, also when a
  handler panics after its answer. `LogTellsTheAnswer` excepts these. Both goroutines set
  headers in one map, which the runtime may answer with a fatal error
  (`PanicsStayInside`).
- `37_.../store.go:197`, "complete drop-in replacement": the in-memory repository
  skips the checks of priorities and the filters by priority, limit and order.
- `tiny-crud/main.go:94`: `getUsers` never looks at `rows.Err`, so a list may be short;
  `StoreIsHistory` asks of it only that it makes nothing up.
- `go-crud/internal/order`: cancelling or deleting an order leaves its stock taken.
- `server-dashboard`: two reporters of one server may store in one order and broadcast
  in the other; nothing promises an order between them.
- `55_deadlock`: the receiver's print may be lost when main returns first.
- `63_microservices`: a replayed call answers OK for an order whose first call
  answered FailedPrecondition.

## Proofs

`tlapm` checks the proof modules to the last leaf. Each holds for all values of the
constants that satisfy the module's named assumptions; TLC evaluates those in the
run of the module. What a single component's module proves is about that component's
`Spec`; `ServersProofs`, `ProgramsProofs` and `LessonsProofs` prove what the runs
`servers` and `programs` ask, about the specification that bundles the smaller
components, except where a theorem says that it is about a component's own `Spec`.

`Sums` has what the sums of four modules need: `SumFunctionOnSet` is a fold over
elements in an unspecified order, and `SumRemove` shows that the order does not
matter. Induction over finite sets comes with an operator parameter in the library,
so the proof takes a smallest counterexample (`SmallestSubset`) among the subsets.
`SumInsert`, `SumUpdate`, `SumSubset` and `SumAtMostOneMore` follow.

`RateLimiterProofs`, from `LimiterAssumption` and `BreakerAssumption` (what
`config.validate` enforces, and finite sets of requests):

- `TypeCorrect`: `TypeOK`, by the inductive `TypeInv`, which adds that a request in
  backoff has attempts left and that requests in flight have a real key.
- `LimitHolds`: `GrantsWithinLimit`. By itself not inductive: a grant is made from a
  count that was returned earlier. `CountInv` adds that a count heard is at most the
  row's present count and that no two requests have heard the same count of one
  window of a key. The grants of a window then map one to one into `1 .. Limit`.
- `BurstBounded`: `BoundaryBurst`, from `LimitHolds` and the fact that a stretch of
  one window's length meets at most two windows.
- `ProbeNeverStuck`: `ProbeOnItsWay`, inductive with the types.
- `OutageOpens`: `OpenNeedsOutage`, by `OutageInv`: a breaker's failure count is at
  most the number of outages of its server.
- `AttemptsCounted`: `CountsAreAttempts`, by `AttemptInv`. Two sums are compared, over
  the windows of a key and over the requests that use it: an attempt raises the second
  and the statements under way, a commit moves one of these into the first, and a
  statement that was given up stays until it commits or never does.
- `RetryAfterHonest`: `RetryAfterNotEarly`, from the types alone by `HeaderCovers`,
  which bounds the two divisions by variables from both sides.

`OrderServiceProofs`, from `OrderAssumption` and the breaker's:

- `TypeCorrect`: by `TypeInv`, which adds that a call in backoff has attempts left and
  that a decided call has a status to persist. `EndAttemptTyped` is what a finished
  attempt does to its call, used by `Receive`, `LoseAttempt` and `CutBackoff`.
- `DuplicatesExplained`, `AnswersOwned`: by `KeyInv`, which adds that every order's
  key is in the map, that the map leads to orders of the same key, that a call has its
  order only when it is done, and that a call at work had looked before any order of
  its key was there. `KeyPersist` is the step that appends; `KeyKept` all others.
- `ProbeNeverStuck`: `ProbeOnItsWay`, inductive with the types: every end of `Do` frees
  the slot its call holds (`EndAttemptFrees`).
- `UnverifiedBounded`: `UnverifiedOrdersSmall`, by `CreditInv`: the user service approves
  or declines for active users only, and what is decided is vouched for, by its answer
  or by the cap (`EndAttemptVouched`).
- `ConfirmedIsCovered`: `ConfirmedCovered`, by `CoverInv`: besides the confirmed orders
  a user's reserved credit covers every approval that is on its way, heard or decided
  and not yet an order. A reservation adds to that sum and to `spent` together, an
  order takes its call's share over, and a lost approval leaves credit reserved for
  nothing, which is why the property is a bound and not an equation.

`DashboardHubProofs`:

- `HubSafe`: `HubNeverPanics`, by `HubInv`: while the hub runs no client it knows has a
  closed channel, and a tab it has not taken in yet is neither known nor closed, which
  is why `Register` cannot bring a closed channel back.
- `TypeCorrect`: `TypeOK`, from `DashboardAssumption`.
- `NothingMissed`: `NoReportMissed`, by `MissInv`, which says it of every client the
  running hub knows, whatever has become of its connection. What is underway to a tab
  moves from reporter to broadcast to send channel to page and never leaves that way
  (`MissKept`); only `Ingest` adds a report and only `Register` a client.

`ShopOrdersProofs`, from `ShopAssumption`:

- `TypeCorrect`, `RowsStayHeld`, `ReferencesHold`: `ShopTypeOK`, `RowsHeld` and
  `RefsKept`, conjuncts of `ShopInv`, which adds the shape of a request at each phase
  (how many prices it has read, whether its transaction is open) and what it relies
  on: its user holds, its rows are its own.
- `ImplementsLedger`: `Spec => Ledger!Spec`. `Init` maps to `Init`; of the steps only
  `Commit` and the back office change tables. `CommitPlaces` shows that a commit is
  `Place`: the prices read are those of now and the stock taken is still there,
  because `ShopInv` says that nobody else has held those rows.

`ServersProofs`, from `ServersAssumption`. `ServersBegin` and `ServersMove` say that a
behaviour of `ServersSpec` is one of the component it picked, so that each theorem
needs the induction of its own component only:

- `SchemaAlwaysRecorded`: `SchemaIsRecorded`, by `Passed`: nothing recorded is taken
  back, so a list of versions read earlier is still a list of recorded versions, and
  what a loop has passed is recorded.
- `ShutsDownInOrder`: `ShutdownOrder`, by `Phases` and `Finished`: what is closed at
  each place of `run()`, that only the way to an exit that is not clean cuts a request
  off, and that whoever holds a connection is in a handler, was cut off, or is a handler
  of the capstone that `Timeout` has answered for. The last are the statements that can
  be under way when the database closes before an exit with 0.
- `StartsSound`: `StartedIsSound`, by `Layered`: at each stage of `Load` the
  configuration is what the layers so far make of the defaults, and none of them held
  a value that does not parse.
- `EdgeAlwaysTells`: `EdgeTellsTheTruth`, of two components. In the gateway (`Decided`)
  the group's context is cancelled by nothing but the user's error, so the error that
  decides the page is never that cancellation. In the chains (`ChainInv`) `Placed` says
  on which goroutine and layer a call can be, `Told` what has been logged and answered
  there, `Raced` which two statuses can be recorded and sent while two goroutines write,
  `Doomed` that a process that has ended had an abort on `Timeout`'s goroutine or both
  goroutines at one header map, `Identified` that a forwarded call has its parent's id
  and any other the one that came in or one made for it alone. `HandlerKeeps`,
  `RecordKeeps`, ... are one lemma for each action of `Middleware`.
- `StoresAreHistory`: `StoreIsHistory`, of two components. In the CRUD stores
  (`CrudInv`) `Kept` says that ids differ within the list and that its records are, as
  last updated, the ids created and not deleted, each of them below the next id; `Fresh`
  says of `bookmarks-api`, which has no lock, that a handler that has been alone so far
  has read the list and the id of now. Both are needed together: if two records could
  have one id, `Delete`, which removes the first it finds, would leave the other. In the
  transactions (`TablInv`) `GoodTables` is the shape of a database, whoever has it,
  `TxSound` says for each phase of a transaction how much of the call's effect on the
  tables of now its copy has, down to the tasks still to be moved (`Begun`), and `Alone`
  that nobody else writes meanwhile, so that these are still the tables it started from. That the
  queries agree needs no invariant beyond the types: a sum over statuses is a sum of two
  numbers (`SumOfTwo`), and the tasks of a set have an order by priority and id
  (`OrderedList`): how many come no later than a task is its place, no two tasks share
  one, so each place is taken, and the list the query chooses is a list of all of them.
- `TypesHold`: `TypeOK`, from the invariants of the nine servers. For the shop it takes
  the invariant of `ShopOrdersProofs`: `ShopP` is an instance of that module, `ShopSound`
  is what it assumes, and `SameGuards`, `SameStatements` and `SameBackOffice` show,
  definition by definition, that `Shop` and `ShopP` take the same steps.
- `TypeCorrect`, `PatchesSurvive`, of the capstone's own `Spec`: `TaskTypeOK`, and
  `NoLostPatch` by `PatchInv`: a row of the version a transaction has seen is the row it
  has seen; one transaction at a time is about to commit, and that one has seen the row
  of now.

`ProgramsProofs`, from `ProgramsAssumption`, with `ProgramsBegin` and `ProgramsMove`:

- `OneEach`: `OneResultPerJob`, by `OnePlace` and `PoolClosing`. A job that was produced
  is in the jobs channel, in one worker's hands, in the results or with main, never in
  two of them, and lost only by a cancelled run; a worker that leaves an uncancelled
  run has seen the jobs closed and empty. With distinct results that cover `1 .. Jobs`
  the count follows from a bijection (`DistinctLength`).
- `TypeCorrect`, `OneAtATime`, `LogoutHolds`, of the token service's own `Spec`:
  `TokenTypeOK`, `OneTokenPerLogin` by `LoginInv` (a token comes after its login and
  before every token still to be made, so a new login is new to the map; every step
  takes tokens away, begins a login or replaces one token, `StepOfMap`), and the action
  property `EndedForGood` from the same split.
- `DoneAndTried`: `TasksDoneAndTried`, by `Explained` and `Tried`: a task is done as
  often as it completed or was held by a worker that stopped. While the worker drains
  the stop that is coming is already counted, and a task it holds has not used it.
- `RetriesAlwaysRepeat`: `RetriesRepeat`, of two components. In the server's streams
  (`StockInv`) what was sent for a key is what is remembered for it, nothing and
  nothing reserved, or one answer that is true of the reservation. In the client's call
  (`CliInv`) `Ordered` says that what was read, what is on its way and what is being
  sent are the answers from the first on; `Staged` relates where the handler is to what
  it received and sent; `Causes` gives each status its reason; and `Paid` is the bound
  on repeated work, which is not inductive as the property states it: a running attempt
  may cost what it has been served, a broken one is paid for by its break.

`LessonsProofs`, on top of `ProgramsProofs`, proves `LessonsTellTheTruth`
(`LessonsAlwaysTell`) from its four conjuncts:

- `JoinsCount`: `JoinedIsCounted`, by `JoinInv`. `Waited` ties the wait group's counter
  to the goroutines that have not called `Done`; `Locked` makes a worker between its
  read and its write the only one, so `Guarded` can count what was written; `Unguarded`
  bounds a racy counter by the writes made; `RunsOnce` is the `sync.Once`.
- `QueueKeepsOrder`: `FirstInFirstOut`, by `CondInv`: what was taken followed by what is
  queued holds, of each producer, the numbers from one to its rounds, in order. Two
  lives of one name would number twice, hence `Producers \cap Consumers = {}` in the
  assumption.
- `FansTellTheTruth`: `PeakIsTrue` by `Peaks` (those inside hold permits that add up to
  no more than there are, what runs is part of what is held, and a maximum that is not
  recorded yet is on its way in a compare-and-swap that will be retried) and
  `FirstErrorIsTheCause` by `CauseKept`.
- `ChannelsDeliver`: `ReceivedInOrder`, by `ChanInv`. `ChanTyped` holds whatever the
  script; `Told23` to `Told66` say for each line of main what it has heard by then, what
  is still in the buffers and where the other goroutines can be. Both are stretches of
  one sequence (`Stretch(s, a, b, f)`: s is what stands in f from a to b), so a send, a
  receive and a meeting each move one end. `SendDoes`, `ReceiveDoes` and the others say
  once what the runtime does for an operation. In lesson 23 the two drained channels
  need two counters, which `Told23(k, j)` takes as parameters. The scripts are finite;
  what the theorem adds to the run is that it does not depend on an enumeration.

- `TypesHold`: `TypeOK` of `MCPrograms`, by `AllTyped`. The parts that follow from no
  type alone come from the invariants above: a bounded queue from `Distinct` or from the
  permits, a semaphore's free slots from what is held, a watcher's record from
  `StockTypes`, that no lock has two holders from `LockTypes`.

Only model-checked, and why:

- Liveness under fairness, which is outside the prover's reach, as are ENABLED and
  induction over data.
- What the recursive functions and folds of the community modules compute for every
  input, where a proof would be an induction over data. `CrudStore` and `Transactions`
  are written so that their proofs need none: a record is found by its first index, and
  a list is ordered by a relation (`Before`) and chosen.

Every invariant and every safety property of a step that a passing run checks is also a
theorem, or a conjunct of one.

## Not modelled, and why

- *Language lessons* (`01` to `21`, `26` to `35`, `40`, `44`, `59`, most of `66`): they
  compute something and print it, one goroutine, no state that lasts.
- *Generated code* (`62_grpc/gen`, `63_microservices/gen`, sqlc's interfaces) and notes:
  no logic of the repository. The queries sqlc generated are in `Transactions`.
- *Scripts*: `cmd/demo` of the limiter and of the microservices, the benchmarks, the
  printing around the lessons. The models contain the calls they make.
- *Wiring*: `cmd/gateway`, `cmd/orderd`, `cmd/userd` beyond their life and death;
  metrics, which only count.
- *Reads* that change nothing: the dashboard's REST endpoints, go-crud's lists, the
  getters of the services. The reads of `CrudStore` and `Transactions` are modelled,
  because there the question is what they see.
- *Presentation*: the numbers the simulator draws, the rendering of the page, the
  wording of errors and logs. What a log line says is modelled where a property
  compares it with the answer.
- *Data races* as undefined behaviour: the racy counters (`ForkJoin`, how = "racy") and
  `bookmarks-api` lose updates in the models, which is what they do on the platforms Go
  supports for a word; a torn slice header is not modelled. `Middleware` has the two
  writers of one response as interleaved steps, and the header map's collision as an end
  of the process.

## What is left

An atomic `WindowLimiter` that `RateLimiter` refines, and one abstract breaker for the two.
