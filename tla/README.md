# Verification of go-project-starter-runtime

TLA+ specifications of the concurrent and stateful parts of this runtime
library, checked with TLC, and their safety properties proved with TLAPS. Paths
are relative to the repository (`src/` here); `PROJECT.json` names, for every
operator and action that models code, the lines it models.

## 1. The system

| part | state | operations | hard about it |
|---|---|---|---|
| queue storage: `pkg/queue/storage.go` (interface), `memory.go` | map of tasks with `taken`, `takenAt`, `attempts`, start times; `nextID`; one mutex | `PutTask`, `GetTask`, `DoneTask`, `RetryTask`, `GetStat`, `Close`; the reaper goroutine | clocks read before the lock; visibility timeout against late handlers; the reaper's tick is old |
| queue worker: `worker.go`, `job_processor.go` | the context, `assignCh` of each processor, `stopped`, `queueIdx` | `Run`, scheduler goroutine, processor goroutines, `GracefulStop`, `Shutdown` | two selects with random choice, closed channels that still buffer, join, who waits for whom |
| App: `pkg/app/app.go`, `closer.go` | lists of drivers, transports, workers; init flags; `ready`; errgroup | `Set*`, `Init*`, `Run`, `gracefulStop` | order of calls, components that fail or hang, two 30 s timeouts, stop order |
| REST server: `pkg/app/rest/server.go`, `closer.go`, `config.go` | `httpSrv`, four atomic timeouts, `mu`, `errGr`, `shuttingDown` | `Init`, `Run`, `updateTimeouts` (callback), `restartServer`, `ShutdownHTTP` | replacing a server that is starting, serving or stopping; torn reads of the atomics |
| middleware: `pkg/app/rest/mw` | per request: the context, `responseWriter` | the chain of `GetMiddlewares` | panics that unwind through it, what is sent against what is measured, order of checks |
| request context: `pkg/reqctx` | values in a context; map of cumulative metrics with a mutex | setters, `IncMetric`, `TimeMetric`, `FlushMetric` | a flush without the mutex, goroutines that outlive their handler |
| interfaces: `pkg/ds/app.go` | none | `Runnable`, `RunnableService` | what the App expects of a component |
| logger, metrics collectors, health state, authorisation stub, REST client | configuration set once | formatting, registration | nothing a model checker would show |

How they interact: `main` registers drivers, transports (REST servers) and
workers (queue workers) with an App, which initialises them, calls `Run` on
each with one errgroup, and waits for its context: a signal, or the first
error of any goroutine of the group, cancels it. Then it stops transports,
workers and drivers in turn (`GracefulStop`, after 30 s `Shutdown`) and waits
for the group. A queue worker calls a storage and a handler; the handler calls
the storage back. A REST server is called by its configuration provider
whenever timeouts change, by the App to stop, and by net/http for each request.

What makes each part correct:

- storage: a task is lost only by `DoneTask`; it is handed out only when it is
  due and free; a lease lasts until the visibility timeout; what returns it
  counts an attempt, so that old copies can be told from new ones.
- worker: queues are served; a stop ends every goroutine, releases every
  caller, begins (almost) no new work and interrupts none.
- App: what runs was initialised; ready means serving, and that the worker is
  at work; drivers outlive their users; any cancellation ends in a stopped
  App, unless a handler never returns.
- REST server: the configured timeouts are in force; restarts lose no
  request, do not end the service, and never outlive a shutdown; the deadline
  of a handler is not past the write timeout of its server, unless that server
  is being replaced or stopped.
- middleware: a request that is served was admitted, gets the answer its
  handler gave, is measured with it, and leaves nothing behind, whatever
  panics behind the first middleware.
- cumulative metrics: every call counts once, and what the flush hands on is a
  sum the request had while it flushed.

## 2. Modules

| module | models | state and actions |
|---|---|---|
| `TaskQueue` | the promises of `queue.Storage`, without a clock or a reaper | `live`: id -> queue, status (`delayed`, `ready`, `taken`), attempts; one action per method, plus `VisibilityExpires` and `BecomeDue` |
| `MemoryStorage` | `memory.go`, the reaper goroutine and the consumers | one action per critical section; `GetTask` is `BeginGetTask` (the clock, line 101) and `FinishGetTask` (under the lock), the reaper `ReaperTick` and `ReapExpired`; `held` are the batches handlers have not settled |
| `QueueWorker` | `worker.go`, `job_processor.go` | `sched` and `proc` say where the goroutines are, `assignCh` the one-place channels; `GetTask` and handlers are left open |
| `QueueSystem` | `QueueWorker` composed with an instance of `TaskQueue` and handlers that settle their batches | the worker's actions, joined with the storage's where the code calls it |
| `AppWorker` | an App one of whose components is a `QueueWorker`: `QueueWorker`, extended, and an instance of `AppLifecycle` | the calls of the App on this component are the worker's own actions (`GracefulStop`, `Shutdown`, which it waits for), `Drain` and `Exit` of the component are what its goroutines do; the driver stays open |
| `AppLifecycle` | `app.go`, `closer.go` | `pc` and `at` follow `Run`; the components are the environment: they fail, exit, drain or hang |
| `RestServer` | `rest/server.go`, `rest/closer.go`, and what they use of `net/http` | a goroutine per restart and per server, the callback step by step over the atomics, `mu`, stoppers |
| `CumulativeMetric` | `reqctx/cumulative_metric.go` and its callers in `reqctx/context.go` | `metrics` and `mutex` per kind; `IncMetric` and `TimeMetric` in steps (`LockMetric`, `InsertMetric`, `AddMetric`), the flush name by name |
| `RequestChain` | `rest/mw`, with `CumulativeMetric` | `at` and `way` move in and out along the chain, or unwind it, from any function that calls code of the application; goroutines of the handler run beside it, and may outlive it and the request |
| `MemoryStorageProofs`, `MemoryStorageRefinement`, `QueueWorkerProofs`, `QueueSystemProofs`, `AppLifecycleProofs`, `AppWorkerProofs`, `RestServerProofs`, `RequestChainProofs` | theorems about the module each is named after (`RequestChainProofs`: `CumulativeMetric` too) | see section 5 |

`MC*` modules hold the values TLC uses. Operators that begin with "Mutant:" in
their comment are not part of any specification: each is a definition with a
plausible mistake, and TLC finds the property it belongs to violated when the
definition is replaced by it.

`QueueSystem` uses the abstract `TaskQueue` and not `MemoryStorage`: that the
latter implements the former is checked and proved, and any other
implementation of `queue.Storage` that does may take its place. Its worker is
stopped through its context, which is all its goroutines see; who calls
`GracefulStop` and `Shutdown`, and waits, is the subject of `AppWorker`.

## 3. Runs

Passing runs:

| run | shows | bounds |
|---|---|---|
| `storage` | a copy of a task with the current `Attempts` is the lease itself; two copies differ in `Attempts`; the reaper never ends a lease early; a task nobody settles comes back; all this implements `TaskQueue` | 2 consumers, 2 tasks in 1 queue with or without delay and start time, batches of 2, clock 0..2, timeout 1, 2 attempts |
| `app_worker` | `stopped` closes only when every processor has returned; at most one batch per processor after its channel closed; an App that says it is ready has a whole worker; drivers are told to stop only after the last handler, also at the hard limit; nothing but a handler that never returns holds up the worker's stop, its callers or the App | 1 driver, 1 worker, 2 processors, 2 queues |
| `system` | a taken task is in some handler's hands; a stopped worker leaves none; no task is forgotten by the worker | 2 processors, 1 queue, 2 tasks, batches of 2, 2 attempts |
| `app` | the promises of the App listed above, and that the service gets all drivers, initialised; a cancelled App stops, whatever hangs | 1 driver, 1 transport, 1 worker, any order of calls |
| `rest` | timeouts in force, no handler whose deadline is past its server's write timeout unless that server goes away, no server after the stop, no request lost by a clean stop, the mutex; stopping completes | 2 changes, which callbacks read or fail to read, 2 configurations, one without a write timeout, handler timeouts 0 (none) and 2, 2 stoppers; the first change comes when the first server serves |
| `chain` | contexts released and panics answered once the first middleware has called the next, checks not passed by, measured status and sent status agree; the cumulative metrics lose no call and count none twice, whatever goroutines add during the flush | all statuses of interest, a panic at every place, the first middleware included; 2 goroutines, 2 names, 3 calls, increments of 2 and -1 |

Why the bounds are enough: the storage properties relate two holders of one
task and the reaper, and need one delivery, one return and one more delivery,
which two attempts and a timeout shorter than the clock give; that tasks of
other queues are left alone, and all other values of the constants, rest on
the proofs, as they do for the safety properties of the other modules. The
worker's properties need a processor that is ahead of the
scheduler's loops and one that is behind, and two queues so that an assignment
can be the wrong one. That handlers meet over a task whose timeout has passed
takes two processors and two attempts, and that one settles its batch in part,
two tasks. The App's stop order needs a
component of each kind. A restart that meets another one, or a shutdown, needs
two changes. One request is enough for the chain, since requests share
nothing but the metrics their own goroutines add to; to lose an update there
takes two of those, a sum below zero one call, and a sum that changes during
the flush two. A handler that asks for more than its server allows takes two
configurations that differ in the write timeout, and one change between them;
0 means something else than other numbers, in both timeouts.

Runs where the code does not do what a comment or test says (section 6 has the
scenarios):

| run | property that fails | bounds |
|---|---|---|
| `storage_late_retry` | `LeasesExclusive` | 2 consumers, 1 task, clock 0..4, timeout 2 |
| `worker_starvation` | `QueuesServed` | 1 processor, 2 queues |
| `app_context` | `ComponentsGetLiveContext` | one component of each kind |
| `rest_early_change` | `TimeoutsInForce`, for changes that come at any time | 1 change, 1 stopper |
| `rest_two_listeners` | `RestartsKeepServing`, likewise | 1 change, 1 stopper |
| `chain_informational` | `MeasuredStatusIsSent`, for handlers that send a 1xx first | 2 statuses and 103 |

`LeasesExclusive` is proved for handlers that retry in time (section 5), and
`TimeoutsInForce` and `MeasuredStatusIsSent` hold in the passing runs, without
early changes and 1xx statuses: the failing runs show which assumption each
depends on. With one queue every turn is its own, and `TasksServed` holds.

Deadlock checking is off where the modelled part may come to its end: a worker
that has stopped, an App that has returned, a server that is shut down, a
request that is served. The storage, whose consumers can always ask again, is
checked for deadlock.

## 4. Fairness

- `MemoryStorage`: the clock and the reaper go on. Consumers, handlers and
  `Close` need not.
- `QueueWorker`: goroutines run and the ticker ticks (weak fairness). A
  `select` with several ready cases chooses among them at random, so the
  cancellation, which stays ready, is chosen in the end although the other
  case takes the goroutine away in between: strong fairness for
  `SchedCancelled` and `Exit`. `HandlersReturn` is the assumption on handlers
  in `worker_starvation`, whose counterexample needs none that hangs.
- `AppWorker`: the worker and the App go on as in their modules, time passes
  and the driver's goroutine returns once told; no handler has to return, and
  `OnlyHandlersHoldUp` says what follows from that.
- `QueueSystem`: besides, handlers settle what they hold, and the iteration
  over the map in `GetTask`, whose order Go randomises, does not pass the same
  ready task by for ever.
- `AppLifecycle`: Run goes on, and the 30 s pass while it waits for a component
  (the model lets them pass nowhere else); `Shutdown` of a component returns and its goroutines do, once cancelled. Neither a signal nor the
  channel of a `GracefulStop` need come.
- `RestServer`: goroutines run; a mutex that becomes free again and again is
  obtained (Go's mutex hands over to a waiter starved for 1 ms): strong
  fairness for the steps that lock. Requests need not end.

## 5. Proofs

Every invariant and safety action property of the passing runs, and the
refinement of the storage, is a theorem for all values of the constants that
the modules' named assumptions admit; `theorems` in `PROJECT.json` lists them.
Each module has one inductive invariant, a conjunction of named parts, with
one lemma or one step per action of the specification; the theorems follow
from it. Before an invariant was proved TLC checked it on the run.

**Storage.** `MemoryStorageProofs`:

- `TypeCorrect`: `Spec => []TypeOK`. Per action, the typing of the task map
  (`TasksType`) and of the handlers' batches (`HeldType`) is preserved; both
  include that no id at or above `nextID` is in use, without which a new task
  could revive an old handler's copy.
- `FencingByAttempts` and `OldCopiesAreOutdated`: `AttemptsOutdateCopies`
  makes `AttemptsTellCopiesApart` inductive: a task is handed out only when it
  is not taken, so no copy of it that is out can carry its current number of
  attempts.
- `ReaperHonoursLeases`: the action property, from the same invariant: if the
  copy is current, `takenAt` is the consumer's own, and the reaper compares
  against a tick that is not later than the clock (`TickPastInvariant`).
- `DisciplinedLeasesExclusive`: with handlers that retry in time, a lease that
  has not expired is the current one, and current ones are unique.

`MemoryStorageRefinement` proves `StorageImplementsTaskQueue`: initial states
map to initial states and every step to a step of `TaskQueue` or a stutter.
A tick of the clock maps to `BecomeDue` of the tasks whose start time it
reaches; `ReapExpired` to `VisibilityExpires` of the expired tasks.

**Worker.** `QueueWorkerProofs`, about `WorkerSpec`. That `stopped` waits for
the processors (`StopWaitsForProcessors`) needs to know how far the join has
come (`JoinedHaveExited`); that a closed channel gives one more batch at most
(`LateBatchesBounded`), that nothing is assigned after the close and that the
late batch emptied the channel (`ClosedWhenStopping`, `LateBatchIsLast`).
`StartTogether` and `StopsOnlyCancelled` say what a worker that nobody stopped
looks like; `AppWorkerProofs` uses them. `WorkerStep`, the inductive step, is
a lemma about a single step, so that the compositions can cite it for theirs.

**System.** `QueueSystemProofs`. `TakenTasksAreInHand` holds by itself only if
a batch is never written over: only a processor in its handler has one
(`BatchesInHandlers`). With the worker's invariant,
`StopLeavesNothingHalfDone` follows; a worker without queues closes `stopped`
at once but gets no tasks (`NoQueuesNoTasks`). Two refinements show that the
composition is one: `WorkerInSystemIsWorker` (`Spec => WorkerSpec`) and
`StorageInSystemIsTaskQueue` (`Spec => Store!Spec`), late answers of handlers
included.

**App.** `AppLifecycleProofs`. The properties speak of sets, the code of loops
over lists; the invariant says for each `pc` which components the loop has
called: those before `at` (`RanSoFar`, `ToldSoFar`), and that gracefulStop has
finished with those. `DriversAreStoppedLast` then rests on the order of
`StopOrder`: a driver stands behind every service (`DriversComeLast`), and
that a component is in one list only on `ComponentsAssumption`.
`RunStartsInitialised` and `ServiceHasAllDrivers` come from
`ListsInitialised`: once its flag is set, a list does not grow any more.

**App and worker.** `AppWorkerProofs` does not repeat either proof: a step of
the composition is one of `QueueWorker` or leaves that alone
(`WorkerInAppIsWorker`), and one of `AppLifecycle` or leaves that alone
(`AppAroundWorkerIsApp`), so both invariants hold; `App` is instantiated a
second time there as `AppP`, with its theorems. Left to prove is `Together`:
the worker runs when the App has called it, is stopped only after the App was,
and is drained or shut down only after `stopped` was closed. So a driver that
is told comes after a finished worker, whose processors have returned
(`DriversOutliveWorkers`), and a worker nobody stopped works
(`ReadyAppsWorkerWorks`). Both assume `QueueIDs # <<>>`: a worker without
queues closes `stopped` while its processors run (section 6). That
`Transports` is finite, as the lists of an App are, is needed for `SetToSeq`,
of which `ListOfTransports` proves that it lists them.

**REST server.** `RestServerProofs`, in four layers, each proved with those
before it. `BaseInv`: the mutex is held by exactly those between their `Lock`
and `Unlock`, and each restart comes from a callback that comes from a change
(`ChangesCounted`), so the numbers of the servers suffice. `ServeInv`: every
goroutine that listens does so for the server in the field or a closed one
(`OldAreClosed`), and once a stop holds the mutex no restart is under way
(`StopSilences`); from it follow `StoppedServersStaySilent` and
`CleanStopIsClean`. `FollowInv`: as long as a callback or a restart is still
to come the atomics and the server may lag, and when none is they do not
(`CallbackFollows`, `SettingsFollow`). It assumes `~EarlyChanges`, as the
passing run does, for without it the code is wrong (`rest_early_change`).
`DeadlineInv` adds to the property on handlers that the server in the field has
the write timeout of the atomic, or is about to be replaced (`WriteFollows`);
the middleware clamps to the atomic (`ClampedIsShort`). With these,
`TimeoutsFollowConfiguration` and `HandlersKeepWithinWriteTimeout` hold for any
configurations, with and without a write timeout, any handler timeouts and any
number of changes.

**Middleware and metrics.** `RequestChainProofs`, for the four chains of
`GetMiddlewares` at once: `ChainShape` and `Places` say where each middleware
is, and each outcome of a middleware is a lemma. `SumInv` is about the metrics
alone: a goroutine in `IncMetric` still knows what it looked up, because it
has the mutex (`CallsKnow`); what is in the map are the calls that returned
(`SumsReturned`); and what the flush has read of a name is one of the values
its sum has had since the flush began (`FlushSoFar`), although goroutines go
on adding. `CallsAreCountedOnce` follows. `WayInv` is about the request and its
panics: whatever is in the chain behind the first middleware runs after that
has called the next (`PassedInside`), so a panic there meets the recovery, and
the first middleware still gets to its `cancel()` (`LeasedInside`) and the
client to an answer (`OwedIsPaid`). `ContextsAreReleased` and `PanicsGet500`
are about those panics; for one in the first middleware itself neither is true
of the code (section 6), and `passed` says so in the properties. `StatusInv`
assumes `Informational = {}`, again the condition of the passing run
(`chain_informational` is the other case); with it
`FirstStatusIsAnswer` and `HistogramTellsTheTruth` hold.

Left to TLC: liveness (`TakenTasksComeBack`, `TasksServed`,
`OnlyHandlersHoldUp`, `CancelledAppStops`, `StopCompletes`), since fairness
and ENABLED are out of the prover's reach, and the properties of the failing
runs, which do not hold.

## 6. Where the code departs from its comments and tests

- `memory.go:159`. `RetryTask` does not check that the caller still holds the
  task: a retry after the visibility timeout frees a task another consumer has
  just taken, against `storage.go:12-13`. (ID, Attempts) identifies the
  delivery, as is proved, but `RetryInfo` carries no attempts.
- `closer.go:63`. All components share one 30 s context. In the run
  `GracefulStop` of a component fails, the 30 s pass during its `Shutdown`, and
  the next component is told to stop with an expired context, against
  `closer_test.go:127`. A component whose channel stays open until the hard
  limit leaves the ones after it no time either, and its own `Shutdown` always
  gets an expired context.
- `server.go:155`. A change of timeouts between `Init` and `Run` never reaches
  the server, against `server.go:35-38`.
- `server.go:183`. A restart right after `Run` replaces the field `httpSrv`
  before the goroutine of `Run` reads it: two goroutines listen on one port,
  one fails and the errgroup cancels the App. The model, without early
  changes, also has a rarer way to the same end: two changes so close that the
  second restart shuts down a server between `Listen` and `Serve`.
- `worker.go:145`. The turn of a queue that finds its processor's channel full
  is lost: with two queues and one processor that keeps step with the
  ticker a queue is never worked on, against the round-robin of
  `worker.go:47-48`.
- `metrics.go:41`. A 1xx status is recorded as the final one, and the final
  one is dropped, against `metrics.go:28`.

Observed while modelling, and not stated as properties because the text they
would have to be measured by is open to interpretation:

- `worker.go:120`. With an empty `queueIDs` the scheduler closes `stopped` at
  once, and `GracefulStop`'s channel closes while processors run.
- `job_processor.go:46`. After the cancellation a processor may still choose a
  buffered assignment and start a batch; at most one after its channel was
  closed, as `AtMostOneLateBatch` shows.
- `app.go:256`. `driverInit` means that `InitDrivers` was called, not that the
  drivers are initialised; it stays set when one of them fails.
- `server.go:144`. While a restart for a longer write timeout is under way,
  the middleware clamps handlers on the old server to the new timeout, which
  that server does not have. `HandlersWithinWriteTimeout` says that this
  happens only on a server that is about to be, is being or was shut down.
- `mw.go:72-108`. The first middleware calls code of the application outside
  `PanicRecovery`: the resolver of the handler timeout, the clone of the
  configuration (`context_test.go:84-90` expects that to panic), the transport
  path, the logger. A panic there closes the connection without an answer, and
  from line 98 on the clone and the timer are not released. No document says
  what should become of it.
- `server.go:97`. `Init` reads the configuration before it subscribes to its
  changes; a change in between is not announced.
- `server.go:130`. A callback that fails to read the configuration is not
  tried again; `TimeoutsInForce` excludes it.
- `worker.go:164`. `Shutdown` waits for the handlers whatever its context
  says: the hard limit of the App is none for a worker (`OnlyHandlersHoldUp`).
- `app.go:180`. `SetClient` is accepted after `InitService`, which has then
  passed the clients on.
- `cumulative_metric.go:55`. Nothing waits for the goroutines of a handler, and
  the flush iterates over the map without the mutex: one that inserts a name
  meanwhile is a data race. When the runtime notices it the process dies
  (`ProcessDies`); when it does not, no call is lost from the sum or counted
  twice (`EveryCallCounted`), but one that returns after its name was read is
  not handed on. A panic of the handler skips the flush, which loses its sums.
  A negative sum panics in the flush and takes the histograms and the
  measurement of the request with it.

## 7. Not modelled

Payloads, `createdAt` and `GetStat` of the storage (nothing depends on them);
metrics of the queue and logging; calls of a worker's `Shutdown` and
`GracefulStop` by others than the App, which could come before `Run`; panics
inside queue handlers (they end the process); overlapping callbacks of the
configuration provider, with which the comparison at `server.go:138` could
miss a change; a subscription that is refused; the header and idle timeouts,
which are treated like the read timeout; `SetClient`, `SetService`, `New` and
`InitMetrics` of the App, which set a field; the values a request context
carries besides the actor and the cumulative metrics, which are set once and
read; the response size, headers and logging of the chain; the context
`CreateHitInfoContext` makes, which is not cancelled when `HitInfo` panics
(`metrics.go:178`); panics of the event logger, which the recovery itself
calls; what a data race on the sums could do beyond `ProcessDies` and a missed
or visited new name: a read of a 64 bit float is taken to be whole; the end of
a request without a handler timeout, which has no deadline; and the components listed as not modelled in
`PROJECT.json`: construction and registration of Prometheus collectors,
adapters to two logging libraries, plain data. They keep no state that anything
in the repository depends on.

## 8. Plan

1. (done) storage, its refinement and its proofs; worker and system; App; REST
   server; middleware chain.
2. (done) App and queue worker composed; cumulative metrics and the goroutines
   of a handler; failing callbacks and the clamp of the handler timeout;
   `InitService`.
3. (done) Proofs of the invariants of every module, and that `QueueSystem` and
   `AppWorker` are compositions of their parts.
4. Safety halves of what only liveness runs show, for every number of
   components: that a stop which has begun never goes back (`pc` of the App,
   the worker's scheduler), that a told component is not told again, and that
   at the hard limit `Shutdown` is called once.
