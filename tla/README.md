# A TLA+ verification of pypepper

pypepper is a Python micro-service toolkit. Its own core logic is the **job
scheduler** (`pypepper/scheduler`): jobs with a small state machine, a channel,
workers that run a job's workflows, and job stores that hold a snapshot of
every job. Around it are a generic FSM, server-sent events, a TTL cache and
glue for HTTP, logging, tracing, databases and configuration.

This project models the scheduler from `Job.scheduled()` to a terminal
snapshot: what the code does at every read and write of shared state, with
store errors, a bounded or stopped channel, requeues and cancels. Below it are
the stores (what a store promises, and how the in-memory store keeps it under a
lock and the SQL and MongoDB stores with several statements per put), the
channel (what a queue promises, and how two racing asyncio tasks keep it) and
the workflow engine with its timeouts. Beside it are the guard that keeps a
misconfigured job store from being used, the SSE connections with their
streams, broadcasts and replay, and the request limit in front of them.

    cd tla
    tlc -workers 2 -config coop.cfg MCScheduler     # one run
    tlapm SchedulerProofs.tla                       # one proof module

## Inventory

| component | state it keeps | operations | hard behaviour |
|---|---|---|---|
| lifecycle table (`events.py`, `status.py`) | none | `build_scheduler_fsm` | must agree with the store's fence |
| generic FSM (`fsm/fsm.py`) | current state, transition map | `on`, `restore`, handlers | lookup and assignment are not atomic; a raising handler rolls back |
| fence (`store/lifecycle.py`) | none | `put_may_write` | late and duplicated snapshots |
| job stores (`store/memory.py`, `sql.py`, `mongodb.py`) | one row per id: status, version | `put`, `get`, `delete`, `list`, `clear` | optimistic concurrency; SQL and MongoDB do a put in several steps |
| configuration (`common/config.py`, `store/__init__.py`, `tracing/setup.py`) | the YAML, the deferred flag, the current store, the tracer provider | `load_config`, `set_job_store`, `reset_job_store`, `configure_job_store`, `setup_from_config` | a durable store that is configured and not installed; a load that raises half way |
| Job, Dispatcher, Processor (`job.py`) | FSM, `version`, cancel Event, per instance | `scheduled`, `cancel`, `save`, `from_record` | rollback, save after send, version read-back |
| channel (`channel.py`) | queue, stop flag | `send`, `receive`, `request_stop` | capacity, drain after stop, a get that races a stop |
| worker (`worker.py`) | the job in hand, a kept redelivery error | `run_forever`, `run_once`, `_process` | persist failure at RUN, cancel at every point, requeue on a full or stopped channel |
| workflow, task, executor (`workflow.py`, `task.py`, `executor.py`) | attempts, in-flight futures, thread pool, registry | `run`, `_execute_once`, `register` | timeouts that race results, hung executors |
| SSE (`network/http/sse`) | connections, queues, replay ring | `connect`, `disconnect`, `broadcast`, stream | replaced connections, a ring that evicts, caps |
| rate limit and cache (`sse/security.py`, `common/cache.py`) | counters with a TTL | `check_rate_limit`, `set`, `get` | windows, eviction |
| the rest (event, context, retry, crypto, log, HTTP, db helpers) | little or none | wrappers and set-up | pure I/O or library calls |

Interactions. An owner's `scheduled()` moves the job's FSM through INIT and
SCHEDULE, puts the job on the channel its `channel_id` names, and then saves
it. A worker of that channel takes the job, saves it if its row is missing,
applies RUN, saves, runs the workflows in a thread, applies COMPLETE or FAIL
and saves. `cancel()` sets an Event the executors poll, applies CANCEL and
saves, at any moment and from anywhere. All of them share the job's FSM and
`version` without a lock, and the store, which locks each call.

Around the scheduler: `load_config` only arms a flag when the YAML names a
durable store, and `Job.save` asks the flag and the installed store before it
touches either. An SSE request passes `require_sse_api_key`, gets a connection
from the manager, and its stream drains the connection's queue while handlers,
broadcasts and other requests of the same id put into it or close it.

What makes the scheduler correct: a job that was accepted is never lost and its
workflows start once; it settles; a cancel wins and is not taken back; the row
ends up saying what the job says; only legal moves reach the store; a stop
drains and ends every worker. A channel loses nothing and forgets nobody who
waits. A task is not executed twice at once or more often than planned, and its
workflow ends. The caps bound what is open; a client that resumes misses
nothing and gets nothing twice; a stream that ends leaves nothing behind. A
limit holds in every window and refusals end. A write to the store never
overwrites one its author has not seen. A save never goes to memory unasked.

## Modules

| module | what it is |
|---|---|
| `Lifecycle` | statuses, transition table, fence and the effect of `put`: constant operators |
| `JobStore` | the abstract store, what `IJobStore` promises: rows that change by `Put`, `Delete`, `Clear` in one step |
| `StoreBackends` | `InMemoryJobStore`, `SqlJobStore` and `MongoJobStore`: clients that put under a lock or statement by statement, and deletes; `Store` is its instance of `JobStore` |
| `Scheduler` | owners, workers and cancellers on shared jobs, channel and store |
| `SchedulerInvariant` | the inductive invariants of `Scheduler` (`IInv`, `CoopInv` and `DurableInv` for one event loop, `TwinInv` for instances of one id, `SignalInv` for the cancel Event, `DrainInv` for the end of the workers), stated apart so that they can be checked and proved |
| `JobQueue` | the abstract channel: a bounded FIFO whose receives take effect at one point |
| `Channel` | `receive` as the race of a get task and a stop task on one event loop; `Queue` is its instance of `JobQueue` |
| `Workflow` | `Workflow.run`: rounds, attempts, timeouts, the pool, the in-flight table, the way through a payload |
| `SSE` | connection manager, streams and handler callbacks |
| `RateLimit` | `require_sse_api_key` and its counters in the TTL cache |
| `Configuration` | `load_config`, the job store functions, the guard, the tracer provider |
| `SchedulerProofs`, `StoreBackendsProofs`, `ChannelProofs`, `WorkflowProofs`, `SSEProofs`, `RateLimitProofs`, `ConfigurationProofs` | the theorems about each of these modules, with the inductive invariants they need |
| `MCScheduler`, `MCStoreBackends`, `MCWorkflow`, `MCSSE` | constants for TLC; `Channel`, `RateLimit` and `Configuration` get theirs from the cfg alone |

`Scheduler` uses the store through the one operator `put` of `Lifecycle`, which
is all that `JobStore` does (`StoreBackends` shows that no backend does
anything else to the rows), from `JobQueue` it takes the atomic dequeue
(`Channel` shows that receive is one), and from `Workflow` that run returns or
raises (`Ends` shows that it does).

### Scheduler: state and steps

`fsm[j]`, `version[j]`, `cancelEvent[j]` are the fields of a `Job` instance;
`rows` the store; `queue`, `stop` the channel; `act[a]` the place of an actor
and the local variables of the handler it is in; `faults` and `runs` count, one
as a bound, the other as history. `Job.status` is dropped: it is assigned
together with the FSM and no decision reads it. The payload, timestamps and log
lines of a job decide nothing and are left out.

An action is one read or one write of shared state with the decisions that
follow it. `save()` is therefore five steps (read the status, read the version,
put, get, assign the version), `apply_event` two (look the target up, assign
it), and each caller continues at the step named in `ret`. The table `Sites`
lists the calls of `apply_event` with what follows on success and on error.
`_force_failed_lifecycle` assigns Failed on each of its three paths and is one
step. `is_cancelled` is one read of the FSM.

A store call may raise (`StoreRaises`) at the points of `FaultPoints`. A `put`
that raises wrote nothing; a write whose acknowledgement is lost is the `get`
of the same save raising, which its caller cannot tell apart.

`Preemptive = FALSE` is the program whose calls do not interleave between two
awaits: another actor moves only when everybody else is at an await or outside
a call (`AwaitPoints`). `Channel.send` is a coroutine that never suspends, so
the only awaits are around `receive` and around the workflows' thread. Inside
the worker's loop `scheduled()` itself cannot be used: `Processor.run` raises,
and `Send` allows for that as one more refusal. What runs there is the sequence
its message names (INIT, SCHEDULE, `await Channel.send`, `save`), which is the
same steps without the rollback and the three attempts of `scheduled()`; outside
it, `scheduled()` runs where no loop does, before the workers start or in turn
with them. The model lets owners do all that `scheduled()` does at any of these
points, which is more than the legal uses do. "One event loop" below means this.
`Preemptive = TRUE` is the same code with `scheduled()` and `cancel()` called
from threads of their own, which `threading.Lock` and `Event` in the code, and
a blocking `scheduled()`, invite.

`cancel()` sets the Event, applies CANCEL and calls `save()` once; what that
raises goes to the caller (`CancelSaved`). The docstring leaves it to the caller
to save again: `SaveAgain` (external) may do so and has no fairness.

`Receive` is one dequeue, which is what `Channel` implements when nobody gives
a receive up; a worker never does. `Restart` is the supervisor the docs ask to run
`run_forever` again when it raises; it is external to the repository.

### StoreBackends: state and steps

`rows` is the dict, table or collection, `call[c]` the statement client `c` is
about to issue with its record, `backend` which store is used (chosen once).
`PutLocked` is a put of `InMemoryJobStore`, one step under its lock. `Update`
and `Retry` are the gated update of the databases, `Insert` the insert that the
primary key may reject, `Find` MongoDB's last look. A statement is atomic and
sees the last commit, as PostgreSQL does at READ COMMITTED and InnoDB does in
UPDATE and INSERT; a put writes only in its last statement, so the commit
belongs to it. A transaction the database aborts (a lock timeout, a deadlock)
wrote nothing and is left out. `seen[c]` is history: what an atomic put of the
same record would have met at each moment of the call, which is what an answer
is judged by. `won[id][v]` is history too: how many updates that carried version
`v` were written since the row was inserted. Columns other than status and
version decide nothing.

### Channel: state and steps

An action is one turn of the event loop. `task[t]` is the get task of a receive,
`getters` the line of tasks blocked inside `asyncio.Queue`, which is modelled
from what `get`, `put_nowait` and a cancellation do to it (external).
`CancelPending` and `Finish` are what receive does after `asyncio.wait`.
`GiveUp` is the cancellation of the caller: both tasks go on, and the get task
may take an item for nobody. The refinement mapping says when a receive takes
effect: when its get task has the item, or when it finds the stopped channel
empty. Senders that are refused change nothing here.

### Workflow: state and steps

`at[r]` is the place of a thread in `run`, `fut[r]` the futures it submitted,
`pool` the queue of the executor. Time is not modelled: a timeout may fire at
any moment of the wait, so every race between timeout, result, cancel and join
is there. `executes` and `results` are history. A task belongs to one runner;
`Construct` takes the tasks as built in the program, `Rehydrate` as they come
back from a payload, with the defaults that replace zeros. Retry delays and the
values tasks pass on are left out.

### SSE: state and steps

A stream and its connection object have one name. `enq[s]` is all that was put
into a queue, `taken[s]` how much left it; `recorded` all that went into the
ring, whose last `LogMax` are replayed. `ready` holds the sends `gather` has
scheduled: a send does not suspend once it runs, so a send is one action.
`Connect`, with its locked section and the replay, has no await and is one
action too. `disconnect` awaits `connection.disconnect`, which never suspends:
lookup, close and pop are one action. The finally clause of a stream is either
`Cleanup` or, for a handler in `Raising`, `OnDisconnectRaises`, after which
`disconnect` is not reached. A request without an address (`NoIp`) is not
counted per address. `gap` and `since` are history.

### RateLimit: state and steps

The steps of a request are the escape of disabled authentication, the key, the
one-shot warnings and, under the lock, the read and the write of the counter.
`cache` and `order` are the TTLCache (external): expired entries go first, and
then the least recently used key, where the read of a refused request is a use
too (`Touch`). `decided` and `admits` are history: when the counter was read and
when it was written for each admitted request.

### Configuration: state and steps

None of these globals has a lock but the one-shot warning, so an action is one
read or write of them. What a YAML says about the job store is one of six
kinds, by how the two places that read it understand it: the flag strips and
lowers the name, `setup_from_config` does not. `ack`, `disturbed` and `tangled`
are history: whether memory was asked for, and whether calls overlapped or a
load raised half way since a call last set things straight. `flush_raises` is
the provider's `force_flush` or `shutdown` raising in `tracing.shutdown`, which
keeps the provider and ends the load around it. `Job.save` appears
as the guard and the use of the store; the rest of it is in `Scheduler`.

## Runs

| run | what it asks | instance | states |
|---|---|---|---|
| `coop` | in one event loop: no job lost, rows agree with jobs, no ghost row, terminal is final, a cancel is durable unless two store calls raised, the last worker leaves nothing behind; jobs settle, cancels get persisted, workers leave after a stop | 2 jobs, 1 worker, 1 canceller, capacity 1, 2 workflows, 3 failing puts | 187 k |
| `preempt` | with threads: workflows start once, a cancelled job that runs is signalled | 1 job, resubmitted, 1 worker, 1 canceller, 1 failing put or get | 3.2 M |
| `twins` | two instances of one id, the second from the Scheduled row of the first, run once | 2 instances, 2 workers, 1 canceller, 1 failing put | 95 k |
| `stores` | the puts of the three stores implement `JobStore`; skips are justified, no update is lost, rows follow the FSM | 3 clients (symmetric), 1 id, versions 1..2; every status in memory, three in SQL, two in MongoDB | 670 k |
| `channel` | receive implements `JobQueue`; no wake-up is lost | 3 items, 2 consumers, capacity 2, each may give up once | 169 k |
| `workflow` | one execute of a task at a time, within its budget; nothing left in the pool; results are real; run ends | 2 runners, 4 tasks, a pool of 1, one executor that may hang | 144 k |
| `sse` | caps bound what is open; replay and live events join without gap or repetition, in order; ended streams are gone; closed ones stay quiet | 3 requests (two of one id; two of one address, one of none; one whose `on_disconnect` may raise), 2 broadcasts, queue 2, ring 2, caps 2 and 1 | 3.8 M |
| `ratelimit` | the limit holds in every window; refusals rest on a chain of admissions and end | 2 threads, 2 keys, a cache of 1 entry, limit 2, TTL 2, time up to 4 | 10.2 M |
| `configuration` | no silent memory, no false alarm, one tracer provider | 2 threads, six kinds of YAML, loads and shutdowns that raise | 1.7 M |
| `stale_version`, `lost_job` | see Findings; each violates one property | 1 job | - |
| `ratelimit_minute` | see Findings; violates `RefusedOverLimit` | 1 thread, limit 2, TTL 2 | - |

Bounds. `MaxFaults = 3` is what it takes to exhaust the dispatcher's three
attempts and what it takes to fail heal, Failed and the requeue's Failed of one
delivery. `MaxVersion` stops cancels of a job whose row was already written
often, and repeated saves of a cancelled one; in `preempt`, where it is 2, a
cancel begins before the worker's RUN snapshot and goes on at any later moment.
A capacity of 1 with two jobs makes the channel full at a requeue;
`RequestStop` makes it stopped. Two workflows per job give a cancel a boundary
between them.

`channel`: one consumer that gives up and one that does not, with an item more
than fits, make a woken task be cancelled, a wake-up be passed on and a ghost
take an item. `workflow`: the pool of one makes a hanging execute leave the
other workflow's futures queued until their timeouts. `sse`: three requests are
a connection, its replacement and one more at the cap; two named events, a
named greeting and an unnamed generated event overflow a queue and a ring of
two. `ratelimit`: `MaxTime` is two windows and `MaxAdmits` one more than the
limit. `configuration`: two providers are one and its replacement.

`stores` has one id because a put and a delete address one; three clients are
a loser, a winner and one that moves the row between their statements. The
statuses of a backend (`Statuses`) are all seven where a put is one step, so
that every pair of the fence table is met, and for the databases those that
their statements treat differently.

Deadlock checking is off in the runs of `Scheduler`, `Channel`, `Workflow`, `SSE`
and `RateLimit`: when all calls have returned and every request was made (or
the bounded time is over) the system has ended. `stores` and `configuration`
keep it on.

Fairness (`FairSpec`). A call that was made runs to its end: weak fairness of
an owner's and a canceller's steps. Nobody is obliged to call `scheduled()`,
`cancel()` or `request_stop()`, or to repeat a save that raised. A worker's
task gets its turn in the loop: strong fairness, because in cooperative mode a
worker is enabled only between the calls of the others, and asyncio runs ready
tasks in turn. A workflow that never returns is excluded by this; `Workflow`
says when one does return. Liveness is checked in cooperative mode.

In `Channel` the event loop runs every ready task (weak fairness of each);
nobody has to call `send` or `receive`, and `Served` lets a queue that others
empty keep a consumer waiting. In `Workflow` threads make progress, timeouts
fire and pool threads take work (weak fairness); an executor returns only if its
task is not one that may hang. The other modules state safety only.

## Findings

Each is a run whose property TLC violates.

- `stale_version`: the dispatcher's read-back of version 1 is assigned after
  the worker's RUN save took version 2; the COMPLETE save is then skipped as
  stale, silently, and the row stays InProgress. It needs `scheduled()` in a
  thread other than the worker's.
- `lost_job`: RUN is stored and the read-back raises; the worker requeues the
  job, the next delivery finds InProgress in the store, follows it and drops
  the job. This one happens in a single event loop.
- `ratelimit_minute`: every admission sets the counter again and so renews its
  minute. With a limit of 2, requests at 0 s and 45 s are admitted and one at
  90 s is answered "Rate limit exceeded (max 2 requests/minute)"
  (`security.py:195`), though one request was admitted in the minute before.
  What does hold is `RefusalsEnd`: a refusal rests on `MaxRequests` admissions
  each less than a minute after the one before it, and a pause of a minute ends
  it.

### Deviations

What else the models show the code does that a reader might not expect. No run
of its own repeats them; the properties above are stated so that they hold in
spite of them, and say so.

- A cancel from another thread, between the FSM's lookup and its assignment, is
  overwritten by the worker's RUN or COMPLETE (`preempt.cfg` with PROPERTY
  `WorkerKeepsCancel`).
- A cancel from another thread, between SCHEDULE and a rejected send, persists a
  row for a job that was never enqueued (`preempt.cfg` with INVARIANT
  `NoGhostRow`, no faults).
- A cancel whose save raises leaves its row behind when nobody looks at it
  again: `tests/scheduler/test_cancel.py:171` asserts just that for a job no
  worker has. For a job that was enqueued the worker repeats the save
  (`_ensure_cancelled_persisted`), so it takes a second store error; after two,
  the row may say Scheduled or InProgress for good (`coop.cfg` without the
  `faults <= 1` of `CancelIsDurable`).
- Two first puts race, the winner's row is deleted before the loser's retry, and
  `SqlJobStore.put` answers False although no row refused it. `IJobStore.put`
  (`interfaces.py:33`) knows only of a fence or version conflict.
  `SkipsAreJustified` allows False for a row deleted under the call.
- A `receive` whose caller is cancelled leaves its get task in line, and the
  item that task takes is lost (`GiveUp`, and `Lose` of `JobQueue`).
- The stream of a replaced SSE connection goes on, and when it ends disconnects
  by id: it closes its own replacement. At the cap, a reconnect of a known id is
  refused rather than replacing it.
- An `on_disconnect` that raises, or is cancelled where it suspends, skips
  `disconnect`: the connection stays open and registered and holds its slot of
  the caps until its id is disconnected or reconnects. `EndedIsGone` asks of such
  a stream only that it can be found under its id, or is closed.
- Replay is cut at a full queue, and live events follow the hole. A handler's
  direct send may overtake a pending broadcast.
- A key whose counter the full cache evicts starts its window anew.
- `load_config` that raises after the YAML was read leaves a durable backend
  declared and the guard unarmed: saves go to memory silently until the next
  load or reset; a tracer provider whose flush raises is one way to get there.
  With threads, a save that saw a durable store may disarm the
  guard a concurrent `reset_job_store` has just armed. Two overlapping loads
  may leak a tracer provider.
- A backend spelled `Postgres` arms the guard, and `setup_from_config` rejects
  it.

## Theorems

Every theorem holds for every value of the constants that satisfies the named
`ASSUME` of its module: no bound on jobs, workers, threads, requests, events,
faults or versions. What the assumptions ask for is what the code gives:
distinct actors and natural limits; in `SSE` that a handler's own event is not
one of the broadcast ones; in `Workflow` that a plan is a sequence of tasks the
constructors accept; in `RateLimit` and `Channel` that the null values are not
keys, requests or items. TLC evaluates them in the runs.

An invariant `Inv` of a module is proved by `Init => Inv` and
`Inv /\ [Next]_vars => Inv'`, one lemma for each action or family of alike
actions, over a frame lemma that says once what a step must not do.

### Scheduler

In threads or one event loop:

- `Invariant`: `Spec => []IInv`. `IInv` is `TypeOK` and a token argument. The
  token of an instance is the right to start its workflows. It is created once:
  INIT leaves Unknown only for an instance that was never accepted
  (`FreshIsUntouched`), and it is then in exactly one place (`OnePlace`): an
  owner about to send, one entry of the queue, or one worker that has not
  reached its workflows. While it is queued or held nothing was started
  (`QueuedNotRun`, `HeldNotRun`). `RunsAtMostOnce` alone is not inductive: it
  does not say that a queued job has not run. `LocalsOK`, `AcceptedIsLate` and
  `SendIsLate` say what an actor's locals and the FSM can be at each step, which
  is what keeps a stale rollback or restore from making a second token.
- `TypeCorrect` (`TypeOK`, with the channel's capacity) and `RunsOnce`
  (`RunsAtMostOnce`) follow.
- `CancelsReachTheWork`: `Spec => []CancelledWorkIsSignalled`, from `SignalInv`.
  A job becomes Cancelled by a canceller, which has set the Event; by a worker
  that follows a Cancelled row, which does not set it; or because somebody
  restores a Cancelled it had read. So `SignalInv` says of every Cancelled, in
  the FSM or in an actor's hands, that the Event is set or that the job is
  `Spent`: no longer fresh, not queued, and only with a worker that will not
  start a workflow. Both last for ever.

On one event loop (`Cooperative`: tasks of one loop, a store whose `get` does
not raise, an id per instance; puts may raise any number of times):

- `EventLoopInvariant`: `Spec => []CoopInv`. At most one actor is between two
  awaits (`OneBusy`). While it is, its place tells what FSM status, row and
  version its job has (`BusyIsPlaced`, a table of the places of the three kinds
  of actor); when nobody is, the job is `Settled`: the row is its last snapshot,
  or an older one that is not terminal if a put has raised, and the job has the
  row's version. The step that carries the argument is `PutIsWritten`: because
  the version is the row's and the row's status is one the fence lets go on
  from, a save on one loop is never skipped, so the paths that follow another
  writer are not taken (`CoopNeverFollows`).
- From it `JobsAreNotLost` (`NoJobLost`), `SnapshotsAgree` (`SnapshotAgrees`),
  `NoGhostRows` (`NoGhostRow`), `FinishedJobsAreDurable` (`FinishedIsDurable`)
  and `FinalStaysFinal` (the action property `TerminalIsFinal`).
- `CancelsAreDurable` (`CancelIsDurable`): the row of a Cancelled job nobody
  works on is Cancelled unless two puts raised. `cancel()` saves once, so the
  argument is about the worker. `DurableInv`: as long as at most one put raised,
  a Cancelled job whose row does not say so is `InHand` (queued, or with a
  worker), and either that put has raised or the canceller is still inside its
  save. Only a canceller's commit makes a job Cancelled (`OnlyCancelCancels`),
  the job it can apply to is then queued or with a worker, and a worker lets go
  of it only after a look at the row that finds or writes Cancelled, or after the
  second error; no put takes a Cancelled row back (`CancelledRowStays`). This is
  the safety half of `CancelPersists`.
- `ShutdownIsClean` (`NothingLeftBehind`): when the last worker has returned, the
  channel is stopped and empty and no job is half way, but for one whose owner
  is being refused. `DrainInv` (threads or not): a worker has returned only if
  the channel is stopped and empty, and it stays so, because `send` refuses and
  every requeue is a send. Nothing is then queued or with a worker, and `Located`
  leaves the owner. This is the safety half of `WorkersLeave`.

`Cooperative` is not a convenience. `stale_version` violates `FinishedIsDurable`
with threads and no fault at all, `lost_job` violates `NoJobLost` on one loop
with a single failing `get`; with a shared id the rows belong to two FSMs.

Instances that share an id, on one event loop (`OneClaimEach`: tasks of one
loop, and no instance rebuilt by `from_record` from an InProgress row; any store
call may raise, ids are shared in any way):

- `TwinsClaimOnce`: `Spec => []TwinsRunOnce`, from `TwinInv`. An instance that
  has started its workflows, or is past the put that allows it, has `Claimed`.
  While the row says InProgress every other instance of the id is `Behind`: its
  version is below the row's and it is not about to read the row back
  (`OneClaim`). So its own put of InProgress is refused. It cannot catch up:
  only a put that was written is followed by the read-back, and `from_record`
  takes no version from an InProgress row. When the row has moved on it is
  terminal, and the fence refuses InProgress whatever the version. `NoneAhead`
  (no instance knows a version its row has not had) turns "a put was written"
  into "every other one is now behind", and `BusyIsCurrent` says that what the
  actor at work has read is still so.

Both assumptions are needed. TLC violates `TwinsRunOnce` on `twins.cfg` with
`"InProgress"` in `RehydrateFrom`: an instance rebuilt from the row of one that
is running knows its version, and its RUN is written over it. It also does with
`Preemptive = TRUE`, without a canceller or a fault (within a minute; with them
the threads have too many states to get that deep).

### Stores

`StoreBackendsProofs`, for any clients, ids, statuses and versions:

- `BackendsImplementJobStore`: `Spec => ImplementsJobStore`. A gated update and
  an insert each leave what `put` leaves, so every writing statement is a `Put`
  of `JobStore` and the others stutter.
- `SkipsJustified`: `Spec => []SkipsAreJustified`. The invariant `Inv` adds, for
  a call in progress, that the verdict on the present rows is in `seen` and
  that a row missing after the insert met it was deleted: at the retry, where
  the answer is decided, either the row is there and refuses or it is gone.
  `LockInv` says that in memory nobody is ever in the middle of a put.
- `UpdatesAreNotLost`: `Spec => []NoLostUpdate`, from `WonInv`: once an update
  from version `v` was written the row is past `v`, until it is deleted.
- `FenceIsSound`: `Spec => FollowsFSM`. Every statement that writes over a row
  has passed the fence, and each pair of statuses the fence admits is a path of
  the transition table, by cases.

### Channel

- `ChannelInvariant`: the state of a receive and of its get task fit together
  (`Paced`), the line of getters holds blocked tasks, each once (`Line`), a
  task that has an item has one that was sent (`Sound`), and nobody is told of a
  stop before there is one. `ChannelTypes` (`TypeOK`) follows.
- `ChannelIsAQueue`: `Spec => QueueSpec`. Step by step: `Send` is `Accept`; a
  get task that has its item is `Take` for its receive, or `Lose` if that was
  given up; a receive that finds the stopped channel empty is `SayStopped`, and
  one that finds an item after a stop is `Take`; `Return` is `Deliver`, `GiveUp`
  is `GiveUp`; wake-ups, cancellations and the stop task stutter. `Lose` is
  enabled because the ghosts without an item are finite in number and each can
  take one at most.

- `WakeUpsAreKept`: `Spec => []NoWakeUpLost`. `WakeInv` adds that every blocked
  get that nobody cancelled stands in line (`InLine`), where the next wake-up
  finds it, and that the woken are finite in number. Per item that comes or
  stays one getter is woken or nobody is waiting: `send` wakes the first in line
  that was not cancelled, a woken get that finds an item uses both up, and one
  that was cancelled passes its wake-up on. This is the safety half of `Served`.

`ChannelIsAQueue` is what lets `Scheduler` take `receive` as one dequeue.

### Workflow

`WorkflowInvariant` has, for a runner, where it is in its plan, that the future
of the attempt in progress is its last one (`Current`), that `_inflight` knows
every future that is not done but the one about to be entered (`Tracked`), that
a future outlives its attempt only past a bounded join (`Joined`), and that
executes plus the waiting one never exceed the attempts begun (`Thrifty`).
None of the four properties is inductive alone: they all depend on where a
timed-out future may still be. They follow: `ExecutesDoNotOverlap` (`NoOverlap`)
from `Tracked`, `BudgetsAreKept` (`BudgetKept`) from `Thrifty`,
`RunsLeaveNothing` (`NoLeftover`) from `Joined`, `SuccessesAreReal`
(`SuccessIsReal`) from `Reported`.

### SSE

- `RegistryInvariant` (`RegInv`): what is open, a stream whose `on_disconnect`
  raised included, is registered under its own id, what went through its finally
  clause is closed and not registered, and the registry keeps within the caps.
  Cardinalities
  are about arbitrary finite sets. `CapsBoundOpenConnections` (`CapsHold`),
  `EndedStreamsAreGone` (`EndedIsGone`) and the action property
  `ClosedConnectionsAreQuiet` (`ClosedIsQuiet`) follow.
- `ReplayMeetsLive` (`Seamless`), from `SeamInv`: an open connection without a
  gap has, in its queue or among the scheduled sends, every event recorded
  since the one it resumed from. Holds because `Connect` replays and registers
  in one step and `Broadcast` records and schedules in one.
- `EventsArriveInOrder` (`InOrderOnce`), from `OrderInv`: queue, scheduled sends
  and record agree on the order, what is queued comes before what is scheduled,
  and a broadcast event is recorded once.

### RateLimit

`RateLimitInvariant`: one request at a time has read the counter and not yet
written it (`Serial`), a live entry dates from the last admission of its key
(`Dated`), and the counter covers the last burst, which began a TTL or more
after the admissions before it (`Counted`), so that of `MaxRequests + 1`
admissions the first and the last are a TTL apart (`Spaced`). `WindowsAreKept`
(`WindowKept`) follows. For the action property `RefusalsDoEnd` (`RefusalsEnd`)
`Chained` adds what the counter counts: the last `n` admissions, where each was
decided while the entry the one before had written was alive.

### Configuration

`ConfigurationInvariant`: a call that has been alone knows what it read
(`Knows`), and between calls that were not disturbed the globals are `Straight`:
memory is reached past the guard only if it was asked for, and an armed flag
tells the truth. The tracer part says the same of the provider while loads do
not overlap. `SavesAreNotSilent` (`NoSilentMemory`), `AlarmsAreReal`
(`NoFalseAlarm`) and `ProvidersDoNotLeak` (`OneProvider`) follow.

### Only model-checked

The liveness properties: `Settles`, `CancelPersists`, `WorkersLeave`, `Served`
and `Ends`. The prover has no fairness reasoning; `CancelsAreDurable`,
`ShutdownIsClean` and `WakeUpsAreKept` are the safety halves of three of them.
Every invariant and every action property of a passing run is proved.

## Not modelled

- `ChannelManager` and `CacheSet`, tables of named objects behind one lock;
- handlers, rollback and `close` of the generic FSM: the scheduler uses none of
  them;
- channel wake-ups across event loops: `put_nowait` from another thread does not
  wake the selector of the loop a receive waits in, so a loop with nothing else
  to do may never be woken. `Settles`, `WorkersLeave` and `Served` are about one
  loop;
- the payload of a job beyond its tasks' numbers, timestamps, logs;
- the SSE wire format beyond the id line, the statistics, header parsing;
- signals and context, the retry helper, time, random and uuid helpers, events
  with their signatures, crypto, HTTP server, logging, database drivers, the
  examples: sequential wrappers, set-up and I/O around libraries.
