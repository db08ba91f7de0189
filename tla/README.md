# AxData in TLA+

AxData is a framework for collecting, storing and querying market data. Most of its code is
sequential: it builds requests, parses answers, writes tables. What is hard to get right, and hard
to test, is the part that keeps many things going at once: the scheduler that runs collectors, the
transport that shares a few sockets among many threads, and the jobs of the API. This directory
models those parts in TLA+, checks them with TLC and proves the most important facts with TLAPS.

Paths below are relative to the repository; `core/` stands for `libs/axdata_core/axdata_core/` and
`tdx/` for `packages/axdata-source-tdx/src/axdata_source_tdx/`.

## Inventory

| Component | Code | State | Operations | What makes it correct |
|---|---|---|---|---|
| Scheduler store | `core/collector_scheduler.py` (`CollectorSchedulerStore`) | one JSON file: tasks, runs | create, update and finish runs, task summaries, enable, delete, claim a due task, recover after a crash | a final status is final; no run is left active with nobody to finish it; a failure's backoff is kept |
| Scheduler service | the same file (`CollectorSchedulerService`) | futures, executor queue, stop flag | submit, tick, execute with retries, cancel, wait | one live run per task; every run ends; outcomes tell what happened |
| Resource group limiter | the same file (`_ResourceGroupLimiter`) | count of leases per group | acquire with a waiting callback, release | never above the limit, no lease leaked on any path |
| TDX connection pool | `tdx/_tdx_wire/transport/pool.py` | idle slots, admission queue, generation, transports | execute, connect, close, reopening | no slot lost or shared, first come first served, nothing left after close |
| TDX socket actor | `tdx/_tdx_wire/transport/socket.py` | mailbox, socket, actor thread, push queue | execute, connect, close, reading and retrying | one owner of the socket, a ticket is answered by its own request or fails |
| TDX server group | `tdx/server_group.py` | batches, one executor per host | plan, execute, retry on the next host | every batch answered once, attempts bounded, no client closed in use |
| Download jobs | `apps/api/downloader_routes.py` | jobs, output locks, connection leases, backoffs | create, run, fail | no two jobs write one output, leases bounded, duplicates detected |
| Download schedules | the same file | a JSON file of schedules | enable, disable, tick | one job per minute, trading day schedules on trading days only |
| Download writer | `core/downloader_engine.py` | Parquet files of a dataset, other formats, run log | append, snapshot, upsert, replace a range, by partition | a logged success is what the mode promises; a write that stops endangers one partition at most |
| Trade calendar cache | `core/trade_calendar_cache.py` | one Parquet file of days | status, refresh, ensure | the days ahead are covered, a trading day is not taken for another |
| Quote stream | `apps/api/stream_routes.py` | the subscription task of a WebSocket | subscribe, replace, stop | an old subscription sends nothing after its successor |
| API routes and CLI of the scheduler | `apps/api/collector_routes.py`, `core/cli.py` | a cached service object | calls of the service | one service per process |
| Collector runner, profiles, plugins, queries, adapters, SDK, web | see `PROJECT.json` | none that lives across calls, or files on disk | | sequential code |

How they interact: API routes, the CLI and the scheduling loop call the scheduler service, whose
workers call the collector runner, which asks a source adapter for data; the TDX adapter splits the
request into batches for the server group, which runs them on connection pools of socket actors;
the runner writes what comes back with the download writer. The API's download jobs go the same
way below the runner, with their own limits. Shared state is guarded by one lock per component, and
no operation of a component is atomic beyond the lock regions of its parts: that is where the hard
behaviours are. The download schedules create download jobs and ask the trade calendar; the jobs
call the writer, whose datasets the locks of the jobs keep apart.

Hard behaviours, all listed with their lines under `hazards` in `PROJECT.json`:
read-decide-write sequences over several lock regions (submission, cancellation, refresh, job and
schedule updates); waiting on conditions with notifications that may not come; deadlines racing
late answers; close and reopen under running requests; crashes between two file operations; retries
of what may have been done; leases that every path of an error handler has to give back.

## Modules

| Module | What it is |
|---|---|
| `CollectorScheduler` | store, service and limiter of the scheduler with their threads |
| `TaskRuns` | what a scheduler promises of the runs of its tasks, abstractly |
| `MCCollectorScheduler` | instances of `CollectorScheduler` for TLC |
| `CollectorSchedulerProofs` | its theorems, and that it implements `TaskRuns` |
| `TdxPool` | the connection pool and its threads |
| `SlotLease` | what a pool promises, abstractly |
| `MCTdxPool` | instances of `TdxPool` for TLC |
| `TdxPoolProofs` | its theorems, and that it implements `SlotLease` |
| `SocketActor` | one transport of the pool: callers, mailbox, actor threads, socket |
| `MCSocketActor` | its instances for TLC |
| `SocketActorProofs` | its theorems |
| `DownloadJobs` | the background jobs of the API with their leases and locks |
| `MCDownloadJobs` | its instances for TLC |
| `DownloadJobsProofs` | its theorems |
| `ServerGroup` | one request whose batches are spread over several TDX servers |
| `MCServerGroup` | its instances for TLC |
| `ServerGroupProofs` | its theorems |
| `DownloadWriter` | the write modes, file operation by file operation |
| `MCDownloadWriter` | its instances for TLC |
| `DownloadWriterProofs` | its theorems |
| `TradeCalendar` | the file of trading days and the calls that use it |
| `DownloadSchedules` | the schedules of the API with their tick and requests; extends `TradeCalendar`, so that both interleave |
| `MCDownloadSchedules` | the instances of both for TLC |
| `DownloadSchedulesProofs` | the theorems of both |

Definitions marked *Variant* are not part of a specification. Each changes one definition the way
a plausible mistake in the code would, and is used to see that a property notices.

### CollectorScheduler and TaskRuns

Every operation of the store takes its lock, loads the file, changes it and replaces the file
atomically, so an operation of the store is one step; between two of them every other thread may
act. A submission (`submit_task`, `submit_task_object`) is the chain of steps of a caller:
`ReadTask`, `RefreshTask`, `RefreshSubmitted` (the two dependency refreshes, which save the whole
record the caller read), `CreateRun`, the checks `SkipDisabled`, `FailUnresolved`, `SkipBackoff`
and `PassChecks`, `FindDuplicate`, `SkipDuplicate` or `SubmitFuture`, `RegisterFuture`, and for the
CLI `wait_for_run`. The thread of the scheduling loop (`Ticker`) goes through the same chain with
`ClaimDue` before it. Listing and refreshing tasks through the API also saves a whole record: that
is the branch of `RefreshTask` that returns. Workers follow `_execute_run`: `TakeRun`, the limiter
(`AcquireLease`, `ObserveWaiting`, `MarkWaiting`), `StartRun`, the collector, then success,
cancellation, retry, failure and the `finally` block, each in the order in which the code writes.
`Crash` loses everything but the file, `RecoverInterruptedRuns` is `start_loop` of the next process.

A task record keeps what decisions read: enabled, due, resolved and the backoff. A backoff is
identified by the failed run that set it, and `expired` says whose time has passed, so that time
needs no clock. The run signature contains the task id, therefore duplicates are runs of one task.
The executor's queue is first in, first out, and drops cancelled futures at its head, as
`ThreadPoolExecutor` does. Dataset tasks are taken to have no plugin problem, plugin tasks no
dataset problem.

`TaskRuns` knows neither threads nor locks, the queue, the limiter nor the records of tasks: a run is
created, skipped, begun, queued again, ended or cancelled, and the service goes down and up. Its guards
are the promises. A record is written while the run is active, or after somebody cancelled it; a
collector is called while no collector of another run of the task is at work that nobody cancelled, with
an attempt left, and never again after it returned; a run is recorded as failed after its collector
returned only by the restart of a stopped service. The mapping is the identity but for `collecting`, the
runs of the workers inside `run_collector`. `RunsSpec` says that the scheduler implements it.

### TdxPool and SlotLease

A step is what a thread does from acquiring the pool's lock to releasing it or waiting. Sleeping on
the Condition is the state `asleep`; `NotifyAll` makes every sleeper `awake`, and it then looks at
the pool again in its own step (`LookAgain`), in any order. `Admit` is `_acquire_slot` up to the
first wait; `TakeSlot`, `Wait` and `GiveUp` are one round of its loop. `late` holds the threads
whose deadline has passed. Outside the lock a thread uses its transport: `ObtainTransport`,
`StartRequest`, `EndRequest`, then `ReleaseSlot`. `Close` and `CloseTransport` are the locked and
the unlocked part of `close()`; `ReopenIfClosed` starts the next generation. A transport is named by
its slot and generation; the model keeps whether its actor thread is alive.
When a reopening empties the queue under a waiter, the waiter finds an empty queue (`GiveUp`: in the
code `_waiters[0]` raises `IndexError`) or somebody else's queue (`Wait`).

`SlotLease` has two variables, `open` and `holder`, and the actions `Lease`, `GiveBack`, `Revoke`
and `Reopen`. The refinement mapping takes `~closed` for `open` and, for each slot, the thread that
was admitted to it in the current generation for `holder`; `LeaseSpec` in `TdxPool` says that the
pool implements it.

### SocketActor

`SocketTransport` as seen by its own callers (a slot of the pool gives a transport to one thread at
a time, except around a close; the class itself accepts any number, and so does the module).
A caller makes a ticket and reads the actor, its mailbox and its stop event under the lifecycle
lock (`SubmitTicket`), puts the ticket (`PutTicket`, `PutTimesOut`) and waits (`WaitReturns`,
`WaitTimesOut`). `Close`, `Join` and `CloseReturns` are the three parts of `close()`. The actor's
loop is `LoopHead`, `TakeTicket`, `PollTimesOut` and `BeginHeartbeat`; a ticket goes through
`EnsureSocket`, `Connected`, `Send` for the handshake, `ReadFrame`, `Send` for the request and
`ReadFrame`, and whatever raises on the way ends in `Raise`, which is `_run_ticket` with its
handlers: close the socket or not, try once more or not, set `_reader_error` or not, in the order
of the code. `CloseSocket` and `FailMailbox` follow the loop.

A ticket of `connect()` is one in `connects`. The actor's own heartbeat is the ticket `Heartbeat`.
Time is the set `late` of tickets whose deadline has passed. A frame is its message id, whether it
is a handshake or a request, and the ticket it is for; the server answers any pending frame or
none, in any order, and the connection may break at any time, with or without what has arrived.
`_socket`, `_handshaken` and `_reader_error` belong to the transport and not to the actor: were two
actors alive, they would share them, as in the code.

`JoinTimesOut` says whether `join()` in `close()` may give up. The instances say no: `join` waits
half a second longer than the transport's timeout, which is enough unless a caller passes a longer
timeout to `execute`, the transport has so many unreachable hosts that the minimum of 10 ms for
each adds up to more, or resolving a host name blocks. With `JoinTimesOut` TRUE, `SingleOwner` fails.

### DownloadJobs

`_create_job` is one step under the lock of the jobs (`CreateJob`): it skips a job of the tick whose
signature is in backoff, any job whose signature is active, and a job of the tick whose signature
has succeeded today, and otherwise adds the job as queued. Giving it to the executor is a second
step (`SubmitJob`). A worker goes through `_run_download_job` (and `_run_collector_job`, which
differs in what it calls): the connections of its group (`EnterGroup`, `MarkWaiting`,
`LookAgain`), the status `running`, the lock of the output (`LockOutput`,
`MarkWaitingOutput`), the work, the error handler (`RecordBackoff`, `CloseFailed`), the `finally`
block (`UnlockOutput`, `ReleaseConnections`) and, after a success, `FinishJob` and `ClearBackoff`,
which come after the `finally` block and are two steps. A callback that marks a job as waiting runs
without the lock of the manager, and the worker then waits without looking again: a notification in
between is lost, and only the timeout of half a second makes `LookAgain` possible, which is why
that action needs no notification.

What a job is for (its signature, who asks for it) is given by constants, and so are the lock
key, the files, the group and the connections of a signature; a limit below what the signature
asks for does not occur, because `_resolve_resource_request` raises it. `FilesOf` is not
`KeyOf`: the first is what the writer writes, the second what `_output_lock_key` computes.

### ServerGroup

The arguments of a call are a record of `Calls`; `HostCount` and `ConnectionsPerServer` are
`plan_server_group`. Connecting goes in waves (`TakeWave`): as many further hosts as are still
wanted, each of which may refuse to be created; each created client then connects or not
(`ConnectEnds`). `SubmitBatches` deals the batches out to the pools. A batch has one future at a
time, therefore the future is part of the batch: queued, running (`StartRequest`, as many at once as
the pool has threads), answered or failed (`EndRequest`), and taken by the calling thread
(`TakeAnswer`, `Retry`, `RaiseError`). The order of leaving is that of the code: the error or the
last answer, then the exit stack, which waits for all pools (`ShutDownPools`; what was queued before
the error still runs), then the `finally` block, which closes every created client.

The only caller allows one retry. With more, the hosts of a batch are `h`, `h + 1`, `h + 3`, and so
on, modulo their number, which may name a host twice; `OutcomeIsEarned` therefore demands another
server only of the first retry.

### DownloadWriter

A step is one file operation, because `os.replace` and `unlink` are atomic and anything may end
between two of them (`Fail`: an exception or the end of the process). `PlanMerge` reads the existing
rows and merges them as the mode says; `RemovePartition` removes the partitions in the range and
those that no longer have rows; for each remaining partition `ClearPartition` removes its files and
`ReplaceFile` puts the new one there. A dataset without partitions is replaced in one step.
Every other format is a file of its own (`WriteExport`) and `WriteLog` comes last.

Temporary files are invisible, files of older layouts belong to their partition, an empty partition
is none, and the name of a file does not depend on the run. One writer at a time is assumed: the lock
of the output in `DownloadJobs` is what gives it, as long as the jobs have one key.
`Kept` and `Reference` say what each mode is to leave behind, apart from how the code gets there.
Writes for which reading the existing rows failed are left out of the promises (`unread`): the code
takes them for no rows.

### TradeCalendar and DownloadSchedules

A call of the calendar reads the file, decides from the first and the last day and the day to
recheck from what to fetch (`Missing`), fetches, and writes everything back in place: `OpenCache`
truncates, `FillCache` writes, and in between the file is `unreadable`. No lock guards it, so all
threads of the API interleave. `EnsureToday` is the question of the schedules, which is answered from
the file when it has the day.

`_schedules` is `memory`, its file `disk` with `file` telling whether it is missing, good or torn.
Loading (`ReadFile`, `Install`) and storing (`OpenFile`, `FillFile`) are two steps each, outside the
lock. `dict(_schedules)` copies the dictionary and not its entries: `shared` names the entries of a
thread's copy that are still the objects of the memory, so that a mark reaches them (`Change`) while
a new schedule does not (`Put`). The tick takes its time once (`tickDay`), lists what is due, asks
the calendar for trading day schedules, creates the job and marks the schedule; an exception of the
calendar ends the tick with all schedules behind it. Of the jobs only `blocked` is left: whether the
next one would be skipped. `Restart` loses everything but the files, wherever they are.

All schedules have one trigger time, whose minute is `clock = "at"`, and the interface decides between
`daily` and `trade_day`; a weekly schedule differs in the guard of `Due` only. Whether a published
day is a trading day does not change.

## Runs

| Run | Instance | What it shows |
|---|---|---|
| `scheduler_safety` | 1 task, 2 runs, 1 user thread and the ticker, 2 workers, limit 1, 1 retry, any 2 environment events; symmetric | the type invariant, `LeaseAccounting`, `OneLiveRunPerTask`, `NoOrphanRun`, `OutcomeMatchesWork`, `RunsSpec` |
| `scheduler_liveness` | the same size without symmetry, one cancellation or crash | `EveryRunEnds`, `EveryWaitEnds` |
| `scheduler_mutual_skip` | 2 user threads | violates `DuplicateIsNotRefused` |
| `scheduler_backoff` | one event of an operator | violates `BackoffIsKept` |
| `pool` | 3 threads, 2 slots, queue of 2, 1 close, timeouts, 1 connecting thread | the type invariant, `SlotAccounting`, `ExclusiveTransport`, `NoGhostWaiter`, `LeaseSpec`, `WaitersAreServed` |
| `socket` | 2 callers, 2 tickets, 2 successive actors, 1 connection at a time, 1 heartbeat or broken connection, 1 closing caller; symmetric tickets | the type invariant, `SingleOwner`, `OwnAnswer`, `HandshakeFirst`, `NoSocketLeak` |
| `socket_liveness` | the same with 1 actor and no event | `ActorIsFreed`, `CloseEnds` |
| `jobs` | 4 jobs: two ticks with one signature, a request with the same output, a request for all connections; 2 workers, limit 2 | the type invariant, `ConnectionsAccounted`, `ExclusiveOutput`, `OneActivePerSignature`, `OneScheduledSuccessPerDay`, `EveryJobEnds` |
| `jobs_formats` | the same, where the request names one format more | violates `ExclusiveOutput` |
| `server_group` | all calls with 0, 2 or 4 batches, up to 3 hosts, 1 or 2 connections, 0 or 1 retry; any host and any request may fail | the type invariant, `WithinLimits`, `NoUseAfterClose`, `OutcomeIsEarned`, `EndsWithAllClosed` |
| `writer` | 5 rows with 2 keys, 3 dates and 2 groups, all frames of up to 2 rows, all modes and partitionings, 2 writes | the type invariant, `SuccessIsComplete`, `SingleFileIsAtomic`, `OnePartitionAtRisk` |
| `schedules` | a daily and a trading day schedule, the tick and 1 request thread, 2 days of which 1 is no trading day, 1 request or restart, an empty calendar or one with a gap | the type invariants, `OncePerMinute`, `TradeDaysOnly`, `AheadIsCovered` |

Bounds. Two runs of one task are what it takes for runs to meet: in the store as duplicates, at the
limiter of limit one, in the executor's queue. `Budget` bounds how many events the environment has
(`Allowed` names their kinds); two are enough for pairs such as disabling and a tick, or a
cancellation and a crash. Run ids are not reused, so everything else is finite. In the pool three
threads on two slots let one wait, the queue of two fill up, and a thread of an old generation meet
two of the new one; `Shutdowns` bounds the generations. In the transport two tickets let a late answer meet
another ticket's request, and fill the mailbox; two actors let a second one start. A dead connection
needs no second one beside it: `NoSocketLeak` says that there is none. Among the jobs two have one
signature, two share an output and two do not fit the group together, and two workers let any two
of them meet; a day may end and a backoff pass at any time. Four batches on two servers fill both
connections of each and leave one waiting; three hosts give two servers a reserve. Two writes are
what it takes to merge with rows that are there, in the second after a failure of the first; one key
moves from one partition to another, and a frame may have it twice. One request or restart beside the
tick can come anywhere in it; a second one would add the meeting of two requests, which the tick's own
writes stand in for. `LastDay`, `Events`, `Writes` and `Ranges` are the names of these bounds. Except
for `schedules` the runs do not check deadlock: services without calls stop, and calls end.

Fairness. Threads keep running (`WF` of `CallerStep(c)`, `WorkerStep(w)`), a started `cancel_run`
goes on, and after a crash the service is started again. Nobody has to submit or cancel, and no
deadline has to pass. The collector is assumed to return or raise, as `run_collector` does unless
its source blocks for ever. `WaitersAreServed` speaks of behaviours in which the pool stays open,
and holds although a waiter may sleep beside an idle slot for a while, because taking a slot wakes
nobody: every release wakes all waiters and each request ends. In the transport the actor and the callers
keep running and deadlines pass (`WF` of `Deadline(t)`, which is time), but the server owes nothing.
Workers of the jobs keep running, whoever created a job submits it, and a downloader returns or
raises. Neither manager serves its waiters in order; `EveryJobEnds` needs no more than the weak
fairness of each worker, because every job that overtakes another one ends. In the server group the
calling thread and the threads of the pools keep running, and every connect and every request ends,
if only at its timeout, which is the socket's.

## What the code does not keep

Each of the violating runs checks a sentence of the documentation, a message or a test; the finding
in `PROJECT.json` quotes it.

- `DuplicateIsNotRefused`: each of two concurrent submissions finds the other's queued run and both
  are skipped, each as the duplicate of the other.
- `BackoffIsKept`: a skipped run rewrites the summary of its task, and with it the backoff that a
  failed run had left there.
- `ExclusiveOutput` in `jobs_formats`: the lock key contains the list of formats, so a job for
  Parquet and one for Parquet and CSV write the same Parquet files at once.

A cancelled run may go on: the worker writes `running` or `queued` over a cancellation that came
after it read the run. The documentation promises only a mark on the status
(`docs/collector-scheduling.md:47`), so `TaskRuns` lets a cancelled run go on, and
`OneLiveRunPerTask` and `FinalUnlessCancelled` leave cancelled runs out.

The models show more of this kind, where no sentence of the repository promises otherwise or where a
property excuses it; each is a hazard in `PROJECT.json`, and where no property catches it the hazard
names none and its note says why.

- `wait_for_run` returns a running run when it starts after the future is forgotten and before the
  outcome is written.
- A refresh saves a copy of a task that was read before a disable, a claim or a backoff, and undoes it.
- The head of the pool's queue may sleep beside an idle slot until something is released or its
  deadline passes, because taking a slot notifies nobody.
- A thread that obtained its transport before `close()` starts the transport's actor again after
  `close()` returned, and nothing stops that actor later.
- A write to a partitioned dataset that stops after `ClearPartition` has lost the rows of that
  partition which it was to keep; `docs/collector-scheduling.md:503` says that a failure leaves no
  final file that looks like a success, and `OnePartitionAtRisk` is what is left of that. The next
  write of the same mode reads what is there and does not bring them back.
- A gap in the calendar that is older than the days to recheck is never fetched, also not by the
  refresh of that range which a blocked task is told to do (`docs/api-design.md:207`). Two refreshes of
  separate ranges make such a gap.
- Two refreshes at once lose the rows of one of them; a crash in the middle of one leaves a file that
  makes every later call raise, and with it every tick that has a trading day schedule due.
- A crash or a second writer can leave the schedules' file torn, and the loader then ignores it; after
  a restart the next request stores its own schedule alone. A tick's mark can bring back the entry of
  before a request when its write comes last.

## Proofs

All theorems hold for any sets of tasks, runs, threads, slots and any limits that satisfy the
assumptions named in the modules (`ConstantsAssumption`, `PoolAssumption`,
`SocketAssumption`, `DownloadAssumption`, `CallsAssumption`, `WriterAssumption`,
`CalendarAssumption`, `SchedulesAssumption`).

`CollectorSchedulerProofs`. `Spec => []IInv`, where `IInv` joins `TypeOK`, `Ownership`
(a thread that holds a run really has one, no two threads decide about or execute one run, the
queue holds each run once), `AdmittedIsActive` (a run that may still be executed is active unless
cancelled), `OneClaimPerTask` (of the admitted runs of a task at most one has passed
`FindDuplicate`), `NoOrphanRun` and `DroppedIsCancelling`. `OneLiveRunPerTask` is not inductive
alone: it needs the claim, because the danger is a run that has passed the search before another is
created. `NoOrphanRun` needs to know that a future dropped from the queue belongs to a cancellation
in progress. Steps are first sorted into forms by what they do to the variables a part mentions
(`StepHasForm`), then each part is shown for each form. From `IInv` follow `TypeCorrect`,
`AtMostOneLiveRun`, `EveryActiveRunIsInHand` and `OutcomesAreFinal` (`FinalUnlessCancelled`: a final
status changes only by `cancel_run`, which no run checks beside `RunsSpec` because a step that rewrites
an outcome is none of `TaskRuns`); `LeasesAreAccounted` has its own forms, which count the workers that
hold a lease.

`NobodyWaitsInVain` is what is safe about `EveryRunEnds` and `EveryWaitEnds`, for any number of threads:
the future a caller of `wait_for_run` is blocked on is over, in the queue or run by a worker
(`FutureInv`: a future that is not over is in work, and who waits has submitted it; `NoOrphanRun` speaks
of active runs only, while a caller also waits for one that is cancelled), and a worker that finds its
group full finds the leases with workers that wait neither for a lease nor for a future. The limits are
at least one (`ConstantsAssumption`), as `_ResourceGroupLimiter` makes them.

`OutcomesAreTrue` needs `WorkInv`. That a backoff stands for a run that used up its attempts is not
inductive by itself, because `backoff_until` travels: from the run to its task, with the task into the
copies of callers, from a copy back over the task (`SaveRefreshed`) or into the record of a run that is
skipped. `PenaltiesAreReal` follows it through all of them. `UntriedFits` says that nothing is tried
before a worker takes the run, and `PhaseFits` how many attempts a run has where its worker is.
`SchedulerImplementsRuns` adds `ReturnInv` (a run whose worker may still try or fail it has not
returned) and shows each step to be one of `TaskRuns` or a stutter; that a run collects alone comes from
`OneClaimPerTask`, not from the limiter, so it holds for every limit. In `scheduler_safety` the limit
of one alone would keep two runs from collecting, so for that part of `RunsSpec` the theorem says more
than the run.

`TdxPoolProofs`. The inductive invariant says that idle slots are distinct, an idle slot is held by
nobody of the current generation and every other by somebody while the pool is open, that leases
are of no later generation and, once the pool is closed, of an earlier one, and
`ExclusiveTransport`. Every step of the pool is quiet, takes a slot, releases one, closes or
reopens the pool (`StepHasForm`). The theorems are `TypeCorrect`, `SlotsAreAccounted`,
`TransportsAreExclusive`, `QueueHasNoGhosts` (`NoGhostWaiter` is inductive beside the types: a step
adds a thread that was not in the queue, or takes one out that no longer waits, or leaves queue and
waiting threads alone) and `PoolImplementsLeases`: `Spec => LeaseSpec`, form by form.
`NoWakeupIsLost` is what is safe about `WaitersAreServed`: taking a slot notifies nobody, so the head of
the queue can sleep beside an idle slot, but whoever sleeps (also outside a queue that a reopening has
emptied) sleeps in an open pool in which a slot is held, whose release will wake it, or the head of the
queue is awake. It is inductive with `IInv` and `NoGhostWaiter`: a thread falls asleep at the head only
when no slot is idle, and then `BusyIsHeld` has a holder, and behind the head only when the head is
awake, or asleep while somebody holds a slot; every step that takes such a thread away notifies all.

`SocketActorProofs`. `Base` is inductive: the types, `Callers` (who waits has a ticket and an actor),
`Tasks` (an actor in the middle of a ticket has one) and `Frames`: every frame carries an id that was
given out, an actor reads for a frame of its own ticket, and whatever frame on any connection has the
id an actor reads for is that frame. Types and frames go together, because the type of an answer
depends on whose frame was matched. All steps but `Send` are `Quiet` (they put nothing new on the
wire and make no actor read), so `Frames` has two cases. From `Base` follow `TypeCorrect` and
`OwnAnswers`; `HandshakesComeFirst` adds `Greeted` (what `_handshaken` and a handshake's answer
tell about the server). `OneOwner` and `NoSocketLeaks` assume `~JoinTimesOut`; their invariants are
`Owned` (the thread that runs is the one in `_actor_thread`, and who has joined an actor has seen it
end) and `Kept` (which states of the actor have a socket).

`DownloadJobsProofs`. `Invariance` shows `IInv`: `JobsOnce` (a job is handed over, queued or run,
and once), `StatusFits` (the status that follows from where a job is), `LocksHeld`, `DayFits` and
`OneActivePerSignature`. The last one is not inductive alone: a worker that wrote `running` on a job
another worker has ended would make it active again, which `JobsOnce` and `StatusFits` exclude.
`DayFits` says that a signature that succeeded today has no active job of the tick, which the two
searches of `_create_job` give together. `ConnectionsAreAccounted` needs `LeasesCounted`: the limit
of a group suffices for each job that entered it (it only grows, by later and larger requests), and
the count is the number of connections, a job's being told apart by their owner, so that a step adds
or removes one disjoint set (`LeaseForm`: kept, taken, given back). Most steps only move a worker,
mark its job or end it (`Moves`, `Marks`, `Ends`, `Leaves`, `LocksKept`). `OneWriterPerKey` says what
the output lock gives without any assumption about the keys: jobs at work at the same time have
different ones (`KeysApart`, from `LocksHeld`). `ExclusiveOutput`, which speaks of files, does not follow
and is not proved: `jobs_formats` has two jobs with a common file and different keys.
`NobodyWaitsInACircle` is what is safe about `EveryJobEnds`: a job keeps its connections while
it waits for its output, so the two resources could block each other. They do not, because all take
them in the same order: the lock of an output is always with a job that waits for nothing
(`LocksHaveHolders`, inductive by itself), and the connections of a full group are with somebody
(`FullGroupIsUsed`, from `LeasesCounted`) who goes on or waits for an output.

`ServerGroupProofs`. `TypeInvariant` is inductive alone. `WithinLimits` needs `WaveFits` (what is
connected or connecting is no more than planned, which is why a wave may only ask for what is still
wanted) and `ThreadsFit`; both are cardinalities, for any numbers of hosts and batches.
`OutcomeIsEarned` needs `PhaseFits` and `AttemptsFit`: the first retry of a batch is on another pool
because there are two of them and the step is one, modulo their number (`NextIsAnother`).
`CloseInvariant` follows from the same invariant: no client is closed before the phase in which
nothing runs.

`DownloadWriterProofs`. `Phases` is inductive with `TypeOK`: `CallFits` (what a call has done to each
format), `PlanFits` (what the planned rows, removals and places are: with the rows that need no
reading, the planned rows are what is promised, and a place that is removed has no row to be kept) and
`PlaceFits` (a place to be written is as it was before the call, or had nothing to be kept, or is the
one just cleared; a place that has been written has exactly its planned rows). One lemma per step
(`PlanMergeStep` is where the merge of each mode is compared with its promise). `PhasePromise` derives
`SingleFileIsAtomic` and `OnePartitionAtRisk` from it while a call is in progress; `PromiseAtRest`
keeps them when it ends. `LoggedSuccessIsComplete` follows from `CallFits`.

`DownloadSchedulesProofs`. `Types` adds to `TypeOK` that only what is about to be written is shared
with the memory. `CallsFit` follows one call through the calendar (`AheadIsMissing`: all days from the
one asked for on are missing for `_missing_ranges`, so gaps do not matter); `CoverageAhead` is its
consequence. `Fits` is about the tick: no job is of a later day than its tick (`DatesFit`), what it
has taken up has not been started today (`PendingFits`), and a job whose day nobody has disturbed is
marked in the memory and in the file, or the tick is about to do it (`MarksFit`: without the part
about the file the next look could read an older one and start again). A step of a request or of the
calendar is seen by the tick only through `RequestForm` and `QuietForm`.

Only model-checked: liveness (out of the prover's reach, like everything that needs `ENABLED`), the
violations, and `ExclusiveOutput` in `jobs`, which depends on the formats that the requests of that
instance name. Every other property of a passing run is stated by a theorem; of the liveness of the
scheduler, the pool and the jobs the theorems have the part that is safety: while somebody waits there is
somebody else whose steps, which fairness lets happen, end the wait. The transport has no such theorem:
a ticket put into a mailbox that is already drained waits for its deadline, so only time frees its caller.

## Not modelled

In the scheduler: a second `cancel_run` of the same run, due times that are missing or on days that are
no trading days, the new due time a refresh may compute (1659-1672 of `collector_scheduler.py`),
creating tasks and seeding defaults, changing other fields of a task, deleting runs, progress records,
calendar times of schedules, the shutdown of the executor, and a second process or a second store on the
same file (the data browser makes one to delete a dataset). With one process and one store a recovered
run stays failed; with two, a worker may still write `success` over it, which
`tests/test_collector_scheduler.py:561` accepts. `_refresh_task_dependency` reads and saves, and the end
of a run gives its lease back and forgets its future, in two lock regions that are one step each here,
and so are the deadline check and the lookup of the transport in the pool.

In the pool: `request()`, whose only command raises in the transport, and the probing of hosts before
the pool exists.

In the server group what the clients do, which `TdxPool` and `SocketActor` model, and an exception of
`client_meta` after the last answer.

In the download jobs: progress, requests without `async_job` (they run without a job, a lease or a lock,
also beside a job for the same output), the way options become a signature, and a tick that decides on
one day and creates its job on the next.

In the transport: the push queue and the frames that nobody waits for, a handshake sent as a command of
its own (nothing in the repository does that), and the wrap of the message id after 2^32 frames.

In the writer: explicit bounds of a range (no caller passes them), several partition fields, missing
columns (an exception before anything is changed), readers during a write, and what reading partition
columns back does to their types; the files of one partition are removed in one step.

In the schedules: weekly ones, several trigger times, and a tick beside the same loop in another
process. In the calendar: revisions of published days, neighbouring trading days, and
`update_trade_calendar_cache_from_records`, a further writer that only a test calls.

Conversions of frames and tables, queries, plugin packages, the SDK and the web application are
sequential code without state of their own.

## Plan

In this order:

1. Abstract specifications of the other components, refined as `TaskRuns` and `SlotLease` are: a job
   with its lease and its lock for `DownloadJobs`, a dataset that is replaced for `DownloadWriter`.
2. The quote stream (`apps/api/stream_routes.py`): a subscription whose task is cancelled while its
   request goes on in a thread of the default executor.
3. The limiter alone with new runs coming for ever (overtaking), and a second scheduler service over
   one store.
