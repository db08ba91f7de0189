------------------------- MODULE CollectorScheduler -------------------------
(***************************************************************************)
(* The single-process collector scheduler of axdata_core                   *)
(* (collector_scheduler.py): CollectorSchedulerStore, the JSON file with   *)
(* the tasks and the runs; CollectorSchedulerService, whose callers (API   *)
(* and CLI threads, the scheduling loop) submit runs and whose thread pool *)
(* executes them; and _ResourceGroupLimiter, which bounds the runs of one  *)
(* resource group that collect at the same time.                           *)
(*                                                                         *)
(* Every store operation holds the store lock from the load of the file to *)
(* the atomic rename of its successor, so it is one step here.  Everything *)
(* between two store operations of a thread is open to the other threads.  *)
(***************************************************************************)
EXTENDS Naturals, Sequences, FiniteSets

CONSTANTS
    Task,           \* ids of the collector tasks in the store
    DatasetTask,    \* those that require datasets rather than a plugin
    Run,            \* run ids the service can hand out
    Submitter,      \* API and CLI threads that call submit_task
    Ticker,         \* the thread of the scheduling loop
    Worker,         \* threads of the executor
    ResourceGroup,
    GroupOf,        \* resource group of each task
    Limit,          \* concurrent leases of each resource group
    MaxRetries,     \* max_retries of each task
    NoRun, NoTask   \* null values

Caller == Submitter \cup {Ticker}

ASSUME ConstantsAssumption ==
    /\ IsFiniteSet(Worker)
    /\ DatasetTask \subseteq Task
    /\ GroupOf \in [Task -> ResourceGroup]
    /\ Limit \in [ResourceGroup -> Nat \ {0}]
    /\ MaxRetries \in [Task -> Nat]
    /\ NoRun \notin Run
    /\ NoTask \notin Task
    /\ Ticker \notin Submitter

-----------------------------------------------------------------------------
\* CollectorRun.status; PENDING is declared by the code but never written.
Active == {"queued", "running"}
Final  == {"success", "failed", "skipped", "cancelled"}
Status == Active \cup Final \cup {"absent"}

(***************************************************************************)
(* What the scheduler reads of a CollectorTask: whether it is enabled,     *)
(* whether next_run_at has come, whether its dependencies were resolved    *)
(* when the record was last refreshed, and backoff_until, named here by    *)
(* the failed run that set it (see expired for the passing of time).       *)
(***************************************************************************)
TaskRecord ==
    [enabled: BOOLEAN, due: BOOLEAN, resolved: BOOLEAN, backoff: Run \cup {NoRun}]

VARIABLES
    \* the JSON file
    tasks,          \* [Task -> TaskRecord]
    known,          \* tasks that have not been deleted
    status,         \* [Run -> Status]
    taskOf,         \* task_id of each run
    duplicateOf,    \* metadata.duplicate_run_id of each run
    backoffOf,      \* backoff_until of each run
    \* callers
    cpc,            \* where each caller is
    crun,           \* the run it is submitting
    ctask,          \* the task it is submitting
    ccopy,          \* its copy of the task record
    cancelling,     \* runs with a cancel_run call that has not yet written
    \* executor
    queue,          \* work queue of the ThreadPoolExecutor
    future,         \* state of the future of each run
    registered,     \* keys of _futures
    wpc,            \* where each worker is
    wrun,           \* the run it executes
    attempts,       \* run_collector calls made for each run
    active,         \* _active of the limiter
    \* environment
    up,             \* the service process is alive
    available,      \* tasks whose dependencies can be resolved right now
    expired,        \* failed runs whose backoff_until is in the past
    \* history
    collected,      \* runs whose run_collector call has returned
    cancelled,      \* runs for which cancel_run has written its status
    penalty,        \* the failed run whose backoff the task should honour
    reported        \* the status wait_for_run returned for a run

storeVars    == <<tasks, known, status, taskOf, duplicateOf, backoffOf>>
callerVars   == <<cpc, crun, ctask, ccopy>>
executorVars == <<queue, future, registered>>
workerVars   == <<wpc, wrun, attempts, active>>
envVars      == <<up, available, expired>>
historyVars  == <<collected, cancelled, penalty, reported>>
vars == <<storeVars, callerVars, cancelling, executorVars, workerVars, envVars,
          historyVars>>

\* The copy of a caller that has read nothing yet.
NoRecord == [enabled |-> FALSE, due |-> FALSE, resolved |-> FALSE, backoff |-> NoRun]

\* backoff_until is set and has not passed.
InBackoff(rec) == rec.backoff # NoRun /\ rec.backoff \notin expired

\* What tick_due_tasks asks of a task before it submits it.
DueNow(rec) == rec.enabled /\ rec.resolved /\ rec.due

(***************************************************************************)
(* The dependency check of submit_task_object: datasets are looked at now, *)
(* a plugin as it was when the caller refreshed its copy.                  *)
(***************************************************************************)
MissingDependency(c) ==
    IF ctask[c] \in DatasetTask THEN ctask[c] \notin available ELSE ~ccopy[c].resolved

CallerState ==
    {"idle", "read", "claiming", "looked_up", "refreshed", "created", "checking",
     "duplicate", "unique", "submitted", "waiting", "blocked", "woken"}
WorkerState ==
    {"idle", "missing", "acquiring", "marking", "leased", "collecting", "returned", "released",
     "succeeding", "raised_transient", "raised_permanent", "retrying",
     "retry_queued", "backing_off", "failing", "closing"}
FutureState == {"none", "pending", "running", "done", "cancelled"}
\* Where _execute_run holds the lease of its resource group.
Leased ==
    WorkerState \ {"idle", "missing", "acquiring", "marking", "released", "succeeding"}

Init ==
    /\ tasks \in [Task -> [enabled: {TRUE}, due: BOOLEAN, resolved: {TRUE}, backoff: {NoRun}]]
    /\ known = Task
    /\ status = [r \in Run |-> "absent"]
    /\ taskOf = [r \in Run |-> NoTask]
    /\ duplicateOf = [r \in Run |-> NoRun]
    /\ backoffOf = [r \in Run |-> NoRun]
    /\ cpc = [c \in Caller |-> "idle"]
    /\ crun = [c \in Caller |-> NoRun]
    /\ ctask = [c \in Caller |-> NoTask]
    /\ ccopy = [c \in Caller |-> NoRecord]
    /\ cancelling = {}
    /\ queue = <<>>
    /\ future = [r \in Run |-> "none"]
    /\ registered = {}
    /\ wpc = [w \in Worker |-> "idle"]
    /\ wrun = [w \in Worker |-> NoRun]
    /\ attempts = [r \in Run |-> 0]
    /\ active = [g \in ResourceGroup |-> 0]
    /\ up = TRUE
    /\ available = Task
    /\ expired = {}
    /\ collected = {}
    /\ cancelled = {}
    /\ penalty = [t \in Task |-> NoRun]
    /\ reported = [r \in Run |-> "absent"]

-----------------------------------------------------------------------------
(***************************************************************************)
(* The store.  update_run with a final status also rewrites the summary of *)
(* the run's task (_task_with_run_summary): backoff_until becomes the      *)
(* run's, whatever the final status, and next_run_at moves on.             *)
(***************************************************************************)
Summarised(t, b) ==
    [tasks EXCEPT ![t] = [@ EXCEPT !.backoff = b, !.due = FALSE]]

FinishRun(r, final, b) ==
    /\ status' = [status EXCEPT ![r] = final]
    /\ backoffOf' = [backoffOf EXCEPT ![r] = b]
    /\ tasks' = IF taskOf[r] \in known THEN Summarised(taskOf[r], b) ELSE tasks

\* update_run with an active status touches the run alone.
MarkRun(r, s) ==
    /\ status' = [status EXCEPT ![r] = s]
    /\ UNCHANGED <<tasks, known, taskOf, duplicateOf, backoffOf>>

MoveCaller(c, s) == cpc' = [cpc EXCEPT ![c] = s]

\* The call returns: its locals are gone.
Return(c) ==
    /\ MoveCaller(c, "idle")
    /\ crun' = [crun EXCEPT ![c] = NoRun]
    /\ ctask' = [ctask EXCEPT ![c] = NoTask]
    /\ ccopy' = [ccopy EXCEPT ![c] = NoRecord]

MoveWorker(w, s) == wpc' = [wpc EXCEPT ![w] = s]

Group(r) == GroupOf[taskOf[r]]

-----------------------------------------------------------------------------
(***************************************************************************)
(* Submitting a run.  The task is read once; every later decision of the   *)
(* caller is taken on its copy, which only the two refreshes bring up to   *)
(* date, and only as far as the dependency goes.                           *)
(***************************************************************************)
\* store.get_task in submit_task, store.list_tasks in list_tasks and tick_due_tasks.
ReadTask(c, t) ==
    /\ up
    /\ cpc[c] = "idle"
    /\ t \in known
    /\ MoveCaller(c, "read")
    /\ ctask' = [ctask EXCEPT ![c] = t]
    /\ ccopy' = [ccopy EXCEPT ![c] = tasks[t]]
    /\ UNCHANGED <<storeVars, crun, cancelling, executorVars, workerVars, envVars, historyVars>>

\* set_task_enabled; the API routes go on to refresh the record they get back.
SetEnabled(c, t, b) ==
    /\ up
    /\ cpc[c] = "idle"
    /\ c \in Submitter
    /\ t \in known
    /\ tasks' = [tasks EXCEPT ![t] = [@ EXCEPT !.enabled = b, !.due = FALSE]]
    /\ ctask' = [ctask EXCEPT ![c] = t]
    /\ ccopy' = [ccopy EXCEPT ![c] = tasks'[t]]
    /\ MoveCaller(c, "read")
    /\ UNCHANGED <<known, status, taskOf, duplicateOf, backoffOf, crun, cancelling,
                   executorVars, workerVars, envVars, historyVars>>

DeleteTask(t) ==
    /\ up
    /\ t \in known
    /\ known' = known \ {t}
    /\ UNCHANGED <<tasks, status, taskOf, duplicateOf, backoffOf, callerVars, cancelling,
                   executorVars, workerVars, envVars, historyVars>>

(***************************************************************************)
(* _refresh_task_dependency: resolve the dependency now and, if that       *)
(* changes the copy, save the WHOLE copy over the stored record.           *)
(***************************************************************************)
Refreshed(c) == [ccopy[c] EXCEPT !.resolved = ctask[c] \in available]

SaveRefreshed(c) ==
    /\ tasks' = IF Refreshed(c) # ccopy[c] /\ ctask[c] \in known
                THEN [tasks EXCEPT ![ctask[c]] = Refreshed(c)]
                ELSE tasks
    /\ UNCHANGED <<known, status, taskOf, duplicateOf, backoffOf, cancelling,
                   executorVars, workerVars, envVars, historyVars>>

\* The caller goes on with the refreshed copy.
KeepRefreshed(c, s) ==
    /\ ccopy' = [ccopy EXCEPT ![c] = Refreshed(c)]
    /\ MoveCaller(c, s)
    /\ UNCHANGED <<crun, ctask>>

\* The first refresh: that of list_tasks or refresh_task, of submit_task, or of a tick.
RefreshTask(c) ==
    /\ cpc[c] = "read"
    /\ SaveRefreshed(c)
    /\ \/ c \in Submitter /\ Return(c)
       \/ c \in Submitter /\ KeepRefreshed(c, "looked_up")
       \/ c = Ticker /\ DueNow(Refreshed(c)) /\ KeepRefreshed(c, "claiming")
       \/ c = Ticker /\ ~DueNow(Refreshed(c)) /\ Return(c)

\* tick_due_tasks moves next_run_at on before it submits, and submits what update_task returned.
ClaimDue(c) ==
    /\ cpc[c] = "claiming"
    /\ \/ /\ ctask[c] \in known
          /\ tasks' = [tasks EXCEPT ![ctask[c]] = [@ EXCEPT !.due = FALSE]]
          /\ ccopy' = [ccopy EXCEPT ![c] = tasks'[ctask[c]]]
          /\ MoveCaller(c, "looked_up")
          /\ UNCHANGED <<crun, ctask>>
       \/ /\ ctask[c] \notin known
          /\ Return(c)
          /\ UNCHANGED tasks
    /\ UNCHANGED <<known, status, taskOf, duplicateOf, backoffOf, cancelling,
                   executorVars, workerVars, envVars, historyVars>>

\* The refresh at the head of submit_task_object.
RefreshSubmitted(c) ==
    /\ cpc[c] = "looked_up"
    /\ SaveRefreshed(c)
    /\ KeepRefreshed(c, "refreshed")

\* create_run_from_task and store.create_run: the run is active from here on.
CreateRun(c, r) ==
    /\ cpc[c] = "refreshed"
    /\ status[r] = "absent"
    /\ status' = [status EXCEPT ![r] = "queued"]
    /\ taskOf' = [taskOf EXCEPT ![r] = ctask[c]]
    /\ crun' = [crun EXCEPT ![c] = r]
    /\ MoveCaller(c, "created")
    /\ UNCHANGED <<tasks, known, duplicateOf, backoffOf, ctask, ccopy, cancelling,
                   executorVars, workerVars, envVars, historyVars>>

\* A run refused by the checks gets its final status and is never submitted.
RefuseRun(c, final, b) ==
    /\ FinishRun(crun[c], final, b)
    /\ Return(c)
    /\ UNCHANGED <<known, taskOf, duplicateOf, cancelling, executorVars, workerVars, envVars,
                   historyVars>>

\* Only manual runs of a caller that allows it may run a disabled task.
SkipDisabled(c) ==
    /\ cpc[c] = "created"
    /\ ~ccopy[c].enabled
    /\ RefuseRun(c, "skipped", backoffOf[crun[c]])

FailUnresolved(c) ==
    /\ cpc[c] = "created"
    /\ ccopy[c].enabled \/ c \in Submitter
    /\ MissingDependency(c)
    /\ RefuseRun(c, "failed", backoffOf[crun[c]])

\* Both kinds of caller leave enforce_failure_backoff and skip_active_duplicates on.
SkipBackoff(c) ==
    /\ cpc[c] = "created"
    /\ ccopy[c].enabled \/ c \in Submitter
    /\ ~MissingDependency(c)
    /\ InBackoff(ccopy[c])
    /\ RefuseRun(c, "skipped", ccopy[c].backoff)

PassChecks(c) ==
    /\ cpc[c] = "created"
    /\ ccopy[c].enabled \/ c \in Submitter
    /\ ~MissingDependency(c)
    /\ ~InBackoff(ccopy[c])
    /\ MoveCaller(c, "checking")
    /\ UNCHANGED <<storeVars, crun, ctask, ccopy, cancelling, executorVars, workerVars,
                   envVars, historyVars>>

\* Variant: runs that are only queued are overlooked.
DuplicatesRunning(r) ==
    {q \in Run \ {r} : status[q] = "running" /\ taskOf[q] = taskOf[r]}

\* _find_active_duplicate: run signatures contain the task id, so the task decides.
Duplicates(r) ==
    {q \in Run \ {r} : status[q] \in Active /\ taskOf[q] = taskOf[r]}

FindDuplicate(c) ==
    /\ cpc[c] = "checking"
    /\ \/ /\ Duplicates(crun[c]) = {}
          /\ MoveCaller(c, "unique")
          /\ UNCHANGED duplicateOf
       \/ \E q \in Duplicates(crun[c]) :
             /\ MoveCaller(c, "duplicate")
             /\ duplicateOf' = [duplicateOf EXCEPT ![crun[c]] = q]
    /\ UNCHANGED <<tasks, known, status, taskOf, backoffOf, crun, ctask, ccopy, cancelling,
                   executorVars, workerVars, envVars, historyVars>>

\* Variant: the refused run is not returned, and goes on to the executor.
SkipDuplicateGoesOn(c) ==
    /\ cpc[c] = "duplicate"
    /\ FinishRun(crun[c], "skipped", backoffOf[crun[c]])
    /\ MoveCaller(c, "unique")
    /\ UNCHANGED <<known, taskOf, duplicateOf, crun, ctask, ccopy, cancelling, executorVars,
                   workerVars, envVars, historyVars>>

SkipDuplicate(c) ==
    /\ cpc[c] = "duplicate"
    /\ RefuseRun(c, "skipped", backoffOf[crun[c]])

\* self._executor.submit
SubmitFuture(c) ==
    /\ cpc[c] = "unique"
    /\ queue' = Append(queue, crun[c])
    /\ future' = [future EXCEPT ![crun[c]] = "pending"]
    /\ MoveCaller(c, "submitted")
    /\ UNCHANGED <<storeVars, crun, ctask, ccopy, cancelling, registered, workerVars,
                   envVars, historyVars>>

\* The future is registered only now; the run may be over.  The CLI then waits for it.
RegisterFuture(c) ==
    /\ cpc[c] = "submitted"
    /\ registered' = registered \cup {crun[c]}
    /\ \/ Return(c)
       \/ /\ c \in Submitter
          /\ MoveCaller(c, "waiting")
          /\ UNCHANGED <<crun, ctask, ccopy>>
    /\ UNCHANGED <<storeVars, cancelling, queue, future, workerVars, envVars, historyVars>>

-----------------------------------------------------------------------------
(***************************************************************************)
(* wait_for_run: look the future up, block on it, then read the run.       *)
(***************************************************************************)
LookUpFuture(c) ==
    /\ cpc[c] = "waiting"
    /\ MoveCaller(c, IF crun[c] \in registered THEN "blocked" ELSE "woken")
    /\ UNCHANGED <<storeVars, crun, ctask, ccopy, cancelling, executorVars, workerVars,
                   envVars, historyVars>>

\* result() of a cancelled future raises CancelledError out of wait_for_run.
FutureResult(c) ==
    /\ cpc[c] = "blocked"
    /\ \/ /\ future[crun[c]] = "done"
          /\ MoveCaller(c, "woken")
          /\ UNCHANGED <<crun, ctask, ccopy>>
       \/ /\ future[crun[c]] = "cancelled"
          /\ Return(c)
    /\ UNCHANGED <<storeVars, cancelling, executorVars, workerVars, envVars, historyVars>>

ReadResult(c) ==
    /\ cpc[c] = "woken"
    /\ reported' = [reported EXCEPT ![crun[c]] = status[crun[c]]]
    /\ Return(c)
    /\ UNCHANGED <<storeVars, cancelling, executorVars, workerVars, envVars, collected,
                   cancelled, penalty>>

(***************************************************************************)
(* cancel_run: try to cancel the future, then write the status whatever it *)
(* has become.  Each run is cancelled at most once.                        *)
(***************************************************************************)
CancelFuture(r) ==
    /\ up
    /\ status[r] # "absent"
    /\ r \notin cancelling \cup cancelled
    /\ cancelling' = cancelling \cup {r}
    /\ future' = IF r \in registered /\ future[r] = "pending"
                 THEN [future EXCEPT ![r] = "cancelled"]
                 ELSE future
    /\ UNCHANGED <<storeVars, callerVars, queue, registered, workerVars, envVars, historyVars>>

WriteCancelled(r) ==
    /\ r \in cancelling
    /\ FinishRun(r, "cancelled", backoffOf[r])
    /\ cancelling' = cancelling \ {r}
    /\ cancelled' = cancelled \cup {r}
    /\ UNCHANGED <<known, taskOf, duplicateOf, callerVars, executorVars, workerVars, envVars,
                   collected, penalty, reported>>

-----------------------------------------------------------------------------
(***************************************************************************)
(* Executing a run: _execute_run in a worker of the pool.                  *)
(***************************************************************************)
\* The pool drops a cancelled future; otherwise the worker reads the run and its task.
TakeRun(w) ==
    /\ wpc[w] = "idle"
    /\ queue # <<>>
    /\ queue' = Tail(queue)
    /\ LET r == Head(queue) IN
       \/ /\ future[r] = "cancelled"
          /\ UNCHANGED <<future, wpc, wrun>>
       \/ /\ future[r] = "pending"
          /\ future' = [future EXCEPT ![r] = "running"]
          /\ wrun' = [wrun EXCEPT ![w] = r]
          /\ MoveWorker(w, IF taskOf[r] \in known THEN "acquiring" ELSE "missing")
    /\ UNCHANGED <<storeVars, callerVars, cancelling, registered, attempts, active, envVars,
                   historyVars>>

\* The thread returns; its future is done.
EndRun(w) ==
    /\ MoveWorker(w, "idle")
    /\ wrun' = [wrun EXCEPT ![w] = NoRun]
    /\ future' = [future EXCEPT ![wrun[w]] = "done"]
    /\ UNCHANGED <<callerVars, cancelling, queue, attempts, envVars>>

\* A run whose task is gone fails before it asks for a lease; its future stays registered.
FailMissingTask(w) ==
    /\ wpc[w] = "missing"
    /\ FinishRun(wrun[w], "failed", backoffOf[wrun[w]])
    /\ EndRun(w)
    /\ UNCHANGED <<known, taskOf, duplicateOf, registered, active, historyVars>>

\* A worker step that only moves the worker.
StepWorker(w, s) ==
    /\ MoveWorker(w, s)
    /\ UNCHANGED <<storeVars, callerVars, cancelling, executorVars, wrun, attempts, active,
                   envVars, historyVars>>

AcquireLease(w) ==
    /\ wpc[w] = "acquiring"
    /\ active[Group(wrun[w])] < Limit[Group(wrun[w])]
    /\ active' = [active EXCEPT ![Group(wrun[w])] = @ + 1]
    /\ MoveWorker(w, "leased")
    /\ UNCHANGED <<storeVars, callerVars, cancelling, executorVars, wrun, attempts, envVars,
                   historyVars>>

\* on_wait runs _mark_waiting: read the run, and if it is active ...
ObserveWaiting(w) ==
    /\ wpc[w] = "acquiring"
    /\ active[Group(wrun[w])] >= Limit[Group(wrun[w])]
    /\ status[wrun[w]] \in Active
    /\ StepWorker(w, "marking")

\* ... write it back as queued.
MarkWaiting(w) ==
    /\ wpc[w] = "marking"
    /\ MarkRun(wrun[w], "queued")
    /\ MoveWorker(w, "acquiring")
    /\ UNCHANGED <<callerVars, cancelling, executorVars, wrun, attempts, active, envVars,
                   historyVars>>

\* The status becomes running whatever it was, and run_collector is called.
StartRun(w) ==
    /\ wpc[w] = "leased"
    /\ MarkRun(wrun[w], "running")
    /\ attempts' = [attempts EXCEPT ![wrun[w]] = @ + 1]
    /\ MoveWorker(w, "collecting")
    /\ UNCHANGED <<callerVars, cancelling, executorVars, wrun, active, envVars, historyVars>>

CollectorReturns(w) ==
    /\ wpc[w] = "collecting"
    /\ collected' = collected \cup {wrun[w]}
    /\ MoveWorker(w, "returned")
    /\ UNCHANGED <<storeVars, callerVars, cancelling, executorVars, wrun, attempts, active,
                   envVars, cancelled, penalty, reported>>

\* _should_apply_failure_backoff tells the two kinds of exception apart.
CollectorRaises(w) ==
    /\ wpc[w] = "collecting"
    /\ \E kind \in {"raised_transient", "raised_permanent"} : StepWorker(w, kind)

ReleaseLease(r) ==
    active' = [active EXCEPT ![Group(r)] = IF @ > 0 THEN @ - 1 ELSE 0]

\* The finally block: release the lease, forget the future.
FinishLease(w) ==
    /\ wpc[w] = "returned"
    /\ ReleaseLease(wrun[w])
    /\ registered' = registered \ {wrun[w]}
    /\ MoveWorker(w, "released")
    /\ UNCHANGED <<storeVars, callerVars, cancelling, queue, future, wrun, attempts, envVars,
                   historyVars>>

CheckCancelled(w) ==
    /\ wpc[w] = "released"
    /\ \/ /\ status[wrun[w]] = "cancelled"
          /\ EndRun(w)
          /\ UNCHANGED <<storeVars, registered, active, historyVars>>
       \/ /\ status[wrun[w]] # "cancelled"
          /\ StepWorker(w, "succeeding")

WriteSuccess(w) ==
    /\ wpc[w] = "succeeding"
    /\ FinishRun(wrun[w], "success", NoRun)
    /\ penalty' = [penalty EXCEPT ![taskOf[wrun[w]]] = NoRun]
    /\ EndRun(w)
    /\ UNCHANGED <<known, taskOf, duplicateOf, registered, active, collected, cancelled, reported>>

\* Variant: one attempt too many.
AttemptsLeftInclusive(r) == attempts[r] <= MaxRetries[taskOf[r]] + 1

\* attempt < max_attempts
AttemptsLeft(r) == attempts[r] < MaxRetries[taskOf[r]] + 1

\* The except block reads the run once and decides.
InspectFailure(w) ==
    /\ wpc[w] \in {"raised_transient", "raised_permanent"}
    /\ StepWorker(w,
         IF status[wrun[w]] = "cancelled" THEN "closing"
         ELSE IF wpc[w] = "raised_permanent" THEN "failing"
         ELSE IF AttemptsLeft(wrun[w]) THEN "retrying"
         ELSE "backing_off")

\* Variant: the run goes back to the status no other code knows.
WriteRetryPending(w) ==
    /\ wpc[w] = "retrying"
    /\ MarkRun(wrun[w], "pending")
    /\ MoveWorker(w, "retry_queued")
    /\ UNCHANGED <<callerVars, cancelling, executorVars, wrun, attempts, active, envVars,
                   historyVars>>

WriteRetry(w) ==
    /\ wpc[w] = "retrying"
    /\ MarkRun(wrun[w], "queued")
    /\ MoveWorker(w, "retry_queued")
    /\ UNCHANGED <<callerVars, cancelling, executorVars, wrun, attempts, active, envVars,
                   historyVars>>

\* Variant: the lease is kept while the run waits to be tried again.
ReleaseForRetryKeepsLease(w) ==
    /\ wpc[w] = "retry_queued"
    /\ MoveWorker(w, "acquiring")
    /\ UNCHANGED <<storeVars, callerVars, cancelling, executorVars, wrun, attempts, active,
                   envVars, historyVars>>

ReleaseForRetry(w) ==
    /\ wpc[w] = "retry_queued"
    /\ ReleaseLease(wrun[w])
    /\ MoveWorker(w, "acquiring")
    /\ UNCHANGED <<storeVars, callerVars, cancelling, executorVars, wrun, attempts, envVars,
                   historyVars>>

\* backoff_until is set for the failures worth retrying.
WriteFailure(w) ==
    /\ wpc[w] \in {"backing_off", "failing"}
    /\ LET b == IF wpc[w] = "backing_off" THEN wrun[w] ELSE NoRun IN
       /\ FinishRun(wrun[w], "failed", b)
       /\ penalty' = [penalty EXCEPT ![taskOf[wrun[w]]] = IF b = NoRun THEN @ ELSE b]
    /\ MoveWorker(w, "closing")
    /\ UNCHANGED <<known, taskOf, duplicateOf, callerVars, cancelling, executorVars, wrun,
                   attempts, active, envVars, collected, cancelled, reported>>

\* Variant: the lease of a failed run is never given back.
CloseFailedKeepsLease(w) ==
    /\ wpc[w] = "closing"
    /\ registered' = registered \ {wrun[w]}
    /\ EndRun(w)
    /\ UNCHANGED <<storeVars, active, historyVars>>

CloseFailed(w) ==
    /\ wpc[w] = "closing"
    /\ ReleaseLease(wrun[w])
    /\ registered' = registered \ {wrun[w]}
    /\ EndRun(w)
    /\ UNCHANGED <<storeVars, historyVars>>

-----------------------------------------------------------------------------
(***************************************************************************)
(* The process stops: threads, futures and leases are gone, the file stays.*)
(***************************************************************************)
Crash ==
    /\ up
    /\ up' = FALSE
    /\ cpc' = [c \in Caller |-> "idle"]
    /\ crun' = [c \in Caller |-> NoRun]
    /\ ctask' = [c \in Caller |-> NoTask]
    /\ ccopy' = [c \in Caller |-> NoRecord]
    /\ cancelling' = {}
    /\ queue' = <<>>
    /\ future' = [r \in Run |-> "none"]
    /\ registered' = {}
    /\ wpc' = [w \in Worker |-> "idle"]
    /\ wrun' = [w \in Worker |-> NoRun]
    /\ active' = [g \in ResourceGroup |-> 0]
    /\ UNCHANGED <<storeVars, attempts, available, expired, historyVars>>

\* start_loop of the next process runs recover_interrupted_runs before it serves.
\* Variant: runs that were only queued are left behind.
InterruptedRunning == {r \in Run : status[r] = "running"}

Interrupted == {r \in Run : status[r] \in Active}

RecoverInterruptedRuns ==
    /\ ~up
    /\ up' = TRUE
    /\ status' = [r \in Run |-> IF r \in Interrupted THEN "failed" ELSE status[r]]
    /\ \E last \in [Task -> Run \cup {NoRun}] :
         /\ \A t \in Task :
              LET mine == {r \in Interrupted : taskOf[r] = t} IN
              IF t \in known /\ mine # {} THEN last[t] \in mine ELSE last[t] = NoRun
         /\ tasks' = [t \in Task |-> IF last[t] = NoRun THEN tasks[t]
                                     ELSE Summarised(t, backoffOf[last[t]])[t]]
    /\ UNCHANGED <<known, taskOf, duplicateOf, backoffOf, callerVars, cancelling, executorVars,
                   workerVars, available, expired, historyVars>>

\* next_run_at of an enabled task comes.
BecomeDue(t) ==
    /\ t \in known
    /\ tasks[t].enabled
    /\ ~tasks[t].due
    /\ tasks' = [tasks EXCEPT ![t] = [@ EXCEPT !.due = TRUE]]
    /\ UNCHANGED <<known, status, taskOf, duplicateOf, backoffOf, callerVars, cancelling,
                   executorVars, workerVars, envVars, historyVars>>

\* A plugin is enabled or disabled, a dataset becomes available or is lost.
FlipAvailable(t) ==
    /\ available' = IF t \in available THEN available \ {t} ELSE available \cup {t}
    /\ UNCHANGED <<storeVars, callerVars, cancelling, executorVars, workerVars, up, expired,
                   historyVars>>

\* The backoff_until that failed run r set passes.
BackoffExpires(r) ==
    /\ backoffOf[r] = r
    /\ r \notin expired
    /\ expired' = expired \cup {r}
    /\ UNCHANGED <<storeVars, callerVars, cancelling, executorVars, workerVars, up, available,
                   historyVars>>

CallerStep(c) ==
    \/ RefreshTask(c) \/ ClaimDue(c) \/ RefreshSubmitted(c)
    \/ \E r \in Run : CreateRun(c, r)
    \/ SkipDisabled(c) \/ FailUnresolved(c) \/ SkipBackoff(c) \/ PassChecks(c)
    \/ FindDuplicate(c) \/ SkipDuplicate(c)
    \/ SubmitFuture(c) \/ RegisterFuture(c)
    \/ LookUpFuture(c) \/ FutureResult(c) \/ ReadResult(c)

WorkerStep(w) ==
    \/ TakeRun(w) \/ FailMissingTask(w) \/ AcquireLease(w) \/ ObserveWaiting(w) \/ MarkWaiting(w) \/ StartRun(w)
    \/ CollectorReturns(w) \/ CollectorRaises(w)
    \/ FinishLease(w) \/ CheckCancelled(w) \/ WriteSuccess(w)
    \/ InspectFailure(w) \/ WriteRetry(w) \/ ReleaseForRetry(w)
    \/ WriteFailure(w) \/ CloseFailed(w)

\* The threads of the service, and the calls that start one.
ServiceNext ==
    \/ \E c \in Caller : CallerStep(c)
    \/ \E c \in Caller, t \in Task : ReadTask(c, t)
    \/ \E r \in Run : WriteCancelled(r)
    \/ \E w \in Worker : WorkerStep(w)
    \/ RecoverInterruptedRuns

\* What users, time and the machine do to it.
EnvironmentNext ==
    \/ \E c \in Submitter, t \in Task, b \in BOOLEAN : SetEnabled(c, t, b)
    \/ \E t \in Task : DeleteTask(t) \/ BecomeDue(t) \/ FlipAvailable(t)
    \/ \E r \in Run : CancelFuture(r) \/ BackoffExpires(r)
    \/ Crash

Next == ServiceNext \/ EnvironmentNext

Spec == Init /\ [][Next]_vars

-----------------------------------------------------------------------------
\* Every variable has its type; sequences and counters have no bound of their own.
TypeOK ==
    /\ tasks \in [Task -> TaskRecord]
    /\ known \subseteq Task
    /\ status \in [Run -> Status]
    /\ taskOf \in [Run -> Task \cup {NoTask}]
    /\ duplicateOf \in [Run -> Run \cup {NoRun}]
    /\ backoffOf \in [Run -> Run \cup {NoRun}]
    /\ cpc \in [Caller -> CallerState]
    /\ crun \in [Caller -> Run \cup {NoRun}]
    /\ ctask \in [Caller -> Task \cup {NoTask}]
    /\ ccopy \in [Caller -> TaskRecord]
    /\ cancelling \subseteq Run
    /\ queue \in Seq(Run)
    /\ future \in [Run -> FutureState]
    /\ registered \subseteq Run
    /\ wpc \in [Worker -> WorkerState]
    /\ wrun \in [Worker -> Run \cup {NoRun}]
    /\ attempts \in [Run -> Nat]
    /\ active \in [ResourceGroup -> Nat]
    /\ up \in BOOLEAN
    /\ available \subseteq Task
    /\ expired \subseteq Run
    /\ collected \subseteq Run
    /\ cancelled \subseteq Run
    /\ penalty \in [Task -> Run \cup {NoRun}]
    /\ reported \in [Run -> Status]

(***************************************************************************)
(* The limiter counts exactly the workers that hold a lease of a group,    *)
(* through retries, failures and cancellations, and never lets more than   *)
(* the group's limit collect at the same time: no path of _execute_run     *)
(* leaks a lease or gives one back twice.                                  *)
(***************************************************************************)
Holders(g) == {w \in Worker : wpc[w] \in Leased /\ Group(wrun[w]) = g}

LeaseAccounting ==
    \A g \in ResourceGroup : active[g] = Cardinality(Holders(g)) /\ active[g] <= Limit[g]

(***************************************************************************)
(* Each caller first writes its run as queued and only then looks for      *)
(* another active run, so of several concurrent submissions of one task at *)
(* most one is left with a live future.  A run somebody cancelled does not *)
(* count: its work may go on while the next run of the task is admitted.   *)
(***************************************************************************)
Live(r) == future[r] \in {"pending", "running"} /\ status[r] \in Active

OneLiveRunPerTask ==
    \A r, q \in Run \ cancelled :
        Live(r) /\ Live(q) /\ taskOf[r] = taskOf[q] => r = q

(***************************************************************************)
(* While the process is up, a run that the file calls active is on its way *)
(* to a final status: a caller is still deciding about it, it waits in the *)
(* queue, a worker executes it, or a cancel_run call is about to write it. *)
(* An active run nobody works on would block its task for ever, because    *)
(* every later submission would be skipped as its duplicate.               *)
(***************************************************************************)
Deciding == {"created", "checking", "duplicate", "unique"}

InHand(r) ==
    \/ \E c \in Caller : cpc[c] \in Deciding /\ crun[c] = r
    \/ future[r] = "pending" /\ \E i \in DOMAIN queue : queue[i] = r
    \/ future[r] = "running" /\ \E w \in Worker : wpc[w] # "idle" /\ wrun[w] = r
    \/ r \in cancelling

NoOrphanRun == up => \A r \in Run : status[r] \in Active => InHand(r)

(***************************************************************************)
(* The recorded outcome tells what happened: a successful run's collector  *)
(* returned, a skipped run never called one, and a run puts its task in    *)
(* backoff only after every attempt it was allowed.                        *)
(***************************************************************************)
OutcomeMatchesWork ==
    \A r \in Run :
        /\ status[r] = "success" => r \in collected
        /\ status[r] = "skipped" => attempts[r] = 0
        /\ backoffOf[r] = r => attempts[r] = MaxRetries[taskOf[r]] + 1
        /\ taskOf[r] # NoTask => attempts[r] <= MaxRetries[taskOf[r]] + 1

\* Only cancel_run disturbs a final status; recovery, retries and waiting never do.
FinalUnlessCancelled ==
    [][\A r \in Run : status[r] \in Final /\ status'[r] # status[r] => r \in cancelled']_vars

(***************************************************************************)
(* The callers, workers, the limiter and the file together do with the     *)
(* runs what TaskRuns says: through all interleavings of submissions,      *)
(* retries, cancellations and restarts one run of a task collects at a     *)
(* time unless it was cancelled, and is closed as its collector ended.     *)
(***************************************************************************)
Collecting == {wrun[w] : w \in {v \in Worker : wpc[v] = "collecting"}}

Runs == INSTANCE TaskRuns WITH collecting <- Collecting

RunsSpec == Runs!Spec

(***************************************************************************)
(* The threads of the service run until they are done; the operator        *)
(* restarts a stopped service.  Nobody has to submit or to cancel a run.   *)
(***************************************************************************)
Fairness ==
    /\ \A c \in Caller : WF_vars(CallerStep(c))
    /\ \A w \in Worker : WF_vars(WorkerStep(w))
    /\ \A r \in Run : WF_vars(WriteCancelled(r))
    /\ WF_vars(RecoverInterruptedRuns)

\* Every run that is created gets a final status, whatever the other runs of its group do.
EveryRunEnds ==
    \A r \in Run : status[r] = "queued" ~> status[r] \in Final

\* wait_for_run does not block for ever on the future of a run.
EveryWaitEnds ==
    \A c \in Caller : cpc[c] = "blocked" ~> cpc[c] = "idle"

-----------------------------------------------------------------------------
(***************************************************************************)
(* What the documentation and the messages of the scheduler say of it, and *)
(* its code does not keep.                                                 *)
(***************************************************************************)
\* "Active duplicate run ... is already queued or running": that run is not refused itself.
DuplicateIsNotRefused ==
    \A r, q \in Run :
        duplicateOf[r] = q /\ status[r] = "skipped" => status[q] # "skipped"

\* During a failed run's backoff, while nothing succeeded since, its task is in backoff.
BackoffIsKept ==
    \A t \in known : penalty[t] # NoRun /\ penalty[t] \notin expired => InBackoff(tasks[t])
=============================================================================
