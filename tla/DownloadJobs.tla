----------------------------- MODULE DownloadJobs -----------------------------
(***************************************************************************)
(* The background jobs of the API (apps/api/downloader_routes.py): jobs    *)
(* are created by requests and by the schedule tick, wait for connections  *)
(* of their resource group and for the lock of their output, run a         *)
(* downloader or a collector, and record success or a backoff.             *)
(*                                                                         *)
(* A signature stands for what is downloaded with which options; the lock  *)
(* key, the files that are written, the resource group and the connections *)
(* follow from it.  What each job is for is given: a request or a tick     *)
(* brings it along.  Progress only rewrites the status running, and is     *)
(* left out.                                                               *)
(***************************************************************************)
EXTENDS Naturals, Sequences, FiniteSets

CONSTANTS
    Job, Signature, Key, File, Group, Worker,
    ByTick,         \* the jobs that the schedule tick asks for
    SignatureOf,    \* run_signature of each job
    KeyOf,          \* output_lock_key of each signature
    FilesOf,        \* the output targets that a run with it writes
    GroupOf,        \* its resource group
    Requested,      \* connections it asks for
    Limit,          \* the limit it brings along
    None

ASSUME DownloadAssumption ==
    /\ ByTick \subseteq Job
    /\ SignatureOf \in [Job -> Signature]
    /\ KeyOf \in [Signature -> Key]
    /\ FilesOf \in [Signature -> SUBSET File]
    /\ GroupOf \in [Signature -> Group]
    /\ Requested \in [Signature -> Nat \ {0}]
    /\ Limit \in [Signature -> Nat]
    /\ \A s \in Signature : Limit[s] >= Requested[s]
    /\ None \notin Job

VARIABLES
    status,         \* status of each job
    today,          \* jobs that succeeded today
    backoff,        \* signatures with a failure backoff that has not passed
    handed,         \* jobs created but not yet given to the executor
    queue,          \* the executor's queue
    limits,         \* _limits of the resource manager
    used,           \* _used
    active,         \* _active of the output locks
    wpc,            \* where each worker is
    wjob            \* the job it runs

recordVars == <<status, today, backoff>>
lockVars == <<limits, used, active>>
vars == <<recordVars, handed, queue, lockVars, wpc, wjob>>

\* Variant: a job that waits for its output is not found as a duplicate.
ActiveStatusNoOutput == {"queued", "waiting_resource", "running"}

\* _ACTIVE_JOB_STATUSES
ActiveStatus == {"queued", "waiting_resource", "waiting_output", "running"}

Status == {"absent", "queued", "waiting_resource", "waiting_output", "running",
           "success", "failed", "skipped"}
WorkerState == {"idle", "entering", "marking", "waiting", "granted", "locking", "markingOutput",
                "waitingOutput", "locked", "working", "recording", "closing", "unlocking",
                "releasing", "finishing", "clearing"}

Init ==
    /\ status = [j \in Job |-> "absent"]
    /\ today = {} /\ backoff = {} /\ handed = {}
    /\ queue = <<>>
    /\ limits = [g \in Group |-> 0]
    /\ used = [g \in Group |-> 0]
    /\ active = {}
    /\ wpc = [w \in Worker |-> "idle"]
    /\ wjob = [w \in Worker |-> None]

-----------------------------------------------------------------------------
(***************************************************************************)
(* Creating jobs: one step, under the lock of the jobs.                    *)
(***************************************************************************)
ActiveDuplicate(s) == \E j \in Job : SignatureOf[j] = s /\ status[j] \in ActiveStatus

\* Variant: only a success by hand keeps the schedule from running again.
SucceededTodayByHand(s) == \E j \in today \ ByTick : SignatureOf[j] = s

\* A success with the same schedule_run_key is one of the same day.
SucceededToday(s) == \E j \in today : SignatureOf[j] = s

Skips(j) ==
    \/ j \in ByTick /\ SignatureOf[j] \in backoff
    \/ ActiveDuplicate(SignatureOf[j])
    \/ j \in ByTick /\ SucceededToday(SignatureOf[j])

CreateJob(j) ==
    /\ status[j] = "absent"
    /\ status' = [status EXCEPT ![j] = IF Skips(j) THEN "skipped" ELSE "queued"]
    /\ handed' = IF Skips(j) THEN handed ELSE handed \cup {j}
    /\ UNCHANGED <<today, backoff, queue, lockVars, wpc, wjob>>

\* _executor.submit
SubmitJob(j) ==
    /\ j \in handed
    /\ handed' = handed \ {j}
    /\ queue' = Append(queue, j)
    /\ UNCHANGED <<recordVars, lockVars, wpc, wjob>>

-----------------------------------------------------------------------------
(***************************************************************************)
(* Running a job: _run_download_job, and _run_collector_job alike.         *)
(***************************************************************************)
Sig(w) == SignatureOf[wjob[w]]
LockKey(w) == KeyOf[Sig(w)]
Res(w) == GroupOf[Sig(w)]

Go(w, s) == wpc' = [wpc EXCEPT ![w] = s] /\ UNCHANGED wjob

Leave(w) ==
    /\ wpc' = [wpc EXCEPT ![w] = "idle"]
    /\ wjob' = [wjob EXCEPT ![w] = None]

\* _update_job
SetStatus(w, s) == status' = [status EXCEPT ![wjob[w]] = s]

TakeJob(w) ==
    /\ wpc[w] = "idle"
    /\ queue # <<>>
    /\ wjob' = [wjob EXCEPT ![w] = Head(queue)]
    /\ queue' = Tail(queue)
    /\ wpc' = [wpc EXCEPT ![w] = "entering"]
    /\ UNCHANGED <<recordVars, handed, lockVars>>

Least(m, n) == IF m < n THEN m ELSE n
Most(m, n) == IF m < n THEN n ELSE m

\* Always what was requested, because no limit is below it.
Granted(w, lims) == Least(Requested[Sig(w)], lims[Res(w)])

\* Variant: there is room as long as the limit is not reached.
FitsBelow(w, lims) == used[Res(w)] < lims[Res(w)]

Fits(w, lims) == used[Res(w)] + Granted(w, lims) <= lims[Res(w)]

\* Acquire the connections, or call on_wait without the lock and wait.
TryAcquire(w, lims) ==
    \/ /\ Fits(w, lims)
       /\ used' = [used EXCEPT ![Res(w)] = @ + Granted(w, lims)]
       /\ Go(w, "granted")
    \/ /\ ~Fits(w, lims)
       /\ Go(w, "marking")
       /\ UNCHANGED used

EnterGroup(w) ==
    /\ wpc[w] = "entering"
    /\ limits' = [limits EXCEPT ![Res(w)] = Most(@, Limit[Sig(w)])]
    /\ TryAcquire(w, limits')
    /\ UNCHANGED <<recordVars, handed, queue, active>>

MarkWaiting(w) ==
    /\ wpc[w] = "marking"
    /\ SetStatus(w, "waiting_resource")
    /\ Go(w, "waiting")
    /\ UNCHANGED <<today, backoff, handed, queue, lockVars>>

\* Woken by a release, or after half a second.
LookAgain(w) ==
    /\ wpc[w] = "waiting"
    /\ TryAcquire(w, limits)
    /\ UNCHANGED <<recordVars, handed, queue, limits, active>>

StartJob(w) ==
    /\ wpc[w] = "granted"
    /\ SetStatus(w, "running")
    /\ Go(w, "locking")
    /\ UNCHANGED <<today, backoff, handed, queue, lockVars>>

\* Variant: a waiter that wakes up takes the lock without looking again.
MayLockAwake(w) == LockKey(w) \notin active \/ wpc[w] = "waitingOutput"

MayLock(w) == LockKey(w) \notin active

LockOutput(w) ==
    /\ wpc[w] \in {"locking", "waitingOutput"}
    /\ \/ MayLock(w) /\ active' = active \cup {LockKey(w)} /\ Go(w, "locked")
       \/ ~MayLock(w) /\ Go(w, "markingOutput") /\ UNCHANGED active
    /\ UNCHANGED <<recordVars, handed, queue, limits, used>>

\* Variant: a job that waits for its output is marked with a status that there is not.
MarkWaitingLock(w) ==
    /\ wpc[w] = "markingOutput"
    /\ SetStatus(w, "waiting_lock")
    /\ Go(w, "waitingOutput")
    /\ UNCHANGED <<today, backoff, handed, queue, lockVars>>

MarkWaitingOutput(w) ==
    /\ wpc[w] = "markingOutput"
    /\ SetStatus(w, "waiting_output")
    /\ Go(w, "waitingOutput")
    /\ UNCHANGED <<today, backoff, handed, queue, lockVars>>

BeginWork(w) ==
    /\ wpc[w] = "locked"
    /\ SetStatus(w, "running")
    /\ Go(w, "working")
    /\ UNCHANGED <<today, backoff, handed, queue, lockVars>>

\* run_downloader or run_collector returns or raises; some errors set no backoff.
EndWork(w) ==
    /\ wpc[w] = "working"
    /\ \E s \in {"unlocking", "recording", "closing"} : Go(w, s)
    /\ UNCHANGED <<recordVars, handed, queue, lockVars>>

RecordBackoff(w) ==
    /\ wpc[w] = "recording"
    /\ backoff' = backoff \cup {Sig(w)}
    /\ Go(w, "closing")
    /\ UNCHANGED <<status, today, handed, queue, lockVars>>

CloseFailed(w) ==
    /\ wpc[w] = "closing"
    /\ SetStatus(w, "failed")
    /\ Go(w, "unlocking")
    /\ UNCHANGED <<today, backoff, handed, queue, lockVars>>

\* Variant: only a success gives the output back.
FreedAfterSuccess(w) == IF status[wjob[w]] = "failed" THEN {} ELSE {LockKey(w)}

Freed(w) == {LockKey(w)}

\* The finally block; neither acquire raises, so a job that fails has both leases.
UnlockOutput(w) ==
    /\ wpc[w] = "unlocking"
    /\ active' = active \ Freed(w)
    /\ Go(w, "releasing")
    /\ UNCHANGED <<recordVars, handed, queue, limits, used>>

\* Releases what was granted; a job that has failed returns.
ReleaseConnections(w) ==
    /\ wpc[w] = "releasing"
    /\ used' = [used EXCEPT ![Res(w)] = Most(@, Requested[Sig(w)]) - Requested[Sig(w)]]
    /\ IF status[wjob[w]] = "failed" THEN Leave(w) ELSE Go(w, "finishing")
    /\ UNCHANGED <<recordVars, handed, queue, limits, active>>

FinishJob(w) ==
    /\ wpc[w] = "finishing"
    /\ SetStatus(w, "success")
    /\ today' = today \cup {wjob[w]}
    /\ Go(w, "clearing")
    /\ UNCHANGED <<backoff, handed, queue, lockVars>>

ClearBackoff(w) ==
    /\ wpc[w] = "clearing"
    /\ backoff' = backoff \ {Sig(w)}
    /\ Leave(w)
    /\ UNCHANGED <<status, today, handed, queue, lockVars>>

-----------------------------------------------------------------------------
(***************************************************************************)
(* Time.                                                                   *)
(***************************************************************************)
BackoffPasses(s) ==
    /\ s \in backoff
    /\ backoff' = backoff \ {s}
    /\ UNCHANGED <<status, today, handed, queue, lockVars, wpc, wjob>>

NewDay ==
    /\ today # {}
    /\ today' = {}
    /\ UNCHANGED <<status, backoff, handed, queue, lockVars, wpc, wjob>>

WorkerStep(w) ==
    \/ TakeJob(w) \/ EnterGroup(w) \/ MarkWaiting(w) \/ LookAgain(w) \/ StartJob(w)
    \/ LockOutput(w) \/ MarkWaitingOutput(w) \/ BeginWork(w) \/ EndWork(w)
    \/ RecordBackoff(w) \/ CloseFailed(w) \/ UnlockOutput(w) \/ ReleaseConnections(w)
    \/ FinishJob(w) \/ ClearBackoff(w)

Next ==
    \/ \E j \in Job : CreateJob(j) \/ SubmitJob(j)
    \/ \E w \in Worker : WorkerStep(w)
    \/ \E s \in Signature : BackoffPasses(s)
    \/ NewDay

Spec == Init /\ [][Next]_vars

\* Threads go on: whoever created a job submits it, workers run, a downloader returns or raises.
\* Nobody has to ask for a job.
Fairness ==
    /\ \A j \in Job : WF_vars(SubmitJob(j))
    /\ \A w \in Worker : WF_vars(WorkerStep(w))

FairSpec == Spec /\ Fairness

-----------------------------------------------------------------------------
\* Every variable has its type, and a worker has a job unless it is idle.
TypeOK ==
    /\ status \in [Job -> Status]
    /\ today \subseteq Job /\ handed \subseteq Job
    /\ backoff \subseteq Signature
    /\ queue \in Seq(Job)
    /\ limits \in [Group -> Nat] /\ used \in [Group -> Nat]
    /\ active \subseteq Key
    /\ wpc \in [Worker -> WorkerState]
    /\ wjob \in [Worker -> Job \cup {None}]
    /\ \A w \in Worker : wpc[w] = "idle" <=> wjob[w] = None

HasConnections(w) ==
    wpc[w] \in {"granted", "locking", "markingOutput", "waitingOutput", "locked", "working",
                "recording", "closing", "unlocking", "releasing"}

\* The connections of a lease, and those of all the leases of a group.
ConnectionsOf(w) == {w} \X (1 .. Requested[Sig(w)])

Connections(g) == UNION {ConnectionsOf(w) : w \in {v \in Worker : HasConnections(v) /\ Res(v) = g}}

(***************************************************************************)
(* The connections counted as used are those of the jobs that hold a       *)
(* lease, and never more than the limit of the group, which the signatures *)
(* of one group may raise while others wait.                               *)
(***************************************************************************)
ConnectionsAccounted ==
    \A g \in Group : used[g] = Cardinality(Connections(g)) /\ used[g] <= limits[g]

Files(w) == FilesOf[Sig(w)]

(***************************************************************************)
(* No two jobs run at the same time that write one of their files both:    *)
(* each has the lock of its output then, whatever it had to wait for.      *)
(***************************************************************************)
ExclusiveOutput ==
    \A v, w \in Worker :
        wpc[v] = "working" /\ wpc[w] = "working" /\ v # w => Files(v) \cap Files(w) = {}

(***************************************************************************)
(* Of the jobs with the same signature at most one is active: the search   *)
(* for duplicates sees a job in whatever it waits for.                     *)
(***************************************************************************)
OneActivePerSignature ==
    \A i, j \in Job :
        /\ status[i] \in {"queued", "waiting_resource", "waiting_output", "running"}
        /\ status[j] \in {"queued", "waiting_resource", "waiting_output", "running"}
        /\ SignatureOf[i] = SignatureOf[j]
        => i = j

(***************************************************************************)
(* The schedule succeeds once a day with the same signature, although a    *)
(* job may be created while another is on its way to success.              *)
(***************************************************************************)
OneScheduledSuccessPerDay ==
    \A i, j \in today \cap ByTick : SignatureOf[i] = SignatureOf[j] => i = j

(***************************************************************************)
(* Every job that was not skipped ends, although it may wait for           *)
(* connections and then, holding them, for its output.                     *)
(***************************************************************************)
EveryJobEnds ==
    \A j \in Job : status[j] = "queued" ~> status[j] \in {"success", "failed"}
=============================================================================
