-------------------------- MODULE DownloadJobsProofs --------------------------
(***************************************************************************)
(* Proofs about DownloadJobs, for any numbers of jobs, signatures and      *)
(* workers.                                                                *)
(***************************************************************************)
EXTENDS DownloadJobs, FiniteSetTheorems, TLAPS

\* Where a worker holds the lock of its output.
LockStates == {"locked", "working", "recording", "closing", "unlocking"}
HasLock(w) == wpc[w] \in LockStates

\* Where the job of a worker has not ended.
RunStates == WorkerState \ {"idle", "unlocking", "releasing", "clearing"}
Runs(w) == wpc[w] \in RunStates

\* A job is handed over, queued or run, once.
JobsOnce ==
    /\ \A v, w \in Worker : wjob[v] = wjob[w] /\ wjob[v] # None => v = w
    /\ \A i, k \in 1..Len(queue) : queue[i] = queue[k] => i = k
    /\ \A i \in 1..Len(queue) : queue[i] \notin handed
    /\ \A i \in 1..Len(queue), w \in Worker : wjob[w] # queue[i]
    /\ \A w \in Worker : wjob[w] \notin handed

\* The status of a job follows from where it is.
StatusFits ==
    /\ \A j \in handed : status[j] = "queued"
    /\ \A i \in 1..Len(queue) : status[queue[i]] = "queued"
    /\ \A w \in Worker : Runs(w) => status[wjob[w]] \in ActiveStatus
    /\ \A w \in Worker : wpc[w] \in {"unlocking", "releasing"} => status[wjob[w]] \in ActiveStatus \cup {"failed"}
    /\ \A w \in Worker : wpc[w] = "clearing" => status[wjob[w]] = "success"

\* Who holds a lock has its key marked, and nobody else holds it.
LocksHeld ==
    /\ \A w \in Worker : HasLock(w) => LockKey(w) \in active
    /\ \A v, w \in Worker : HasLock(v) /\ HasLock(w) /\ LockKey(v) = LockKey(w) => v = w

\* What succeeded today is over, the tick has started nothing like it since,
\* and of what the tick asked for once.
DayFits ==
    /\ \A j \in today : status[j] = "success"
    /\ \A i \in today, j \in ByTick : SignatureOf[i] = SignatureOf[j] => status[j] \notin ActiveStatus
    /\ \A i, j \in today \cap ByTick : SignatureOf[i] = SignatureOf[j] => i = j

IInv == TypeOK /\ JobsOnce /\ StatusFits /\ LocksHeld /\ OneActivePerSignature /\ DayFits

-----------------------------------------------------------------------------
(***************************************************************************)
(* Facts about the queue, and about the steps that only move a worker.     *)
(***************************************************************************)
LEMMA QueueTail ==
    ASSUME NEW q \in Seq(Job), q # <<>>
    PROVE  /\ Len(q) \in Nat \ {0} /\ Head(q) = q[1] /\ Head(q) \in Job
           /\ Tail(q) \in Seq(Job) /\ Len(Tail(q)) = Len(q) - 1
           /\ \A i \in 1..Len(Tail(q)) : i + 1 \in 1..Len(q) /\ Tail(q)[i] = q[i + 1]
  OBVIOUS

LEMMA QueueAppend ==
    ASSUME NEW q \in Seq(Job), NEW j \in Job
    PROVE  /\ Len(q) \in Nat
           /\ Append(q, j) \in Seq(Job) /\ Len(Append(q, j)) = Len(q) + 1
           /\ \A i \in 1..Len(q) : Append(q, j)[i] = q[i] /\ q[i] \in Job
           /\ Append(q, j)[Len(q) + 1] = j
  OBVIOUS

\* A worker that is not idle has a job.
LEMMA HasJob == ASSUME TypeOK, NEW w \in Worker, wpc[w] # "idle" PROVE wjob[w] \in Job
  BY DEF TypeOK

\* A worker moves and nothing happens to its job.
LEMMA Moves ==
    ASSUME IInv, NEW w \in Worker, NEW s \in WorkerState,
           wpc' = [wpc EXCEPT ![w] = s],
           UNCHANGED <<status, today, handed, queue, wjob>>,
           s \in RunStates => status[wjob[w]] \in ActiveStatus,
           s \in {"unlocking", "releasing"} => status[wjob[w]] \in ActiveStatus \cup {"failed"},
           s # "clearing"
    PROVE  JobsOnce' /\ StatusFits' /\ OneActivePerSignature' /\ DayFits'
<1>1. \A v \in Worker : wpc'[v] = IF v = w THEN s ELSE wpc[v]
  BY DEF IInv, TypeOK
<1>2. StatusFits'
  BY <1>1 DEF IInv, StatusFits, Runs
<1> QED BY <1>2 DEF IInv, JobsOnce, OneActivePerSignature, DayFits

\* A worker marks its job with a status that keeps it active.
LEMMA Marks ==
    ASSUME IInv, NEW w \in Worker, NEW s \in RunStates, NEW st \in ActiveStatus,
           Runs(w), SetStatus(w, st),
           wpc' = [wpc EXCEPT ![w] = s],
           UNCHANGED <<today, handed, queue, wjob>>
    PROVE  JobsOnce' /\ StatusFits' /\ OneActivePerSignature' /\ DayFits'
<1>0. wjob[w] \in Job /\ status[wjob[w]] \in ActiveStatus
  BY HasJob DEF IInv, Runs, RunStates, StatusFits
<1>1. \A v \in Worker : wpc'[v] = IF v = w THEN s ELSE wpc[v]
  BY DEF IInv, TypeOK
<1>2. \A j \in Job : status'[j] = IF j = wjob[w] THEN st ELSE status[j]
  BY <1>0 DEF IInv, TypeOK, SetStatus
<1>3. \A v \in Worker : v # w /\ wpc[v] # "idle" => wjob[v] \in Job \ {wjob[w]}
  BY <1>0, HasJob, DownloadAssumption DEF IInv, JobsOnce
<1>4. /\ \A j \in handed : j \in Job \ {wjob[w]}
      /\ \A i \in 1..Len(queue) : queue[i] \in Job \ {wjob[w]}
  BY <1>0 DEF IInv, TypeOK, JobsOnce
<1>5. StatusFits'
  <2>1. /\ \A j \in handed' : status'[j] = "queued"
        /\ \A i \in 1..Len(queue') : status'[queue'[i]] = "queued"
    BY <1>2, <1>4 DEF IInv, StatusFits
  <2>2. ASSUME NEW v \in Worker
        PROVE  /\ Runs(v)' => status'[wjob'[v]] \in ActiveStatus
               /\ wpc'[v] \in {"unlocking", "releasing"} => status'[wjob'[v]] \in ActiveStatus \cup {"failed"}
               /\ wpc'[v] = "clearing" => status'[wjob'[v]] = "success"
    BY <1>0, <1>1, <1>2, <1>3 DEF IInv, StatusFits, Runs, RunStates
  <2> QED BY <2>1, <2>2 DEF StatusFits
<1>6. \A j \in Job : status'[j] \in ActiveStatus <=> status[j] \in ActiveStatus
  BY <1>0, <1>2
<1>7. OneActivePerSignature'
  BY <1>6 DEF IInv, OneActivePerSignature, ActiveStatus
<1>8. DayFits'
  BY <1>0, <1>2, <1>6, DownloadAssumption DEF IInv, DayFits, TypeOK, ActiveStatus
<1> QED BY <1>5, <1>7, <1>8 DEF IInv, JobsOnce

\* The job of a worker ends, with success or not.
LEMMA Ends ==
    ASSUME IInv, NEW w \in Worker, NEW s \in WorkerState, NEW st \in {"failed", "success"},
           Runs(w), SetStatus(w, st),
           wpc' = [wpc EXCEPT ![w] = s],
           \/ st = "failed" /\ s = "unlocking" /\ UNCHANGED today
           \/ st = "success" /\ s = "clearing" /\ today' = today \cup {wjob[w]},
           UNCHANGED <<handed, queue, wjob>>
    PROVE  JobsOnce' /\ StatusFits' /\ OneActivePerSignature' /\ DayFits'
<1>0. wjob[w] \in Job /\ status[wjob[w]] \in ActiveStatus
  BY HasJob DEF IInv, Runs, RunStates, StatusFits
<1>1. \A v \in Worker : wpc'[v] = IF v = w THEN s ELSE wpc[v]
  BY DEF IInv, TypeOK
<1>2. \A j \in Job : status'[j] = IF j = wjob[w] THEN st ELSE status[j]
  BY <1>0 DEF IInv, TypeOK, SetStatus
<1>3. \A v \in Worker : v # w /\ wpc[v] # "idle" => wjob[v] \in Job \ {wjob[w]}
  BY <1>0, HasJob, DownloadAssumption DEF IInv, JobsOnce
<1>4. /\ \A j \in handed : j \in Job \ {wjob[w]}
      /\ \A i \in 1..Len(queue) : queue[i] \in Job \ {wjob[w]}
  BY <1>0 DEF IInv, TypeOK, JobsOnce
<1>5. StatusFits'
  <2>1. /\ \A j \in handed' : status'[j] = "queued"
        /\ \A i \in 1..Len(queue') : status'[queue'[i]] = "queued"
    BY <1>2, <1>4 DEF IInv, StatusFits
  <2>2. ASSUME NEW v \in Worker
        PROVE  /\ Runs(v)' => status'[wjob'[v]] \in ActiveStatus
               /\ wpc'[v] \in {"unlocking", "releasing"} => status'[wjob'[v]] \in ActiveStatus \cup {"failed"}
               /\ wpc'[v] = "clearing" => status'[wjob'[v]] = "success"
    BY <1>0, <1>1, <1>2, <1>3 DEF IInv, StatusFits, Runs, RunStates
  <2> QED BY <2>1, <2>2 DEF StatusFits
<1>6. \A j \in Job : status'[j] \in ActiveStatus => status[j] \in ActiveStatus /\ j # wjob[w]
  BY <1>2 DEF ActiveStatus
<1>7. OneActivePerSignature'
  BY <1>6 DEF IInv, OneActivePerSignature, ActiveStatus
<1>8. DayFits'
  <2>1. \A j \in today' : j \in Job /\ status'[j] = "success"
    BY <1>0, <1>2 DEF IInv, DayFits, TypeOK, ActiveStatus
  <2>2. ASSUME NEW i \in today', NEW j \in ByTick, SignatureOf[i] = SignatureOf[j]
        PROVE  status'[j] \notin ActiveStatus
    BY <1>0, <1>6, <2>2, DownloadAssumption DEF IInv, DayFits, OneActivePerSignature, ActiveStatus
  <2>3. \A i \in today \cap ByTick : SignatureOf[i] = SignatureOf[wjob[w]] => wjob[w] \notin ByTick
    BY <1>0 DEF IInv, DayFits
  <2>4. \A i, j \in today' \cap ByTick : SignatureOf[i] = SignatureOf[j] => i = j
    BY <2>3 DEF IInv, DayFits
  <2> QED BY <2>1, <2>2, <2>4 DEF DayFits
<1> QED BY <1>5, <1>7, <1>8 DEF IInv, JobsOnce

\* Who has the lock keeps it, and nobody else gets one.
LEMMA LocksKept ==
    ASSUME IInv, NEW w \in Worker, NEW s \in WorkerState,
           wpc' = [wpc EXCEPT ![w] = s],
           UNCHANGED active,
           \A v \in Worker \ {w} : wjob'[v] = wjob[v],
           s \in LockStates => HasLock(w) /\ wjob'[w] = wjob[w]
    PROVE  LocksHeld'
<1>1. \A v \in Worker : HasLock(v)' => HasLock(v) /\ LockKey(v)' = LockKey(v)
  BY DEF IInv, TypeOK, HasLock, LockKey, Sig
<1> QED BY <1>1 DEF IInv, LocksHeld

-----------------------------------------------------------------------------
(***************************************************************************)
(* Every step keeps the invariant.                                         *)
(***************************************************************************)
LEMMA InitInv == Init => IInv
<1> SUFFICES ASSUME Init PROVE IInv
  OBVIOUS
<1>1. TypeOK
  BY DownloadAssumption DEF Init, TypeOK, Status, WorkerState
<1>2. JobsOnce /\ StatusFits /\ LocksHeld /\ OneActivePerSignature /\ DayFits
  BY DEF Init, JobsOnce, StatusFits, Runs, RunStates, LocksHeld, HasLock, LockStates,
         OneActivePerSignature, DayFits
<1> QED BY <1>1, <1>2 DEF IInv

LEMMA EnterGroupInv == ASSUME IInv, NEW w \in Worker, EnterGroup(w) PROVE IInv'
<1> USE DEF EnterGroup, TryAcquire, Go, recordVars, lockVars
<1>0. TypeOK /\ wjob[w] \in Job
  BY HasJob DEF IInv
<1>1. PICK s \in {"granted", "marking"} : wpc' = [wpc EXCEPT ![w] = s]
  OBVIOUS
<1>2. GroupOf[Sig(w)] \in Group /\ Limit[Sig(w)] \in Nat /\ Requested[Sig(w)] \in Nat
  BY <1>0, DownloadAssumption DEF Sig
<1>3. limits' \in [Group -> Nat]
  BY <1>0, <1>2 DEF TypeOK, Most, Res
<1>4. used' \in [Group -> Nat]
  <2>1. Granted(w, limits') \in Nat /\ used[Res(w)] \in Nat
    BY <1>0, <1>2, <1>3 DEF TypeOK, Granted, Least, Res
  <2>2. CASE UNCHANGED used
    BY <1>0, <2>2 DEF TypeOK
  <2>3. CASE used' = [used EXCEPT ![Res(w)] = @ + Granted(w, limits')]
    <3>1. used[Res(w)] + Granted(w, limits') \in Nat
      BY <2>1
    <3> QED BY <1>0, <2>3, <3>1 DEF TypeOK
  <2> QED BY <2>2, <2>3
<1>5. TypeOK'
  BY <1>0, <1>1, <1>3, <1>4 DEF TypeOK, WorkerState
<1>6. status[wjob[w]] \in ActiveStatus /\ s \in WorkerState
  BY <1>1 DEF IInv, StatusFits, Runs, RunStates, WorkerState
<1>7. JobsOnce' /\ StatusFits' /\ OneActivePerSignature' /\ DayFits'
  BY <1>1, <1>6, Moves
<1>8. LocksHeld'
  BY <1>1, <1>6, LocksKept DEF LockStates
<1> QED BY <1>5, <1>7, <1>8 DEF IInv

LEMMA LookAgainInv == ASSUME IInv, NEW w \in Worker, LookAgain(w) PROVE IInv'
<1> USE DEF LookAgain, TryAcquire, Go, recordVars, lockVars
<1>0. TypeOK /\ wjob[w] \in Job
  BY HasJob DEF IInv
<1>1. PICK s \in {"granted", "marking"} : wpc' = [wpc EXCEPT ![w] = s]
  OBVIOUS
<1>2. GroupOf[Sig(w)] \in Group /\ Limit[Sig(w)] \in Nat /\ Requested[Sig(w)] \in Nat
  BY <1>0, DownloadAssumption DEF Sig
<1>3. limits' \in [Group -> Nat]
  BY <1>0, <1>2 DEF TypeOK, Most, Res
<1>4. used' \in [Group -> Nat]
  <2>1. Granted(w, limits') \in Nat /\ used[Res(w)] \in Nat
    BY <1>0, <1>2, <1>3 DEF TypeOK, Granted, Least, Res
  <2>2. CASE UNCHANGED used
    BY <1>0, <2>2 DEF TypeOK
  <2>3. CASE used' = [used EXCEPT ![Res(w)] = @ + Granted(w, limits')]
    <3>1. used[Res(w)] + Granted(w, limits') \in Nat
      BY <2>1
    <3> QED BY <1>0, <2>3, <3>1 DEF TypeOK
  <2> QED BY <2>2, <2>3
<1>5. TypeOK'
  BY <1>0, <1>1, <1>3, <1>4 DEF TypeOK, WorkerState
<1>6. status[wjob[w]] \in ActiveStatus /\ s \in WorkerState
  BY <1>1 DEF IInv, StatusFits, Runs, RunStates, WorkerState
<1>7. JobsOnce' /\ StatusFits' /\ OneActivePerSignature' /\ DayFits'
  BY <1>1, <1>6, Moves
<1>8. LocksHeld'
  BY <1>1, <1>6, LocksKept DEF LockStates
<1> QED BY <1>5, <1>7, <1>8 DEF IInv

LEMMA MarkWaitingInv == ASSUME IInv, NEW w \in Worker, MarkWaiting(w) PROVE IInv'
<1> USE DEF MarkWaiting, Go, recordVars, lockVars
<1>0. TypeOK /\ wjob[w] \in Job
  BY HasJob DEF IInv
<1>1. TypeOK'
  BY <1>0 DEF TypeOK, WorkerState, Status, SetStatus
<1>2. Runs(w) /\ "waiting" \in RunStates /\ "waiting_resource" \in ActiveStatus
  BY DEF Runs, RunStates, WorkerState, ActiveStatus
<1>3. JobsOnce' /\ StatusFits' /\ OneActivePerSignature' /\ DayFits'
  BY <1>2, Marks
<1>4. LocksHeld'
  BY <1>2, LocksKept DEF LockStates, HasLock, RunStates
<1> QED BY <1>1, <1>3, <1>4 DEF IInv

LEMMA StartJobInv == ASSUME IInv, NEW w \in Worker, StartJob(w) PROVE IInv'
<1> USE DEF StartJob, Go, recordVars, lockVars
<1>0. TypeOK /\ wjob[w] \in Job
  BY HasJob DEF IInv
<1>1. TypeOK'
  BY <1>0 DEF TypeOK, WorkerState, Status, SetStatus
<1>2. Runs(w) /\ "locking" \in RunStates /\ "running" \in ActiveStatus
  BY DEF Runs, RunStates, WorkerState, ActiveStatus
<1>3. JobsOnce' /\ StatusFits' /\ OneActivePerSignature' /\ DayFits'
  BY <1>2, Marks
<1>4. LocksHeld'
  BY <1>2, LocksKept DEF LockStates, HasLock, RunStates
<1> QED BY <1>1, <1>3, <1>4 DEF IInv

LEMMA MarkWaitingOutputInv == ASSUME IInv, NEW w \in Worker, MarkWaitingOutput(w) PROVE IInv'
<1> USE DEF MarkWaitingOutput, Go, recordVars, lockVars
<1>0. TypeOK /\ wjob[w] \in Job
  BY HasJob DEF IInv
<1>1. TypeOK'
  BY <1>0 DEF TypeOK, WorkerState, Status, SetStatus
<1>2. Runs(w) /\ "waitingOutput" \in RunStates /\ "waiting_output" \in ActiveStatus
  BY DEF Runs, RunStates, WorkerState, ActiveStatus
<1>3. JobsOnce' /\ StatusFits' /\ OneActivePerSignature' /\ DayFits'
  BY <1>2, Marks
<1>4. LocksHeld'
  BY <1>2, LocksKept DEF LockStates, HasLock, RunStates
<1> QED BY <1>1, <1>3, <1>4 DEF IInv

LEMMA BeginWorkInv == ASSUME IInv, NEW w \in Worker, BeginWork(w) PROVE IInv'
<1> USE DEF BeginWork, Go, recordVars, lockVars
<1>0. TypeOK /\ wjob[w] \in Job
  BY HasJob DEF IInv
<1>1. TypeOK'
  BY <1>0 DEF TypeOK, WorkerState, Status, SetStatus
<1>2. Runs(w) /\ "working" \in RunStates /\ "running" \in ActiveStatus
  BY DEF Runs, RunStates, WorkerState, ActiveStatus
<1>3. JobsOnce' /\ StatusFits' /\ OneActivePerSignature' /\ DayFits'
  BY <1>2, Marks
<1>4. LocksHeld'
  BY <1>2, LocksKept DEF LockStates, HasLock, RunStates
<1> QED BY <1>1, <1>3, <1>4 DEF IInv

LEMMA CloseFailedInv == ASSUME IInv, NEW w \in Worker, CloseFailed(w) PROVE IInv'
<1> USE DEF CloseFailed, Go, recordVars, lockVars
<1>0. TypeOK /\ wjob[w] \in Job
  BY HasJob DEF IInv
<1>1. TypeOK'
  BY <1>0 DEF TypeOK, WorkerState, Status, SetStatus
<1>2. Runs(w) /\ "unlocking" \in WorkerState
  BY DEF Runs, RunStates, WorkerState
<1>3. JobsOnce' /\ StatusFits' /\ OneActivePerSignature' /\ DayFits'
  BY <1>2, Ends
<1>4. LocksHeld'
  BY <1>2, LocksKept DEF LockStates, HasLock
<1> QED BY <1>1, <1>3, <1>4 DEF IInv

LEMMA FinishJobInv == ASSUME IInv, NEW w \in Worker, FinishJob(w) PROVE IInv'
<1> USE DEF FinishJob, Go, recordVars, lockVars
<1>0. TypeOK /\ wjob[w] \in Job
  BY HasJob DEF IInv
<1>1. TypeOK'
  BY <1>0 DEF TypeOK, WorkerState, Status, SetStatus
<1>2. Runs(w) /\ "clearing" \in WorkerState
  BY DEF Runs, RunStates, WorkerState
<1>3. JobsOnce' /\ StatusFits' /\ OneActivePerSignature' /\ DayFits'
  BY <1>2, Ends
<1>4. LocksHeld'
  BY <1>2, LocksKept DEF LockStates, HasLock
<1> QED BY <1>1, <1>3, <1>4 DEF IInv

LEMMA LockOutputInv == ASSUME IInv, NEW w \in Worker, LockOutput(w) PROVE IInv'
<1> USE DEF LockOutput, Go, MayLock, recordVars, lockVars
<1>0. TypeOK /\ wjob[w] \in Job /\ LockKey(w) \in Key
  BY HasJob, DownloadAssumption DEF IInv, LockKey, Sig
<1>1. PICK s \in {"locked", "markingOutput"} : wpc' = [wpc EXCEPT ![w] = s]
  OBVIOUS
<1>2. TypeOK'
  BY <1>0, <1>1 DEF TypeOK, WorkerState
<1>3. status[wjob[w]] \in ActiveStatus /\ s \in WorkerState
  BY <1>1 DEF IInv, StatusFits, Runs, RunStates, WorkerState
<1>4. JobsOnce' /\ StatusFits' /\ OneActivePerSignature' /\ DayFits'
  BY <1>1, <1>3, Moves
<1>5. LocksHeld'
  <2>1. CASE MayLock(w) /\ active' = active \cup {LockKey(w)} /\ wpc' = [wpc EXCEPT ![w] = "locked"]
    <3>1. \A v \in Worker : LockKey(v)' = LockKey(v)
      BY DEF LockKey, Sig
    <3>2. \A v \in Worker : HasLock(v)' <=> HasLock(v) \/ v = w
      BY <1>0, <2>1 DEF TypeOK, HasLock, LockStates
    <3>3. \A v \in Worker : HasLock(v) => LockKey(v) # LockKey(w)
      BY <2>1 DEF IInv, LocksHeld
    <3> QED BY <2>1, <3>1, <3>2, <3>3 DEF IInv, LocksHeld
  <2>2. CASE UNCHANGED active /\ wpc' = [wpc EXCEPT ![w] = "markingOutput"]
    BY <2>2, LocksKept DEF LockStates, WorkerState
  <2> QED BY <2>1, <2>2
<1> QED BY <1>2, <1>4, <1>5 DEF IInv

LEMMA UnlockOutputInv == ASSUME IInv, NEW w \in Worker, UnlockOutput(w) PROVE IInv'
<1> USE DEF UnlockOutput, Go, Freed, recordVars, lockVars
<1>0. TypeOK /\ wjob[w] \in Job
  BY HasJob DEF IInv
<1>1. TypeOK'
  BY <1>0 DEF TypeOK, WorkerState
<1>2. status[wjob[w]] \in ActiveStatus \cup {"failed"} /\ "releasing" \in WorkerState \ RunStates
  BY DEF IInv, StatusFits, WorkerState, RunStates
<1>3. JobsOnce' /\ StatusFits' /\ OneActivePerSignature' /\ DayFits'
  BY <1>2, Moves
<1>4. LocksHeld'
  <2>1. \A v \in Worker : LockKey(v)' = LockKey(v)
    BY DEF LockKey, Sig
  <2>2. HasLock(w) /\ \A v \in Worker : HasLock(v)' => HasLock(v) /\ v # w
    BY <1>0 DEF TypeOK, HasLock, LockStates
  <2> QED BY <2>1, <2>2 DEF IInv, LocksHeld
<1> QED BY <1>1, <1>3, <1>4 DEF IInv

LEMMA EndWorkInv == ASSUME IInv, NEW w \in Worker, EndWork(w) PROVE IInv'
<1> USE DEF EndWork, Go, recordVars, lockVars
<1>0. TypeOK
  BY DEF IInv
<1>1. PICK s \in {"unlocking", "recording", "closing"} : wpc' = [wpc EXCEPT ![w] = s]
  OBVIOUS
<1>2. TypeOK'
  BY <1>0, <1>1 DEF TypeOK, WorkerState
<1>3. status[wjob[w]] \in ActiveStatus /\ s \in WorkerState /\ HasLock(w)
  BY <1>1 DEF IInv, StatusFits, Runs, RunStates, WorkerState, HasLock, LockStates
<1>4. JobsOnce' /\ StatusFits' /\ OneActivePerSignature' /\ DayFits'
  BY <1>1, <1>3, Moves
<1>5. LocksHeld'
  BY <1>1, <1>3, LocksKept
<1> QED BY <1>2, <1>4, <1>5 DEF IInv

LEMMA RecordBackoffInv == ASSUME IInv, NEW w \in Worker, RecordBackoff(w) PROVE IInv'
<1> USE DEF RecordBackoff, Go, recordVars, lockVars
<1>0. TypeOK /\ wjob[w] \in Job
  BY HasJob DEF IInv
<1>1. TypeOK'
  BY <1>0, DownloadAssumption DEF TypeOK, WorkerState, Sig
<1>2. status[wjob[w]] \in ActiveStatus /\ "closing" \in WorkerState /\ HasLock(w)
  BY DEF IInv, StatusFits, Runs, RunStates, WorkerState, HasLock, LockStates
<1>3. JobsOnce' /\ StatusFits' /\ OneActivePerSignature' /\ DayFits'
  BY <1>2, Moves
<1>4. LocksHeld'
  BY <1>2, LocksKept
<1> QED BY <1>1, <1>3, <1>4 DEF IInv

\* A worker lets go of its job.
LEMMA Leaves ==
    ASSUME IInv, NEW w \in Worker, Leave(w),
           UNCHANGED <<status, today, handed, queue, active>>
    PROVE  JobsOnce' /\ StatusFits' /\ OneActivePerSignature' /\ DayFits' /\ LocksHeld'
<1>0. TypeOK /\ None \notin Job
  BY DownloadAssumption DEF IInv
<1>1. \A v \in Worker : /\ wpc'[v] = IF v = w THEN "idle" ELSE wpc[v]
                        /\ wjob'[v] = IF v = w THEN None ELSE wjob[v]
  BY <1>0 DEF TypeOK, Leave
<1>2. handed \subseteq Job /\ \A i \in 1..Len(queue) : queue[i] \in Job
  BY <1>0 DEF TypeOK
<1>3. JobsOnce'
  BY <1>0, <1>1, <1>2 DEF IInv, JobsOnce
<1>4. StatusFits'
  BY <1>1 DEF IInv, StatusFits, Runs, RunStates
<1>5. LocksHeld'
  BY <1>1, LocksKept DEF Leave, LockStates, WorkerState
<1> QED BY <1>3, <1>4, <1>5 DEF IInv, OneActivePerSignature, DayFits

LEMMA ReleaseConnectionsInv == ASSUME IInv, NEW w \in Worker, ReleaseConnections(w) PROVE IInv'
<1> USE DEF ReleaseConnections, recordVars, lockVars
<1>0. TypeOK /\ wjob[w] \in Job
  BY HasJob DEF IInv
<1>1. GroupOf[Sig(w)] \in Group /\ Requested[Sig(w)] \in Nat
  BY <1>0, DownloadAssumption DEF Sig
<1>2. used' \in [Group -> Nat]
  BY <1>0, <1>1 DEF TypeOK, Most, Res
<1>3. CASE Leave(w)
  <2>1. TypeOK'
    BY <1>0, <1>2, <1>3, DownloadAssumption DEF TypeOK, WorkerState, Leave
  <2> QED BY <1>3, <2>1, Leaves DEF IInv
<1>4. CASE status[wjob[w]] # "failed" /\ Go(w, "finishing")
  <2>1. TypeOK'
    BY <1>0, <1>2, <1>4 DEF TypeOK, WorkerState, Go
  <2>2. status[wjob[w]] \in ActiveStatus /\ "finishing" \in WorkerState
    BY <1>4 DEF IInv, StatusFits, WorkerState
  <2>3. JobsOnce' /\ StatusFits' /\ OneActivePerSignature' /\ DayFits'
    BY <1>4, <2>2, Moves DEF Go
  <2>4. LocksHeld'
    BY <1>4, <2>2, LocksKept DEF LockStates, Go
  <2> QED BY <2>1, <2>3, <2>4 DEF IInv
<1> QED BY <1>3, <1>4

LEMMA ClearBackoffInv == ASSUME IInv, NEW w \in Worker, ClearBackoff(w) PROVE IInv'
<1> USE DEF ClearBackoff, recordVars, lockVars
<1>1. TypeOK'
  BY DownloadAssumption DEF IInv, TypeOK, WorkerState, Leave
<1> QED BY <1>1, Leaves DEF IInv

LEMMA TakeJobInv == ASSUME IInv, NEW w \in Worker, TakeJob(w) PROVE IInv'
<1> USE DEF TakeJob, recordVars, lockVars
<1> DEFINE j == Head(queue)
<1>0. TypeOK /\ queue \in Seq(Job) /\ None \notin Job
  BY DownloadAssumption DEF IInv, TypeOK
<1>1. /\ Len(queue) \in Nat \ {0} /\ j = queue[1] /\ j \in Job
      /\ queue' \in Seq(Job) /\ Len(queue') = Len(queue) - 1
      /\ \A i \in 1..Len(queue') : i + 1 \in 1..Len(queue) /\ queue'[i] = queue[i + 1]
  BY <1>0, QueueTail
<1>2. \A v \in Worker : /\ wpc'[v] = IF v = w THEN "entering" ELSE wpc[v]
                        /\ wjob'[v] = IF v = w THEN j ELSE wjob[v]
  BY <1>0 DEF TypeOK
<1>3. 1 \in 1..Len(queue) /\ \A i \in 1..Len(queue') : i + 1 # 1
  BY <1>1
<1> HIDE DEF j
<1>4. TypeOK'
  BY <1>0, <1>1, <1>2 DEF TypeOK, WorkerState
<1>5. JobsOnce'
  <2>1. \A u, v \in Worker : wjob'[u] = wjob'[v] /\ wjob'[u] # None => u = v
    BY <1>1, <1>2, <1>3 DEF IInv, JobsOnce
  <2>2. \A i, k \in 1..Len(queue') : queue'[i] = queue'[k] => i = k
    <3> SUFFICES ASSUME NEW i \in 1..Len(queue'), NEW k \in 1..Len(queue'), queue'[i] = queue'[k]
                 PROVE  i = k
      OBVIOUS
    <3>1. i + 1 = k + 1
      BY <1>1 DEF IInv, JobsOnce
    <3> QED BY <3>1
  <2>3. \A i \in 1..Len(queue'), v \in Worker : wjob'[v] # queue'[i]
    BY <1>1, <1>2, <1>3 DEF IInv, JobsOnce
  <2>4. /\ \A i \in 1..Len(queue') : queue'[i] \notin handed'
        /\ \A v \in Worker : wjob'[v] \notin handed'
    BY <1>1, <1>2, <1>3 DEF IInv, JobsOnce
  <2> QED BY <2>1, <2>2, <2>3, <2>4 DEF JobsOnce
<1>6. StatusFits'
  BY <1>1, <1>2, <1>3 DEF IInv, StatusFits, Runs, RunStates, ActiveStatus
<1>7. LocksHeld'
  <2>1. \A v \in Worker : HasLock(v)' => HasLock(v) /\ LockKey(v)' = LockKey(v)
    BY <1>2 DEF HasLock, LockStates, LockKey, Sig
  <2> QED BY <2>1 DEF IInv, LocksHeld
<1> QED BY <1>4, <1>5, <1>6, <1>7 DEF IInv, OneActivePerSignature, DayFits

\* Here the searches of _create_job matter: a new active job has no active double.
LEMMA CreateJobInv == ASSUME IInv, NEW j \in Job, CreateJob(j) PROVE IInv'
<1> USE DEF CreateJob, recordVars, lockVars
<1>0. TypeOK
  BY DEF IInv
<1>1. TypeOK'
  BY <1>0 DEF TypeOK, Status
<1>2. \A i \in Job : status'[i] = IF i = j THEN (IF Skips(j) THEN "skipped" ELSE "queued") ELSE status[i]
  BY <1>0 DEF TypeOK
<1>3. /\ \A i \in 1..Len(queue) : queue[i] \in Job \ {j}
      /\ handed \subseteq Job \ {j}
      /\ \A w \in Worker : wpc[w] # "idle" => wjob[w] \in Job \ {j}
  <2>1. \A w \in Worker : wpc[w] # "idle" => status[wjob[w]] # "absent" /\ wjob[w] \in Job
    BY <1>0, HasJob DEF IInv, StatusFits, Runs, RunStates, ActiveStatus, TypeOK
  <2> QED BY <1>0, <2>1 DEF IInv, StatusFits, TypeOK
<1>4. \A w \in Worker : wjob[w] # j
  BY <1>0, <1>3, DownloadAssumption DEF TypeOK
<1>5. JobsOnce'
  BY <1>3, <1>4 DEF IInv, JobsOnce
<1>6. StatusFits'
  BY <1>2, <1>3 DEF IInv, StatusFits, Runs, RunStates
<1>7. LocksHeld'
  BY DEF IInv, LocksHeld, HasLock, LockKey, Sig
<1>8. OneActivePerSignature'
  <2> SUFFICES ASSUME NEW i \in Job, NEW k \in Job, status'[i] \in ActiveStatus,
                      status'[k] \in ActiveStatus, SignatureOf[i] = SignatureOf[k]
               PROVE  i = k
    BY DEF OneActivePerSignature, ActiveStatus
  <2>1. \A l \in Job \ {j} : status'[l] \in ActiveStatus => status[l] \in ActiveStatus
    BY <1>2
  <2>2. status'[j] \in ActiveStatus => \A l \in Job : SignatureOf[l] = SignatureOf[j] => status[l] \notin ActiveStatus
    BY <1>2 DEF ActiveStatus, Skips, ActiveDuplicate
  <2>3. status[i] \in ActiveStatus /\ status[k] \in ActiveStatus => i = k
    BY DEF IInv, OneActivePerSignature, ActiveStatus
  <2> QED BY <2>1, <2>2, <2>3
<1>9. DayFits'
  <2>1. today \subseteq Job \ {j}
    BY <1>0 DEF IInv, TypeOK, DayFits
  <2>2. j \in ByTick /\ status'[j] \in ActiveStatus => \A i \in today : SignatureOf[i] # SignatureOf[j]
    BY <1>2 DEF ActiveStatus, Skips, SucceededToday
  <2> QED BY <1>2, <2>1, <2>2, DownloadAssumption DEF IInv, DayFits
<1> QED BY <1>1, <1>5, <1>6, <1>7, <1>8, <1>9 DEF IInv

LEMMA SubmitJobInv == ASSUME IInv, NEW j \in Job, SubmitJob(j) PROVE IInv'
<1> USE DEF SubmitJob, recordVars, lockVars
<1>0. TypeOK /\ queue \in Seq(Job)
  BY DEF IInv, TypeOK
<1>1. /\ Len(queue) \in Nat
      /\ queue' \in Seq(Job) /\ Len(queue') = Len(queue) + 1
      /\ \A i \in 1..Len(queue) : queue'[i] = queue[i] /\ queue[i] \in Job
      /\ queue'[Len(queue) + 1] = j
  BY <1>0, QueueAppend
<1>2. \A i \in 1..Len(queue') : i \in 1..Len(queue) \/ i = Len(queue) + 1
  BY <1>1
<1>3. TypeOK'
  BY <1>0, <1>1 DEF TypeOK
<1>4. JobsOnce'
  <2>1. \A i, k \in 1..Len(queue') : queue'[i] = queue'[k] => i = k
    BY <1>1, <1>2 DEF IInv, JobsOnce
  <2>2. /\ \A i \in 1..Len(queue') : queue'[i] \notin handed'
        /\ \A i \in 1..Len(queue'), w \in Worker : wjob'[w] # queue'[i]
        /\ \A w \in Worker : wjob'[w] \notin handed'
    BY <1>1, <1>2 DEF IInv, JobsOnce
  <2> QED BY <2>1, <2>2 DEF IInv, JobsOnce
<1>5. StatusFits'
  <2>1. /\ \A i \in handed' : status'[i] = "queued"
        /\ \A i \in 1..Len(queue') : status'[queue'[i]] = "queued"
    BY <1>1, <1>2 DEF IInv, StatusFits
  <2> QED BY <2>1 DEF IInv, StatusFits, Runs
<1> QED BY <1>3, <1>4, <1>5 DEF IInv, LocksHeld, HasLock, LockKey, Sig, OneActivePerSignature, DayFits

(***************************************************************************)
(* The invariant holds in every reachable state: no step of a request, the *)
(* tick, a worker or time breaks it.                                       *)
(***************************************************************************)
THEOREM Invariance == Spec => []IInv
<1>1. IInv /\ [Next]_vars => IInv'
  <2> SUFFICES ASSUME IInv, [Next]_vars PROVE IInv'
    OBVIOUS
  <2>1. ASSUME NEW j \in Job, CreateJob(j) \/ SubmitJob(j) PROVE IInv'
    BY <2>1, CreateJobInv, SubmitJobInv
  <2>2. ASSUME NEW w \in Worker, WorkerStep(w) PROVE IInv'
    BY <2>2, TakeJobInv, EnterGroupInv, MarkWaitingInv, LookAgainInv, StartJobInv, LockOutputInv,
       MarkWaitingOutputInv, BeginWorkInv, EndWorkInv, RecordBackoffInv, CloseFailedInv,
       UnlockOutputInv, ReleaseConnectionsInv, FinishJobInv, ClearBackoffInv DEF WorkerStep
  <2>3. ASSUME UNCHANGED <<status, handed, queue, limits, used, active, wpc, wjob>>,
               today' \subseteq today, backoff' \subseteq backoff
        PROVE  IInv'
    BY <2>3 DEF IInv, TypeOK, JobsOnce, StatusFits, Runs, LocksHeld, HasLock, LockKey, Sig,
                OneActivePerSignature, DayFits
  <2>4. ASSUME NEW s \in Signature, BackoffPasses(s) PROVE IInv'
    BY <2>3, <2>4 DEF BackoffPasses, lockVars
  <2>5. CASE NewDay
    BY <2>3, <2>5 DEF NewDay, lockVars
  <2>6. CASE UNCHANGED vars
    BY <2>3, <2>6 DEF vars, recordVars, lockVars
  <2> QED BY <2>1, <2>2, <2>4, <2>5, <2>6 DEF Next
<1> QED BY <1>1, InitInv, PTL DEF Spec

(***************************************************************************)
(* Every variable keeps its type.                                          *)
(***************************************************************************)
THEOREM TypeCorrect == Spec => []TypeOK
<1>1. IInv => TypeOK
  BY DEF IInv
<1> QED BY <1>1, Invariance, PTL

(***************************************************************************)
(* _create_job never lets two jobs with the same signature be active.      *)
(***************************************************************************)
THEOREM OneActive == Spec => []OneActivePerSignature
<1>1. IInv => OneActivePerSignature
  BY DEF IInv
<1> QED BY <1>1, Invariance, PTL

(***************************************************************************)
(* The tick gets one success a day from a signature: the search for a      *)
(* success of the day and the search for an active job leave no gap, since *)
(* a job is active until the moment it has succeeded.                      *)
(***************************************************************************)
THEOREM OneSuccess == Spec => []OneScheduledSuccessPerDay
<1>1. IInv => OneScheduledSuccessPerDay
  BY DEF IInv, DayFits, OneScheduledSuccessPerDay
<1> QED BY <1>1, Invariance, PTL

(***************************************************************************)
(* What the output lock gives: jobs that are at work at the same time have *)
(* different lock keys, whatever each had to wait for, and a key is marked *)
(* as long as its job is at work.  Two jobs that write a file of both at   *)
(* once can therefore only be such that _output_lock_key gives different   *)
(* keys for it, as it does when they name different lists of formats.      *)
(***************************************************************************)
KeysApart ==
    /\ \A w \in Worker : wpc[w] = "working" => LockKey(w) \in active
    /\ \A v, w \in Worker :
           wpc[v] = "working" /\ wpc[w] = "working" /\ v # w => LockKey(v) # LockKey(w)

THEOREM OneWriterPerKey == Spec => []KeysApart
<1>1. IInv => KeysApart
  BY DEF IInv, LocksHeld, HasLock, LockStates, KeysApart
<1> QED BY <1>1, Invariance, PTL
-----------------------------------------------------------------------------
(***************************************************************************)
(* The connections.  Every step leaves the leases alone, or takes one for  *)
(* which there is room, or gives one back.                                 *)
(***************************************************************************)
\* A job that has entered its group asks for no more than the group's limit.
LimitsSuffice ==
    \A w \in Worker : wpc[w] \notin {"idle", "entering"} => Requested[Sig(w)] <= limits[Res(w)]

LeasesCounted ==
    /\ LimitsSuffice
    /\ \A g \in Group : IsFiniteSet(Connections(g))
    /\ ConnectionsAccounted

LeasesKept ==
    /\ used' = used
    /\ \A w \in Worker : HasConnections(w)' <=> HasConnections(w)
    /\ \A w \in Worker : HasConnections(w) => wjob'[w] = wjob[w]

LeaseTaken(w) ==
    /\ ~HasConnections(w) /\ HasConnections(w)'
    /\ used[Res(w)] + Requested[Sig(w)] <= limits'[Res(w)]
    /\ used' = [used EXCEPT ![Res(w)] = @ + Requested[Sig(w)]]
    /\ \A v \in Worker \ {w} : HasConnections(v)' <=> HasConnections(v)
    /\ wjob' = wjob

LeaseGivenBack(w) ==
    /\ HasConnections(w) /\ ~HasConnections(w)'
    /\ used' = [used EXCEPT ![Res(w)] = Most(@, Requested[Sig(w)]) - Requested[Sig(w)]]
    /\ \A v \in Worker \ {w} : wpc'[v] = wpc[v] /\ wjob'[v] = wjob[v]

LeaseForm == LeasesKept \/ \E w \in Worker : LeaseTaken(w) \/ LeaseGivenBack(w)

\* No step lowers a limit, so what was enough stays enough.
LimitsGrow == \A g \in Group : limits[g] <= limits'[g]

\* What a worker with a job asks for.
LEMMA RequestType ==
    ASSUME TypeOK, NEW w \in Worker, wpc[w] # "idle"
    PROVE  /\ Sig(w) \in Signature /\ Res(w) \in Group
           /\ Requested[Sig(w)] \in Nat \ {0} /\ Limit[Sig(w)] \in Nat
           /\ Requested[Sig(w)] <= Limit[Sig(w)]
<1>1. Sig(w) \in Signature
  BY HasJob, DownloadAssumption DEF Sig
<1> QED BY <1>1, DownloadAssumption DEF Res

\* Trying to acquire takes a lease of the size requested, or keeps all.
LEMMA TryAcquireForm ==
    ASSUME TypeOK, NEW w \in Worker, wpc[w] # "idle", ~HasConnections(w), NEW lims,
           lims[Res(w)] \in Nat, Requested[Sig(w)] <= lims[Res(w)], TryAcquire(w, lims),
           limits' = lims
    PROVE  LeaseForm
<1>1. Granted(w, lims) = Requested[Sig(w)]
  BY RequestType DEF Granted, Least
<1>2. wjob' = wjob /\ wpc' = [wpc EXCEPT ![w] = wpc'[w]] /\ wpc'[w] \in {"granted", "marking"}
  BY DEF TryAcquire, Go, TypeOK
<1>3. \A v \in Worker \ {w} : HasConnections(v)' <=> HasConnections(v)
  <2>1. \A v \in Worker \ {w} : wpc'[v] = wpc[v]
    BY DEF TryAcquire, Go, TypeOK
  <2> QED BY <2>1 DEF HasConnections
<1>4. CASE Fits(w, lims) /\ wpc'[w] = "granted"
  <2>1. used' = [used EXCEPT ![Res(w)] = @ + Requested[Sig(w)]]
    BY <1>1, <1>4 DEF TryAcquire, Go, TypeOK
  <2>2. used[Res(w)] + Requested[Sig(w)] <= limits'[Res(w)]
    BY <1>1, <1>4 DEF Fits
  <2> QED BY <1>2, <1>3, <1>4, <2>1, <2>2 DEF LeaseForm, LeaseTaken, HasConnections
<1>5. CASE used' = used /\ wpc'[w] = "marking"
  BY <1>2, <1>3, <1>5 DEF LeaseForm, LeasesKept, HasConnections
<1>6. \/ Fits(w, lims) /\ wpc'[w] = "granted"
      \/ used' = used /\ wpc'[w] = "marking"
  BY DEF TryAcquire, Go, TypeOK
<1> QED BY <1>4, <1>5, <1>6

\* A worker that goes from one state to another keeps its lease, or goes on without one.
LEMMA GoForm ==
    ASSUME TypeOK, NEW w \in Worker, NEW s, Go(w, s), used' = used,
           HasConnections(w) <=> s \in {"granted", "locking", "markingOutput", "waitingOutput",
                                        "locked", "working", "recording", "closing", "unlocking",
                                        "releasing"}
    PROVE  LeasesKept
  BY DEF Go, TypeOK, LeasesKept, HasConnections

\* Every step has one of the forms, lowers no limit, and lets only jobs in that may ask.
LEMMA StepHasLeaseForm ==
    ASSUME TypeOK, LimitsSuffice, [Next]_vars
    PROVE  LeaseForm /\ LimitsGrow
<1> USE DEF recordVars, lockVars
<1>0. ASSUME limits' = limits PROVE LimitsGrow
  BY <1>0 DEF TypeOK, LimitsGrow
<1>1. ASSUME UNCHANGED <<limits, used, wpc, wjob>> PROVE LeaseForm /\ LimitsGrow
  BY <1>0, <1>1 DEF LeaseForm, LeasesKept, HasConnections
<1>2. ASSUME NEW w \in Worker, TakeJob(w) PROVE LeaseForm /\ LimitsGrow
  BY <1>0, <1>2 DEF TakeJob, LeaseForm, LeasesKept, HasConnections, TypeOK
<1>3. ASSUME NEW w \in Worker, EnterGroup(w) PROVE LeaseForm /\ LimitsGrow
  <2>1. limits' = [limits EXCEPT ![Res(w)] = Most(@, Limit[Sig(w)])] /\ wpc[w] = "entering"
    BY <1>3 DEF EnterGroup
  <2>2. limits[Res(w)] \in Nat /\ Most(limits[Res(w)], Limit[Sig(w)]) \in Nat
        /\ limits[Res(w)] <= Most(limits[Res(w)], Limit[Sig(w)])
        /\ Requested[Sig(w)] <= Most(limits[Res(w)], Limit[Sig(w)])
    BY <2>1, RequestType DEF TypeOK, Most
  <2>3. LimitsGrow
    BY <2>1, <2>2 DEF LimitsGrow, TypeOK
  <2>4. limits'[Res(w)] \in Nat /\ Requested[Sig(w)] <= limits'[Res(w)]
    BY <2>1, <2>2, RequestType DEF TypeOK
  <2>5. ~HasConnections(w) /\ TryAcquire(w, limits')
    BY <1>3 DEF EnterGroup, HasConnections
  <2> HIDE DEF lockVars, recordVars
  <2> QED BY <2>1, <2>3, <2>4, <2>5, TryAcquireForm
<1>4. ASSUME NEW w \in Worker, LookAgain(w) PROVE LeaseForm /\ LimitsGrow
  <2>1. limits' = limits /\ wpc[w] = "waiting" /\ ~HasConnections(w) /\ TryAcquire(w, limits)
    BY <1>4 DEF LookAgain, HasConnections
  <2>2. limits[Res(w)] \in Nat /\ Requested[Sig(w)] <= limits[Res(w)]
    BY <2>1, RequestType DEF LimitsSuffice, TypeOK
  <2> QED BY <1>0, <2>1, <2>2, TryAcquireForm
<1>5. ASSUME NEW w \in Worker,
             \/ MarkWaiting(w) \/ StartJob(w) \/ LockOutput(w) \/ MarkWaitingOutput(w)
             \/ BeginWork(w) \/ EndWork(w) \/ RecordBackoff(w) \/ CloseFailed(w)
             \/ UnlockOutput(w) \/ FinishJob(w)
      PROVE  LeaseForm /\ LimitsGrow
  <2>1. UNCHANGED <<limits, used>>
    BY <1>5 DEF MarkWaiting, StartJob, LockOutput, MarkWaitingOutput, BeginWork, EndWork,
                RecordBackoff, CloseFailed, UnlockOutput, FinishJob
  <2>2. ASSUME MarkWaiting(w) PROVE LeasesKept
    BY <2>1, <2>2, GoForm DEF MarkWaiting, HasConnections
  <2>3. ASSUME StartJob(w) PROVE LeasesKept
    BY <2>1, <2>3, GoForm DEF StartJob, HasConnections
  <2>4. ASSUME LockOutput(w) PROVE LeasesKept
    BY <2>1, <2>4, GoForm DEF LockOutput, HasConnections
  <2>5. ASSUME MarkWaitingOutput(w) PROVE LeasesKept
    BY <2>1, <2>5, GoForm DEF MarkWaitingOutput, HasConnections
  <2>6. ASSUME BeginWork(w) PROVE LeasesKept
    BY <2>1, <2>6, GoForm DEF BeginWork, HasConnections
  <2>7. ASSUME EndWork(w) PROVE LeasesKept
    BY <2>1, <2>7, GoForm DEF EndWork, HasConnections
  <2>8. ASSUME RecordBackoff(w) PROVE LeasesKept
    BY <2>1, <2>8, GoForm DEF RecordBackoff, HasConnections
  <2>9. ASSUME CloseFailed(w) PROVE LeasesKept
    BY <2>1, <2>9, GoForm DEF CloseFailed, HasConnections
  <2>10. ASSUME UnlockOutput(w) PROVE LeasesKept
    BY <2>1, <2>10, GoForm DEF UnlockOutput, HasConnections
  <2>11. ASSUME FinishJob(w) PROVE LeasesKept
    BY <2>1, <2>11, GoForm DEF FinishJob, HasConnections
  <2>12. LeasesKept
    BY <1>5, <2>2, <2>3, <2>4, <2>5, <2>6, <2>7, <2>8, <2>9, <2>10, <2>11
  <2> QED BY <1>0, <2>1, <2>12 DEF LeaseForm
<1>6. ASSUME NEW w \in Worker, ReleaseConnections(w) PROVE LeaseForm /\ LimitsGrow
  <2>1. wpc[w] = "releasing" /\ limits' = limits
    BY <1>6 DEF ReleaseConnections
  <2>2. /\ wpc'[w] \in {"idle", "finishing"}
        /\ \A v \in Worker \ {w} : wpc'[v] = wpc[v] /\ wjob'[v] = wjob[v]
    BY <1>6 DEF ReleaseConnections, Leave, Go, TypeOK
  <2>3. LeaseGivenBack(w)
    BY <1>6, <2>1, <2>2 DEF LeaseGivenBack, HasConnections, ReleaseConnections
  <2> QED BY <1>0, <2>1, <2>3 DEF LeaseForm
<1>7. ASSUME NEW w \in Worker, ClearBackoff(w) PROVE LeaseForm /\ LimitsGrow
  BY <1>0, <1>7 DEF ClearBackoff, Leave, LeaseForm, LeasesKept, HasConnections, TypeOK
<1>8. ASSUME NEW j \in Job, CreateJob(j) \/ SubmitJob(j) PROVE LeaseForm /\ LimitsGrow
  BY <1>1, <1>8 DEF CreateJob, SubmitJob
<1>9. ASSUME NEW s \in Signature, BackoffPasses(s) PROVE LeaseForm /\ LimitsGrow
  BY <1>1, <1>9 DEF BackoffPasses
<1>10. ASSUME NewDay \/ UNCHANGED vars PROVE LeaseForm /\ LimitsGrow
  BY <1>1, <1>10 DEF NewDay, vars
<1> QED BY <1>2, <1>3, <1>4, <1>5, <1>6, <1>7, <1>8, <1>9, <1>10 DEF Next, WorkerStep

\* The connections of a lease are as many as were requested.
LEMMA LeaseSize ==
    ASSUME TypeOK, NEW w \in Worker, wpc[w] # "idle"
    PROVE  IsFiniteSet(ConnectionsOf(w)) /\ Cardinality(ConnectionsOf(w)) = Requested[Sig(w)]
<1>1. Requested[Sig(w)] \in Nat \ {0}
  BY RequestType
<1>2. IsFiniteSet(1 .. Requested[Sig(w)]) /\ Cardinality(1 .. Requested[Sig(w)]) = Requested[Sig(w)]
  BY <1>1, FS_Interval
<1>3. IsFiniteSet({w}) /\ Cardinality({w}) = 1
  BY FS_Singleton
<1>4. /\ IsFiniteSet(ConnectionsOf(w))
      /\ Cardinality(ConnectionsOf(w)) = Cardinality({w}) * Cardinality(1 .. Requested[Sig(w)])
  BY <1>2, <1>3, FS_Product DEF ConnectionsOf
<1> QED BY <1>1, <1>2, <1>3, <1>4

\* A connection belongs to one worker, which holds a lease of the group.
LEMMA ConnectionOwner ==
    ASSUME NEW g, NEW x
    PROVE  x \in Connections(g) <=> \E w \in Worker : HasConnections(w) /\ Res(w) = g /\ x \in ConnectionsOf(w)
  BY DEF Connections

\* The connections of different workers are different.
LEMMA ConnectionsApart ==
    ASSUME NEW v, NEW w, v # w
    PROVE  ConnectionsOf(v) \cap ConnectionsOf(w) = {}
  BY DEF ConnectionsOf

\* Every step keeps the connections used equal to those of the leases, and within the limit.
LEMMA LeaseStep ==
    ASSUME TypeOK, TypeOK', LeasesCounted, LeaseForm, LimitsGrow
    PROVE  (\A g \in Group : IsFiniteSet(Connections(g)))' /\ ConnectionsAccounted'
<1> DEFINE Right(g) == /\ IsFiniteSet(Connections(g)')
                       /\ used'[g] = Cardinality(Connections(g)') /\ used'[g] <= limits'[g]
<1>1. ASSUME NEW g \in Group
      PROVE  /\ used[g] \in Nat /\ limits[g] \in Nat /\ limits'[g] \in Nat /\ limits[g] <= limits'[g]
             /\ IsFiniteSet(Connections(g)) /\ used[g] = Cardinality(Connections(g)) /\ used[g] <= limits[g]
  BY DEF TypeOK, LimitsGrow, LeasesCounted, ConnectionsAccounted
<1>2. ASSUME NEW g \in Group, Connections(g)' = Connections(g), used'[g] = used[g] PROVE Right(g)
  BY <1>1, <1>2
<1>3. ASSUME LeasesKept, NEW g \in Group PROVE Right(g)
  <2>1. ASSUME NEW w \in Worker, HasConnections(w)
        PROVE  HasConnections(w)' /\ Res(w)' = Res(w) /\ ConnectionsOf(w)' = ConnectionsOf(w)
    BY <1>3, <2>1 DEF LeasesKept, Res, Sig, ConnectionsOf
  <2>2. \A w \in Worker : HasConnections(w)' => HasConnections(w)
    BY <1>3 DEF LeasesKept
  <2>3. Connections(g)' = Connections(g)
    BY <2>1, <2>2 DEF Connections
  <2> QED BY <1>2, <1>3, <2>3 DEF LeasesKept
<1>4. ASSUME NEW w \in Worker, LeaseTaken(w), NEW g \in Group PROVE Right(g)
  <2>1. wpc[w] # "idle"
    BY <1>4 DEF LeaseTaken, HasConnections, TypeOK
  <2>2. \A v \in Worker : Res(v)' = Res(v) /\ ConnectionsOf(v)' = ConnectionsOf(v)
    BY <1>4 DEF LeaseTaken, Res, Sig, ConnectionsOf
  <2>3. \A v \in Worker : HasConnections(v)' <=> HasConnections(v) \/ v = w
    BY <1>4 DEF LeaseTaken
  <2>4. CASE g = Res(w)
    <3>1. Connections(g)' = Connections(g) \cup ConnectionsOf(w)
      BY <2>2, <2>3, <2>4 DEF Connections
    <3>2. Connections(g) \cap ConnectionsOf(w) = {}
      BY <1>4, ConnectionOwner, ConnectionsApart DEF LeaseTaken
    <3>3. IsFiniteSet(ConnectionsOf(w)) /\ Cardinality(ConnectionsOf(w)) = Requested[Sig(w)]
          /\ Requested[Sig(w)] \in Nat
      BY <2>1, LeaseSize, RequestType
    <3>4. /\ IsFiniteSet(Connections(g) \cup ConnectionsOf(w))
          /\ Cardinality(Connections(g) \cup ConnectionsOf(w))
               = Cardinality(Connections(g)) + Cardinality(ConnectionsOf(w))
                 - Cardinality(Connections(g) \cap ConnectionsOf(w))
      BY <1>1, <3>3, FS_Union
    <3>5. Cardinality(Connections(g) \cap ConnectionsOf(w)) = 0
      BY <3>2, FS_EmptySet
    <3>6. used'[g] = used[g] + Requested[Sig(w)] /\ used'[g] <= limits'[g]
      BY <1>4, <2>4 DEF LeaseTaken, TypeOK
    <3> QED BY <1>1, <3>1, <3>3, <3>4, <3>5, <3>6
  <2>5. CASE g # Res(w)
    <3>1. Connections(g)' = Connections(g)
      BY <2>2, <2>3, <2>5 DEF Connections
    <3>2. used'[g] = used[g]
      BY <1>4, <2>5 DEF LeaseTaken, TypeOK
    <3> QED BY <1>2, <3>1, <3>2
  <2> QED BY <2>4, <2>5
<1>5. ASSUME NEW w \in Worker, LeaseGivenBack(w), NEW g \in Group PROVE Right(g)
  <2>1. wpc[w] # "idle"
    BY <1>5 DEF LeaseGivenBack, HasConnections
  <2>2. \A v \in Worker \ {w} : /\ Res(v)' = Res(v) /\ ConnectionsOf(v)' = ConnectionsOf(v)
                                /\ HasConnections(v)' <=> HasConnections(v)
    BY <1>5 DEF LeaseGivenBack, Res, Sig, ConnectionsOf, HasConnections
  <2>3. HasConnections(w) /\ ~HasConnections(w)'
    BY <1>5 DEF LeaseGivenBack
  <2>4. CASE g = Res(w)
    <3>1. Connections(g)' = Connections(g) \ ConnectionsOf(w)
      <4>1. \A v \in Worker \ {w} : ConnectionsOf(v) \cap ConnectionsOf(w) = {}
        BY ConnectionsApart
      <4> QED BY <2>2, <2>3, <2>4, <4>1 DEF Connections
    <3>2. Connections(g) \cap ConnectionsOf(w) = ConnectionsOf(w)
      BY <2>3, <2>4, ConnectionOwner
    <3>3. IsFiniteSet(ConnectionsOf(w)) /\ Cardinality(ConnectionsOf(w)) = Requested[Sig(w)]
          /\ Requested[Sig(w)] \in Nat
      BY <2>1, LeaseSize, RequestType
    <3>4. /\ IsFiniteSet(Connections(g) \ ConnectionsOf(w))
          /\ Cardinality(Connections(g) \ ConnectionsOf(w))
               = Cardinality(Connections(g)) - Cardinality(Connections(g) \cap ConnectionsOf(w))
      BY <1>1, FS_Difference
    <3>5. Cardinality(Connections(g) \ ConnectionsOf(w)) \in Nat
      BY <3>4, FS_CardinalityType
    <3>6. Cardinality(Connections(g) \cap ConnectionsOf(w)) = Requested[Sig(w)]
      BY <3>2, <3>3, Zenon
    <3>7. Cardinality(Connections(g) \ ConnectionsOf(w)) = used[g] - Requested[Sig(w)]
      BY <1>1, <3>4, <3>6
    <3>8. Requested[Sig(w)] <= used[g]
      BY <1>1, <3>3, <3>5, <3>7
    <3>9. used'[g] = used[g] - Requested[Sig(w)]
      BY <1>1, <1>5, <2>4, <3>3, <3>8 DEF LeaseGivenBack, Most, TypeOK
    <3>10. IsFiniteSet(Connections(g)') /\ used'[g] = Cardinality(Connections(g)')
      BY <3>1, <3>4, <3>9, <3>7
    <3> QED BY <1>1, <3>3, <3>8, <3>9, <3>10
  <2>5. CASE g # Res(w)
    <3>1. Connections(g)' = Connections(g)
      BY <2>2, <2>3, <2>5 DEF Connections
    <3>2. used'[g] = used[g]
      BY <1>5, <2>5 DEF LeaseGivenBack, TypeOK
    <3> QED BY <1>2, <3>1, <3>2
  <2> QED BY <2>4, <2>5
<1>6. \A g \in Group : Right(g)
  BY <1>3, <1>4, <1>5 DEF LeaseForm
<1> QED BY <1>6 DEF ConnectionsAccounted

\* Whoever has entered its group keeps its job, and enters after the limit was raised.
LEMMA EnteredKeepsJob ==
    ASSUME TypeOK, NEW w \in Worker, [Next]_vars, wpc'[w] \notin {"idle", "entering"}
    PROVE  /\ wjob'[w] = wjob[w] /\ wpc[w] # "idle"
           /\ wpc[w] = "entering" => Requested[Sig(w)] <= limits'[Res(w)]
<1> USE DEF recordVars, lockVars
<1>1. ASSUME NEW v \in Worker, TakeJob(v) \/ ClearBackoff(v)
      PROVE  v # w /\ wjob'[w] = wjob[w] /\ wpc'[w] = wpc[w]
  BY <1>1 DEF TakeJob, ClearBackoff, Leave, TypeOK
<1>2. ASSUME NEW v \in Worker, EnterGroup(v)
      PROVE  wjob' = wjob /\ (v # w => wpc'[w] = wpc[w]) /\ limits' = [limits EXCEPT ![Res(v)] = Most(@, Limit[Sig(v)])] /\ wpc[v] = "entering"
  BY <1>2 DEF EnterGroup, TryAcquire, Go, TypeOK
<1>3. ASSUME NEW v \in Worker, ReleaseConnections(v)
      PROVE  wjob'[w] = wjob[w] /\ wpc[w] \notin {"idle", "entering"}
  <2>1. wpc[v] = "releasing" /\ (Leave(v) \/ Go(v, "finishing"))
    BY <1>3 DEF ReleaseConnections
  <2> QED BY <2>1 DEF Leave, Go, TypeOK
<1>4. ASSUME NEW v \in Worker,
             \/ MarkWaiting(v) \/ LookAgain(v) \/ StartJob(v) \/ LockOutput(v) \/ MarkWaitingOutput(v)
             \/ BeginWork(v) \/ EndWork(v) \/ RecordBackoff(v) \/ CloseFailed(v)
             \/ UnlockOutput(v) \/ FinishJob(v)
      PROVE  wjob' = wjob /\ wpc[w] \notin {"idle", "entering"}
  <2>1. wpc[v] \notin {"idle", "entering"} /\ \E s : Go(v, s)
    BY <1>4 DEF MarkWaiting, LookAgain, TryAcquire, StartJob, LockOutput, MarkWaitingOutput, BeginWork, EndWork,
                RecordBackoff, CloseFailed, UnlockOutput, FinishJob
  <2> QED BY <2>1 DEF Go, TypeOK
<1>5. ASSUME UNCHANGED <<wpc, wjob>> PROVE wjob' = wjob /\ wpc[w] \notin {"idle", "entering"}
  BY <1>5
<1>6. CASE \E j \in Job : CreateJob(j) \/ SubmitJob(j)
  BY <1>5, <1>6 DEF CreateJob, SubmitJob
<1>7. CASE (\E s \in Signature : BackoffPasses(s)) \/ NewDay \/ UNCHANGED vars
  BY <1>5, <1>7 DEF BackoffPasses, NewDay, vars
<1>8. CASE \E v \in Worker : EnterGroup(v)
  <2>1. PICK v \in Worker : EnterGroup(v)
    BY <1>8
  <2>2. CASE v # w
    BY <1>2, <2>1, <2>2
  <2>3. CASE v = w
    <3>1. Requested[Sig(w)] <= Most(limits[Res(w)], Limit[Sig(w)]) /\ limits'[Res(w)] = Most(limits[Res(w)], Limit[Sig(w)])
      BY <1>2, <2>1, <2>3, RequestType DEF TypeOK, Most
    <3> QED BY <1>2, <2>1, <2>3, <3>1
  <2> QED BY <2>2, <2>3
<1> QED BY <1>1, <1>3, <1>4, <1>6, <1>7, <1>8 DEF Next, WorkerStep

\* A limit that is enough for those that have entered stays enough.
LEMMA LimitsStep ==
    ASSUME TypeOK, TypeOK', LimitsSuffice, LimitsGrow, [Next]_vars
    PROVE  LimitsSuffice'
<1> SUFFICES ASSUME NEW w \in Worker, wpc'[w] \notin {"idle", "entering"}
             PROVE  (Requested[Sig(w)] <= limits[Res(w)])'
  BY DEF LimitsSuffice
<1>1. wjob'[w] = wjob[w] /\ wpc[w] # "idle"
  BY EnteredKeepsJob
<1>2. Sig(w)' = Sig(w) /\ Res(w)' = Res(w)
  BY <1>1 DEF Sig, Res
<1>3. CASE wpc[w] = "entering"
  BY <1>2, <1>3, EnteredKeepsJob
<1>4. CASE wpc[w] # "entering"
  <2>1. Requested[Sig(w)] <= limits[Res(w)] /\ limits[Res(w)] <= limits'[Res(w)]
    BY <1>1, <1>4, RequestType DEF LimitsSuffice, LimitsGrow
  <2>2. Requested[Sig(w)] \in Nat /\ limits[Res(w)] \in Nat /\ limits'[Res(w)] \in Nat
    BY <1>1, RequestType DEF TypeOK
  <2> QED BY <1>2, <2>1, <2>2
<1> QED BY <1>3, <1>4

\* The leases are counted in every state.
LEMMA LeasesInvariant == Spec => []LeasesCounted
<1>1. Init => LeasesCounted
  <2> SUFFICES ASSUME Init PROVE LeasesCounted
    OBVIOUS
  <2>1. LimitsSuffice
    BY DEF Init, LimitsSuffice
  <2>2. ASSUME NEW g \in Group PROVE Connections(g) = {}
    BY DEF Init, Connections, HasConnections
  <2>3. \A g \in Group : used[g] = 0 /\ limits[g] = 0
    BY DEF Init
  <2> QED BY <2>1, <2>2, <2>3, FS_EmptySet DEF LeasesCounted, ConnectionsAccounted
<1>2. TypeOK /\ TypeOK' /\ LeasesCounted /\ [Next]_vars => LeasesCounted'
  BY StepHasLeaseForm, LeaseStep, LimitsStep DEF LeasesCounted
<1> QED BY <1>1, <1>2, TypeCorrect, PTL DEF Spec

(***************************************************************************)
(* The connections counted as used are those of the leases held, and no    *)
(* more than the limit of the group, for any sizes of requests, limits     *)
(* that grow while others wait, and any number of workers.                 *)
(***************************************************************************)
THEOREM ConnectionsAreAccounted == Spec => []ConnectionsAccounted
<1>1. LeasesCounted => ConnectionsAccounted
  BY DEF LeasesCounted
<1> QED BY <1>1, LeasesInvariant, PTL

-----------------------------------------------------------------------------
(***************************************************************************)
(* Waiting.  A job waits for connections, and then, holding them, for its  *)
(* output.  It is blocked when it would not get them, if it looked now.    *)
(***************************************************************************)
WaitsForConnections(w) == wpc[w] \in {"marking", "waiting"} /\ ~Fits(w, limits)

WaitsForOutput(w) == wpc[w] \in {"locking", "markingOutput", "waitingOutput"} /\ ~MayLock(w)

Blocked(w) == WaitsForConnections(w) \/ WaitsForOutput(w)

Holds(w, k) == HasLock(w) /\ LockKey(w) = k

\* No key stays marked when nobody is left to free it.
LocksHaveHolders == \A k \in active : \E w \in Worker : Holds(w, k)

\* Output waits for one that goes on, and connections wait for one that goes on or waits for output.
NoWaitingCircle ==
    \A w \in Worker :
        /\ WaitsForOutput(w) => \E v \in Worker : Holds(v, LockKey(w)) /\ ~Blocked(v)
        /\ WaitsForConnections(w) =>
              \E v \in Worker : HasConnections(v) /\ Res(v) = Res(w) /\ (Blocked(v) => WaitsForOutput(v))

\* While a step leaves the marks and the holders' jobs alone, each mark keeps its holder.
LEMMA HoldersKept ==
    ASSUME LocksHaveHolders, active' \subseteq active,
           \A v \in Worker : HasLock(v) /\ LockKey(v) \in active' => HasLock(v)' /\ wjob'[v] = wjob[v]
    PROVE  LocksHaveHolders'
<1> SUFFICES ASSUME NEW k \in active' PROVE \E v \in Worker : Holds(v, k)'
  BY DEF LocksHaveHolders
<1>1. PICK v \in Worker : HasLock(v) /\ LockKey(v) = k
  BY DEF LocksHaveHolders, Holds
<1>2. HasLock(v)' /\ wjob'[v] = wjob[v]
  BY <1>1
<1> QED BY <1>1, <1>2 DEF Holds, LockKey, Sig

\* Every step leaves each marked key with a holder.
LEMMA HoldersStep ==
    ASSUME TypeOK, LocksHaveHolders, [Next]_vars
    PROVE  LocksHaveHolders'
<1> USE DEF recordVars, lockVars
<1>1. ASSUME UNCHANGED <<active, wpc, wjob>> PROVE LocksHaveHolders'
  BY <1>1, HoldersKept DEF HasLock
<1>2. ASSUME NEW w \in Worker, NEW s, Go(w, s), active' = active, HasLock(w) => s \in LockStates
      PROVE  LocksHaveHolders'
  BY <1>2, HoldersKept DEF Go, HasLock, TypeOK
<1>3. ASSUME NEW w \in Worker, ~HasLock(w), active' = active,
             \A v \in Worker \ {w} : wpc'[v] = wpc[v] /\ wjob'[v] = wjob[v]
      PROVE  LocksHaveHolders'
  BY <1>3, HoldersKept DEF HasLock
<1>4. ASSUME NEW w \in Worker, TakeJob(w) \/ ReleaseConnections(w) \/ ClearBackoff(w)
      PROVE  LocksHaveHolders'
  <2>1. ~HasLock(w) /\ active' = active
    BY <1>4 DEF TakeJob, ReleaseConnections, ClearBackoff, HasLock, LockStates
  <2>2. \A v \in Worker \ {w} : wpc'[v] = wpc[v] /\ wjob'[v] = wjob[v]
    BY <1>4 DEF TakeJob, ReleaseConnections, ClearBackoff, Leave, Go, TypeOK
  <2> QED BY <1>3, <2>1, <2>2
<1>5. ASSUME NEW w \in Worker,
             \/ EnterGroup(w) \/ MarkWaiting(w) \/ LookAgain(w) \/ StartJob(w)
             \/ MarkWaitingOutput(w) \/ FinishJob(w)
      PROVE  LocksHaveHolders'
  <2>1. ~HasLock(w) /\ active' = active /\ \E s : Go(w, s)
    BY <1>5 DEF EnterGroup, MarkWaiting, LookAgain, TryAcquire, StartJob, MarkWaitingOutput, FinishJob,
                HasLock, LockStates
  <2> QED BY <1>2, <2>1
<1>6. ASSUME NEW w \in Worker, BeginWork(w) \/ EndWork(w) \/ RecordBackoff(w) \/ CloseFailed(w)
      PROVE  LocksHaveHolders'
  <2>1. active' = active /\ \E s \in LockStates : Go(w, s)
    BY <1>6 DEF BeginWork, EndWork, RecordBackoff, CloseFailed, LockStates
  <2> QED BY <1>2, <2>1
<1>7. ASSUME NEW w \in Worker, LockOutput(w) PROVE LocksHaveHolders'
  <2>1. ~HasLock(w)
    BY <1>7 DEF LockOutput, HasLock, LockStates
  <2>2. CASE Go(w, "markingOutput") /\ active' = active
    BY <1>2, <2>1, <2>2
  <2>3. CASE Go(w, "locked") /\ active' = active \cup {LockKey(w)}
    <3>1. wjob' = wjob /\ wpc'[w] = "locked" /\ \A v \in Worker \ {w} : wpc'[v] = wpc[v]
      BY <2>3 DEF Go, TypeOK
    <3>2. Holds(w, LockKey(w))'
      BY <3>1 DEF Holds, HasLock, LockStates
    <3>3. LockKey(w)' = LockKey(w)
      BY <3>1 DEF LockKey, Sig
    <3>4. ASSUME NEW k \in active PROVE \E v \in Worker : Holds(v, k)'
      <4>1. PICK v \in Worker : Holds(v, k)
        BY DEF LocksHaveHolders
      <4>2. Holds(v, k)'
        BY <2>1, <3>1, <4>1 DEF Holds, HasLock, LockKey, Sig
      <4> QED BY <4>2
    <3> QED BY <2>3, <3>2, <3>3, <3>4 DEF LocksHaveHolders
  <2> QED BY <1>7, <2>2, <2>3 DEF LockOutput
<1>8. ASSUME NEW w \in Worker, UnlockOutput(w) PROVE LocksHaveHolders'
  <2>1. wjob' = wjob /\ active' = active \ {LockKey(w)}
    BY <1>8 DEF UnlockOutput, Go, Freed
  <2>2. \A v \in Worker \ {w} : wpc'[v] = wpc[v]
    BY <1>8 DEF UnlockOutput, Go, TypeOK
  <2>3. ASSUME NEW v \in Worker, HasLock(v), LockKey(v) \in active' PROVE HasLock(v)'
    BY <2>1, <2>2, <2>3 DEF HasLock
  <2> QED BY <2>1, <2>3, HoldersKept
<1>9. ASSUME NEW w \in Worker, WorkerStep(w) PROVE LocksHaveHolders'
  BY <1>4, <1>5, <1>6, <1>7, <1>8, <1>9 DEF WorkerStep
<1>10. CASE \E j \in Job : CreateJob(j) \/ SubmitJob(j)
  BY <1>1, <1>10 DEF CreateJob, SubmitJob
<1>11. CASE (\E s \in Signature : BackoffPasses(s)) \/ NewDay \/ UNCHANGED vars
  BY <1>1, <1>11 DEF BackoffPasses, NewDay, vars
<1> QED BY <1>9, <1>10, <1>11 DEF Next

\* A group in which a request does not fit is used by somebody.
LEMMA FullGroupIsUsed ==
    ASSUME TypeOK, LeasesCounted, NEW w \in Worker, WaitsForConnections(w)
    PROVE  \E v \in Worker : HasConnections(v) /\ Res(v) = Res(w)
<1>1. wpc[w] \notin {"idle", "entering"}
  BY DEF WaitsForConnections
<1>2. Res(w) \in Group /\ Requested[Sig(w)] \in Nat /\ Requested[Sig(w)] <= limits[Res(w)]
  BY <1>1, RequestType DEF LeasesCounted, LimitsSuffice
<1>3. used[Res(w)] \in Nat /\ limits[Res(w)] \in Nat
  BY <1>2 DEF TypeOK
<1>4. Granted(w, limits) = Requested[Sig(w)]
  BY <1>2, <1>3 DEF Granted, Least
<1>5. used[Res(w)] # 0
  BY <1>2, <1>3, <1>4 DEF WaitsForConnections, Fits
<1>6. Connections(Res(w)) # {}
  BY <1>2, <1>5, FS_EmptySet DEF LeasesCounted, ConnectionsAccounted
<1>7. PICK x : x \in Connections(Res(w))
  BY <1>6
<1> QED BY <1>7, ConnectionOwner

(***************************************************************************)
(* Jobs never wait for each other in a circle, although they keep their    *)
(* connections while they wait for their output: the lock of an output is  *)
(* with a job that nothing holds up, and the connections of a full group   *)
(* are with jobs that nothing holds up or that wait for such an output.    *)
(***************************************************************************)
THEOREM NobodyWaitsInACircle == Spec => []NoWaitingCircle
<1>1. Init => LocksHaveHolders
  BY DEF Init, LocksHaveHolders
<1>2. TypeOK /\ LocksHaveHolders /\ [Next]_vars => LocksHaveHolders'
  BY HoldersStep
<1>3. TypeOK /\ LeasesCounted /\ LocksHaveHolders => NoWaitingCircle
  <2> SUFFICES ASSUME TypeOK, LeasesCounted, LocksHaveHolders PROVE NoWaitingCircle
    OBVIOUS
  <2>1. ASSUME NEW w \in Worker, WaitsForOutput(w)
        PROVE  \E v \in Worker : Holds(v, LockKey(w)) /\ ~Blocked(v)
    <3>1. PICK v \in Worker : Holds(v, LockKey(w))
      BY <2>1 DEF WaitsForOutput, MayLock, LocksHaveHolders
    <3>2. ~Blocked(v)
      BY <3>1 DEF Holds, HasLock, LockStates, Blocked, WaitsForConnections, WaitsForOutput
    <3> QED BY <3>1, <3>2
  <2>2. ASSUME NEW w \in Worker, WaitsForConnections(w)
        PROVE  \E v \in Worker : /\ HasConnections(v) /\ Res(v) = Res(w)
                                 /\ Blocked(v) => WaitsForOutput(v)
    <3>1. PICK v \in Worker : HasConnections(v) /\ Res(v) = Res(w)
      BY <2>2, FullGroupIsUsed
    <3>2. Blocked(v) => WaitsForOutput(v)
      BY <3>1 DEF HasConnections, Blocked, WaitsForConnections
    <3> QED BY <3>1, <3>2
  <2> QED BY <2>1, <2>2 DEF NoWaitingCircle
<1> QED BY <1>1, <1>2, <1>3, TypeCorrect, LeasesInvariant, PTL DEF Spec
=============================================================================
