---------------------- MODULE CollectorSchedulerProofs ----------------------
(***************************************************************************)
(* Proofs about CollectorScheduler for every value of its constants.       *)
(***************************************************************************)
EXTENDS CollectorScheduler, FiniteSetTheorems, TLAPS

\* Callers that hold a run, and workers that may still write its status.
Holding == Deciding \cup {"submitted", "waiting", "blocked", "woken"}
Executing == WorkerState \ {"idle", "closing"}

(***************************************************************************)
(* A thread that holds a run really has one, and no two threads decide     *)
(* about or execute the same run.                                          *)
(***************************************************************************)
CallersHoldRuns == \A c \in Caller : cpc[c] \in Holding => crun[c] \in Run

DecidingOwnsRun ==
    /\ \A c \in Caller : cpc[c] \in Deciding =>
          future[crun[c]] = "none" /\ status[crun[c]] # "absent"
    /\ \A c, d \in Caller :
          cpc[c] \in Deciding /\ cpc[d] \in Deciding /\ crun[c] = crun[d] => c = d

WorkersHoldRuns ==
    \A w \in Worker : wpc[w] # "idle" =>
        wrun[w] \in Run /\ future[wrun[w]] = "running"

WorkersOwnRuns ==
    \A w, v \in Worker :
        wpc[w] # "idle" /\ wpc[v] # "idle" /\ wrun[w] = wrun[v] => w = v

QueueOwnsRuns ==
    /\ \A i \in DOMAIN queue : future[queue[i]] \in {"pending", "cancelled"}
    /\ \A i, j \in DOMAIN queue : queue[i] = queue[j] => i = j

NothingSubmittedUnborn ==
    \A r \in Run : status[r] = "absent" => future[r] = "none"

RunsHaveTasks == \A r \in Run : status[r] # "absent" => taskOf[r] \in Task

CallersHaveTasks == \A c \in Caller : cpc[c] # "idle" => ctask[c] \in Task

ClosingIsFinal ==
    \A w \in Worker : wpc[w] = "closing" => status[wrun[w]] \in Final

CancellingIsKnown == \A r \in cancelling : status[r] # "absent"

StoppedHoldsNothing ==
    ~up => /\ \A c \in Caller : cpc[c] = "idle"
           /\ \A w \in Worker : wpc[w] = "idle"
           /\ \A r \in Run : future[r] = "none"
           /\ queue = <<>>

Ownership ==
    /\ CallersHoldRuns
    /\ DecidingOwnsRun
    /\ WorkersHoldRuns
    /\ WorkersOwnRuns
    /\ QueueOwnsRuns
    /\ NothingSubmittedUnborn
    /\ RunsHaveTasks
    /\ CallersHaveTasks
    /\ ClosingIsFinal
    /\ CancellingIsKnown
    /\ StoppedHoldsNothing

(***************************************************************************)
(* The argument for OneLiveRunPerTask.  A run is admitted while somebody   *)
(* may still make it run; unless it was cancelled, it is active all that   *)
(* time.  It claims its task once FindDuplicate has found no other active  *)
(* run, and a run created later finds it.                                  *)
(***************************************************************************)
Admitted(r) ==
    \/ \E c \in Caller : cpc[c] \in Deciding /\ crun[c] = r
    \/ future[r] = "pending"
    \/ \E w \in Worker : wpc[w] \in Executing /\ wrun[w] = r

AdmittedIsActive == \A r \in Run \ cancelled : Admitted(r) => status[r] \in Active

Claims(r) ==
    \/ \E c \in Caller : cpc[c] = "unique" /\ crun[c] = r
    \/ future[r] \in {"pending", "running"}

Claimant(r) == r \notin cancelled /\ Claims(r) /\ status[r] \in Active

OneClaimPerTask ==
    \A r, q \in Run : Claimant(r) /\ Claimant(q) /\ taskOf[r] = taskOf[q] => r = q

\* The future of an active run is only cancelled by a cancel_run that will write its status.
DroppedIsCancelling ==
    \A r \in Run : future[r] = "cancelled" /\ status[r] \in Active => r \in cancelling

IInv ==
    /\ TypeOK
    /\ Ownership
    /\ AdmittedIsActive
    /\ OneClaimPerTask
    /\ NoOrphanRun
    /\ DroppedIsCancelling

\* Rewriting the summary of a task leaves a well-typed table of tasks.
LEMMA SummarisedType ==
    ASSUME tasks \in [Task -> TaskRecord], NEW t, NEW b \in Run \cup {NoRun}
    PROVE  Summarised(t, b) \in [Task -> TaskRecord]
  BY DEF Summarised, TaskRecord

\* set_task_enabled leaves a well-typed table of tasks.
LEMMA EnabledType ==
    ASSUME tasks \in [Task -> TaskRecord], NEW t, NEW b \in BOOLEAN
    PROVE  [tasks EXCEPT ![t] = [@ EXCEPT !.enabled = b, !.due = FALSE]] \in [Task -> TaskRecord]
  BY DEF TaskRecord

\* Moving next_run_at leaves a well-typed table of tasks.
LEMMA DueType ==
    ASSUME tasks \in [Task -> TaskRecord], NEW t, NEW b \in BOOLEAN
    PROVE  [tasks EXCEPT ![t] = [@ EXCEPT !.due = b]] \in [Task -> TaskRecord]
  BY DEF TaskRecord

\* The copy of an idle caller is a task record.
LEMMA NoRecordType == NoRecord \in TaskRecord
  BY DEF NoRecord, TaskRecord

\* A refreshed copy, saved or not, leaves a well-typed table of tasks.
LEMMA RefreshedType ==
    ASSUME ccopy \in [Caller -> TaskRecord], NEW c \in Caller
    PROVE  Refreshed(c) \in TaskRecord
<1>1. CASE ctask[c] \in available
  BY <1>1 DEF Refreshed, TaskRecord
<1>2. CASE ctask[c] \notin available
  <2>1. (ctask[c] \in available) = FALSE
    BY <1>2
  <2>2. Refreshed(c) = [ccopy[c] EXCEPT !.resolved = FALSE]
    BY <2>1, Zenon DEF Refreshed
  <2> QED BY <2>2 DEF TaskRecord
<1> QED BY <1>1, <1>2

\* Taking a lease adds one to the counter of one group.
LEMMA CountUp ==
    ASSUME NEW S, NEW f \in [S -> Nat], NEW x
    PROVE  [f EXCEPT ![x] = @ + 1] \in [S -> Nat]
<1> DEFINE g == [f EXCEPT ![x] = @ + 1]
<1>1. ASSUME NEW y \in S PROVE g[y] \in Nat
  BY <1>1, SMT
<1> QED BY <1>1

\* Giving a lease back takes one from the counter of one group.
LEMMA CountDown ==
    ASSUME NEW S, NEW f \in [S -> Nat], NEW x
    PROVE  [f EXCEPT ![x] = IF @ > 0 THEN @ - 1 ELSE 0] \in [S -> Nat]
<1> DEFINE g == [f EXCEPT ![x] = IF @ > 0 THEN @ - 1 ELSE 0]
<1>1. ASSUME NEW y \in S PROVE g[y] \in Nat
  BY <1>1, SMT
<1> QED BY <1>1

\* TypeOK is preserved by every step of threads that hold runs.
LEMMA TypeStep ==
    ASSUME TypeOK, CallersHoldRuns, WorkersHoldRuns, [Next]_vars
    PROVE  TypeOK'
<1> USE DEF TypeOK, MoveCaller, MoveWorker,
            storeVars, callerVars, executorVars, workerVars, envVars, historyVars
<1>1. ASSUME NEW c \in Caller, NEW t \in Task, ReadTask(c, t) PROVE TypeOK'
  BY <1>1 DEF ReadTask, CallerState
<1>2. ASSUME NEW c \in Caller, NEW t \in Task, NEW b \in BOOLEAN, SetEnabled(c, t, b) PROVE TypeOK'
  <2>1. tasks' \in [Task -> TaskRecord]
    BY <1>2, EnabledType DEF SetEnabled
  <2>2. ccopy' \in [Caller -> TaskRecord]
    BY <1>2, <2>1 DEF SetEnabled
  <2> QED BY <1>2, <2>1, <2>2 DEF SetEnabled, CallerState
<1>3. ASSUME NEW t \in Task, DeleteTask(t) PROVE TypeOK'
  BY <1>3 DEF DeleteTask
<1>4. ASSUME NEW c \in Caller, RefreshTask(c) PROVE TypeOK'
  <2>1. tasks' \in [Task -> TaskRecord]
    BY <1>4, RefreshedType DEF RefreshTask, SaveRefreshed
  <2>2. CASE Return(c)
    BY <1>4, <2>1, <2>2, NoRecordType DEF RefreshTask, SaveRefreshed, Return, CallerState
  <2>3. CASE KeepRefreshed(c, "looked_up") \/ KeepRefreshed(c, "claiming")
    BY <1>4, <2>1, <2>3, RefreshedType DEF RefreshTask, SaveRefreshed, KeepRefreshed, CallerState
  <2> QED BY <1>4, <2>2, <2>3 DEF RefreshTask
<1>5. ASSUME NEW c \in Caller, ClaimDue(c) PROVE TypeOK'
  <2>1. CASE ctask[c] \in known
    <3>0. tasks' = [tasks EXCEPT ![ctask[c]] = [@ EXCEPT !.due = FALSE]]
      BY <1>5, <2>1 DEF ClaimDue
    <3>1. tasks' \in [Task -> TaskRecord]
      BY <3>0, DueType
    <3>2. ccopy' \in [Caller -> TaskRecord]
      BY <1>5, <2>1, <3>1 DEF ClaimDue
    <3> QED BY <1>5, <2>1, <3>1, <3>2 DEF ClaimDue, CallerState
  <2>2. CASE ctask[c] \notin known
    <3>1. Return(c) /\ UNCHANGED tasks
      BY <1>5, <2>2 DEF ClaimDue
    <3> QED BY <1>5, <3>1, NoRecordType DEF ClaimDue, Return, CallerState
  <2> QED BY <2>1, <2>2
<1>6. ASSUME NEW c \in Caller, RefreshSubmitted(c) PROVE TypeOK'
  BY <1>6, RefreshedType DEF RefreshSubmitted, SaveRefreshed, KeepRefreshed, CallerState
<1>7. ASSUME NEW c \in Caller, NEW r \in Run, CreateRun(c, r) PROVE TypeOK'
  BY <1>7 DEF CreateRun, Status, Active, CallerState
<1>8. ASSUME NEW c \in Caller, SkipDisabled(c) PROVE TypeOK'
  BY <1>8, SummarisedType, NoRecordType DEF SkipDisabled, RefuseRun, FinishRun, Return, CallersHoldRuns, Holding, Deciding, Status, Final, CallerState
<1>9. ASSUME NEW c \in Caller, FailUnresolved(c) PROVE TypeOK'
  BY <1>9, SummarisedType, NoRecordType DEF FailUnresolved, RefuseRun, FinishRun, Return, CallersHoldRuns, Holding, Deciding, Status, Final, CallerState
<1>10. ASSUME NEW c \in Caller, SkipBackoff(c) PROVE TypeOK'
  BY <1>10, SummarisedType, NoRecordType DEF SkipBackoff, RefuseRun, FinishRun, Return, TaskRecord, Status, Final, CallerState
<1>11. ASSUME NEW c \in Caller, PassChecks(c) PROVE TypeOK'
  BY <1>11 DEF PassChecks, CallerState
<1>12. ASSUME NEW c \in Caller, FindDuplicate(c) PROVE TypeOK'
  <2>1. CASE MoveCaller(c, "unique") /\ UNCHANGED duplicateOf
    BY <1>12, <2>1 DEF FindDuplicate, CallerState
  <2>2. CASE \E q \in Duplicates(crun[c]) :
               /\ MoveCaller(c, "duplicate")
               /\ duplicateOf' = [duplicateOf EXCEPT ![crun[c]] = q]
    <3>1. PICK q \in Run : /\ MoveCaller(c, "duplicate")
                          /\ duplicateOf' = [duplicateOf EXCEPT ![crun[c]] = q]
      BY <2>2 DEF Duplicates
    <3> QED BY <1>12, <3>1 DEF FindDuplicate, CallerState
  <2> QED BY <1>12, <2>1, <2>2 DEF FindDuplicate
<1>13. ASSUME NEW c \in Caller, SkipDuplicate(c) PROVE TypeOK'
  BY <1>13, SummarisedType, NoRecordType DEF SkipDuplicate, RefuseRun, FinishRun, Return, CallersHoldRuns, Holding, Deciding, Status, Final, CallerState
<1>14. ASSUME NEW c \in Caller, SubmitFuture(c) PROVE TypeOK'
  BY <1>14 DEF SubmitFuture, CallersHoldRuns, Holding, Deciding, FutureState, CallerState
<1>15. ASSUME NEW c \in Caller, RegisterFuture(c) PROVE TypeOK'
  <2>1. registered' \subseteq Run
    BY <1>15 DEF RegisterFuture, CallersHoldRuns, Holding
  <2>2. CASE Return(c)
    BY <1>15, <2>1, <2>2, NoRecordType DEF RegisterFuture, Return, CallerState
  <2>3. CASE MoveCaller(c, "waiting") /\ UNCHANGED <<crun, ctask, ccopy>>
    BY <1>15, <2>1, <2>3 DEF RegisterFuture, CallerState
  <2> QED BY <1>15, <2>2, <2>3 DEF RegisterFuture
<1>16. ASSUME NEW c \in Caller, LookUpFuture(c) PROVE TypeOK'
  BY <1>16 DEF LookUpFuture, CallerState
<1>17. ASSUME NEW c \in Caller, FutureResult(c) PROVE TypeOK'
  <2>1. CASE Return(c)
    BY <1>17, <2>1, NoRecordType DEF FutureResult, Return, CallerState
  <2>2. CASE MoveCaller(c, "woken") /\ UNCHANGED <<crun, ctask, ccopy>>
    BY <1>17, <2>2 DEF FutureResult, CallerState
  <2> QED BY <1>17, <2>1, <2>2 DEF FutureResult
<1>18. ASSUME NEW c \in Caller, ReadResult(c) PROVE TypeOK'
  BY <1>18, NoRecordType DEF ReadResult, Return, CallersHoldRuns, Holding, CallerState
<1>19. ASSUME NEW r \in Run, CancelFuture(r) PROVE TypeOK'
  BY <1>19 DEF CancelFuture, FutureState
<1>20. ASSUME NEW r \in Run, WriteCancelled(r) PROVE TypeOK'
  BY <1>20, SummarisedType DEF WriteCancelled, FinishRun, Status, Final
<1>21. ASSUME NEW w \in Worker, TakeRun(w) PROVE TypeOK'
  <2>1. queue' \in Seq(Run) /\ Head(queue) \in Run
    BY <1>21 DEF TakeRun
  <2>2. future' \in [Run -> FutureState]
    BY <1>21 DEF TakeRun, FutureState
  <2>3. wrun' \in [Worker -> Run \cup {NoRun}]
    BY <1>21, <2>1 DEF TakeRun
  <2>4. wpc' \in [Worker -> WorkerState]
    BY <1>21 DEF TakeRun, WorkerState
  <2> QED BY <1>21, <2>1, <2>2, <2>3, <2>4 DEF TakeRun
<1>22. ASSUME NEW w \in Worker, FailMissingTask(w) PROVE TypeOK'
  BY <1>22, SummarisedType DEF FailMissingTask, FinishRun, EndRun, WorkersHoldRuns, Status, Final, WorkerState, FutureState
<1>23. ASSUME NEW w \in Worker, AcquireLease(w) PROVE TypeOK'
  BY <1>23, CountUp DEF AcquireLease, WorkerState
<1>24. ASSUME NEW w \in Worker, ObserveWaiting(w) PROVE TypeOK'
  BY <1>24 DEF ObserveWaiting, StepWorker, WorkerState
<1>25. ASSUME NEW w \in Worker, MarkWaiting(w) PROVE TypeOK'
  BY <1>25 DEF MarkWaiting, MarkRun, Status, Active, WorkerState
<1>26. ASSUME NEW w \in Worker, StartRun(w) PROVE TypeOK'
  BY <1>26, CountUp DEF StartRun, MarkRun, Status, Active, WorkerState
<1>27. ASSUME NEW w \in Worker, CollectorReturns(w) PROVE TypeOK'
  BY <1>27 DEF CollectorReturns, WorkersHoldRuns, WorkerState
<1>28. ASSUME NEW w \in Worker, CollectorRaises(w) PROVE TypeOK'
  BY <1>28 DEF CollectorRaises, StepWorker, WorkerState
<1>29. ASSUME NEW w \in Worker, FinishLease(w) PROVE TypeOK'
  BY <1>29, CountDown DEF FinishLease, ReleaseLease, WorkerState
<1>30. ASSUME NEW w \in Worker, CheckCancelled(w) PROVE TypeOK'
  BY <1>30 DEF CheckCancelled, StepWorker, EndRun, WorkerState, FutureState
<1>31. ASSUME NEW w \in Worker, WriteSuccess(w) PROVE TypeOK'
  BY <1>31, SummarisedType DEF WriteSuccess, FinishRun, EndRun, Status, Final, WorkerState, FutureState
<1>32. ASSUME NEW w \in Worker, InspectFailure(w) PROVE TypeOK'
  BY <1>32 DEF InspectFailure, StepWorker, WorkerState
<1>33. ASSUME NEW w \in Worker, WriteRetry(w) PROVE TypeOK'
  BY <1>33 DEF WriteRetry, MarkRun, Status, Active, WorkerState
<1>34. ASSUME NEW w \in Worker, ReleaseForRetry(w) PROVE TypeOK'
  BY <1>34, CountDown DEF ReleaseForRetry, ReleaseLease, WorkerState
<1>35. ASSUME NEW w \in Worker, WriteFailure(w) PROVE TypeOK'
  BY <1>35, SummarisedType DEF WriteFailure, FinishRun, WorkersHoldRuns, Status, Final, WorkerState
<1>36. ASSUME NEW w \in Worker, CloseFailed(w) PROVE TypeOK'
  BY <1>36, CountDown DEF CloseFailed, ReleaseLease, EndRun, WorkerState, FutureState
<1>37. ASSUME Crash PROVE TypeOK'
  <2>1. /\ cpc' \in [Caller -> CallerState]
        /\ crun' \in [Caller -> Run \cup {NoRun}]
        /\ ctask' \in [Caller -> Task \cup {NoTask}]
    BY <1>37 DEF Crash, CallerState
  <2>2. ccopy' \in [Caller -> TaskRecord]
    BY <1>37, NoRecordType DEF Crash
  <2>3. /\ cancelling' \subseteq Run
        /\ queue' \in Seq(Run)
        /\ future' \in [Run -> FutureState]
        /\ registered' \subseteq Run
    BY <1>37 DEF Crash, FutureState
  <2>4. /\ wpc' \in [Worker -> WorkerState]
        /\ wrun' \in [Worker -> Run \cup {NoRun}]
        /\ active' \in [ResourceGroup -> Nat]
    BY <1>37 DEF Crash, WorkerState
  <2> QED BY <1>37, <2>1, <2>2, <2>3, <2>4 DEF Crash
<1>38. ASSUME RecoverInterruptedRuns PROVE TypeOK'
  <2>1. status' \in [Run -> Status]
    BY <1>38 DEF RecoverInterruptedRuns, Status, Final
  <2>2. tasks' \in [Task -> TaskRecord]
    <3>1. PICK last \in [Task -> Run \cup {NoRun}] :
             tasks' = [t \in Task |-> IF last[t] = NoRun THEN tasks[t]
                                     ELSE Summarised(t, backoffOf[last[t]])[t]]
      BY <1>38 DEF RecoverInterruptedRuns
    <3>2. ASSUME NEW t \in Task, last[t] # NoRun
          PROVE  Summarised(t, backoffOf[last[t]])[t] \in TaskRecord
      <4>1. backoffOf[last[t]] \in Run \cup {NoRun}
        BY <3>2
      <4> QED BY <4>1, SummarisedType
    <3> QED BY <3>1, <3>2
  <2> QED BY <1>38, <2>1, <2>2 DEF RecoverInterruptedRuns
<1>39. ASSUME NEW t \in Task, BecomeDue(t) PROVE TypeOK'
  BY <1>39, DueType DEF BecomeDue
<1>40. ASSUME NEW t \in Task, FlipAvailable(t) PROVE TypeOK'
  BY <1>40 DEF FlipAvailable
<1>41. ASSUME NEW r \in Run, BackoffExpires(r) PROVE TypeOK'
  BY <1>41 DEF BackoffExpires
<1>42. CASE UNCHANGED vars
  BY <1>42 DEF vars
<1> HIDE DEF TypeOK, MoveCaller, MoveWorker
<1> QED BY <1>1, <1>2, <1>3, <1>4, <1>5, <1>6, <1>7, <1>8, <1>9, <1>10, <1>11, <1>12, <1>13, <1>14, <1>15, <1>16, <1>17, <1>18, <1>19, <1>20, <1>21, <1>22, <1>23, <1>24, <1>25, <1>26, <1>27, <1>28, <1>29, <1>30, <1>31, <1>32, <1>33, <1>34, <1>35, <1>36, <1>37, <1>38, <1>39, <1>40, <1>41, <1>42
        DEF Next, ServiceNext, EnvironmentNext, CallerStep, WorkerStep, Caller

-----------------------------------------------------------------------------
(***************************************************************************)
(* What a step does to the threads, the queue, the futures and the         *)
(* statuses: the forms that the remaining proofs tell apart.               *)
(***************************************************************************)
ownVars == <<status, taskOf, cpc, crun, ctask, cancelling, queue, future, wpc, wrun, up,
             cancelled>>

\* A caller moves before it has created its run or after it has submitted it.
Wander(c) ==
    /\ up
    /\ \E s \in CallerState \ Deciding :
         /\ cpc[c] \notin Deciding
         /\ cpc' = [cpc EXCEPT ![c] = s]
         /\ s \in Holding => cpc[c] \in Holding /\ crun' = crun
         /\ s # "idle" => ctask'[c] \in Task
    /\ \A d \in Caller \ {c} : crun'[d] = crun[d] /\ ctask'[d] = ctask[d]
    /\ UNCHANGED <<status, taskOf, cancelling, queue, future, wpc, wrun, up, cancelled>>

\* A caller goes on deciding about its run; it passes FindDuplicate only without a duplicate.
Decide(c) ==
    /\ cpc[c] \in Deciding
    /\ \E s \in Deciding :
         /\ cpc' = [cpc EXCEPT ![c] = s]
         /\ s = "unique" => Duplicates(crun[c]) = {}
    /\ UNCHANGED <<status, taskOf, crun, ctask, cancelling, queue, future, wpc, wrun, up,
                   cancelled>>

\* A caller refuses its run and returns.
Refuse(c) ==
    /\ cpc[c] \in Deciding
    /\ \E f \in Final : status' = [status EXCEPT ![crun[c]] = f]
    /\ Return(c)
    /\ UNCHANGED <<taskOf, cancelling, queue, future, wpc, wrun, up, cancelled>>

\* A worker goes on with its run.
WorkerMoves(w, s) ==
    /\ s # "idle"
    /\ wpc[w] # "idle"
    /\ wpc' = [wpc EXCEPT ![w] = s]
    /\ s \in Executing => wpc[w] \in Executing
    /\ s = "closing" => status[wrun[w]] \in Final
    /\ UNCHANGED <<status, taskOf, cpc, crun, ctask, cancelling, queue, future, wrun, up,
                   cancelled>>

\* A worker writes its run as queued or running, whatever its status was.
WorkerMarks(w) ==
    /\ wpc[w] \in Executing
    /\ \E s \in Executing : wpc' = [wpc EXCEPT ![w] = s]
    /\ \E a \in Active : status' = [status EXCEPT ![wrun[w]] = a]
    /\ UNCHANGED <<taskOf, cpc, crun, ctask, cancelling, queue, future, wrun, up, cancelled>>

\* A worker writes its run as failed.
WorkerFails(w) ==
    /\ wpc[w] \in Executing
    /\ wpc' = [wpc EXCEPT ![w] = "closing"]
    /\ status' = [status EXCEPT ![wrun[w]] = "failed"]
    /\ UNCHANGED <<taskOf, cpc, crun, ctask, cancelling, queue, future, wrun, up, cancelled>>

\* A worker is done with a run that has a final status.
WorkerEnds(w) ==
    /\ wpc[w] # "idle"
    /\ EndRun(w)
    /\ \E f \in Final : status' = [status EXCEPT ![wrun[w]] = f]
    /\ status' = status \/ wpc[w] \in Executing
    /\ UNCHANGED <<taskOf, cancelled>>

StepForm ==
    \/ \E c \in Caller :
          \/ Wander(c) \/ Decide(c) \/ Refuse(c) \/ SubmitFuture(c)
          \/ \E r \in Run : CreateRun(c, r)
    \/ \E w \in Worker :
          \/ \E s \in WorkerState : WorkerMoves(w, s)
          \/ WorkerMarks(w) \/ WorkerFails(w) \/ WorkerEnds(w) \/ TakeRun(w)
    \/ \E r \in Run : CancelFuture(r) \/ WriteCancelled(r)
    \/ Crash \/ RecoverInterruptedRuns
    \/ UNCHANGED ownVars

\* Every step of the specification has one of these forms.
LEMMA StepHasForm ==
    ASSUME TypeOK, Ownership, [Next]_vars
    PROVE  StepForm
<1> USE DEF storeVars, callerVars, executorVars, workerVars, envVars, historyVars
<1>1. ASSUME NEW c \in Caller, NEW t \in Task, ReadTask(c, t) PROVE Wander(c)
  BY <1>1 DEF ReadTask, Wander, TypeOK, MoveCaller, CallerState, Deciding, Holding
<1>2. ASSUME NEW c \in Caller, NEW t \in Task, NEW b \in BOOLEAN, SetEnabled(c, t, b) PROVE Wander(c)
  BY <1>2 DEF SetEnabled, Wander, TypeOK, MoveCaller, CallerState, Deciding, Holding
<1>3. ASSUME NEW c \in Caller, RefreshTask(c) PROVE Wander(c)
  BY <1>3 DEF RefreshTask, Wander, TypeOK, Ownership, CallersHaveTasks, StoppedHoldsNothing, MoveCaller, SaveRefreshed, KeepRefreshed, Return, CallerState, Deciding, Holding
<1>4. ASSUME NEW c \in Caller, ClaimDue(c) PROVE Wander(c)
  BY <1>4 DEF ClaimDue, Wander, TypeOK, Ownership, CallersHaveTasks, StoppedHoldsNothing, MoveCaller, Return, CallerState, Deciding, Holding
<1>5. ASSUME NEW c \in Caller, RefreshSubmitted(c) PROVE Wander(c)
  BY <1>5 DEF RefreshSubmitted, Wander, TypeOK, Ownership, CallersHaveTasks, StoppedHoldsNothing, MoveCaller, SaveRefreshed, KeepRefreshed, CallerState, Deciding, Holding
<1>6. ASSUME NEW c \in Caller, RegisterFuture(c) PROVE Wander(c)
  BY <1>6 DEF RegisterFuture, Wander, TypeOK, Ownership, CallersHaveTasks, StoppedHoldsNothing, MoveCaller, Return, CallerState, Deciding, Holding
<1>7. ASSUME NEW c \in Caller, LookUpFuture(c) PROVE Wander(c)
  BY <1>7 DEF LookUpFuture, Wander, TypeOK, Ownership, CallersHaveTasks, StoppedHoldsNothing, MoveCaller, CallerState, Deciding, Holding
<1>8. ASSUME NEW c \in Caller, FutureResult(c) PROVE Wander(c)
  BY <1>8 DEF FutureResult, Wander, TypeOK, Ownership, CallersHaveTasks, StoppedHoldsNothing, MoveCaller, Return, CallerState, Deciding, Holding
<1>9. ASSUME NEW c \in Caller, ReadResult(c) PROVE Wander(c)
  BY <1>9 DEF ReadResult, Wander, TypeOK, Ownership, CallersHaveTasks, StoppedHoldsNothing, MoveCaller, Return, CallerState, Deciding, Holding
<1>10. ASSUME NEW c \in Caller, PassChecks(c) PROVE Decide(c)
  BY <1>10 DEF PassChecks, Decide, MoveCaller, Deciding
<1>11. ASSUME NEW c \in Caller, FindDuplicate(c) PROVE Decide(c)
  BY <1>11 DEF FindDuplicate, Decide, MoveCaller, Deciding
<1>12. ASSUME NEW c \in Caller, SkipDisabled(c) PROVE Refuse(c)
  BY <1>12 DEF SkipDisabled, Refuse, RefuseRun, FinishRun, Final, Deciding
<1>13. ASSUME NEW c \in Caller, FailUnresolved(c) PROVE Refuse(c)
  BY <1>13 DEF FailUnresolved, Refuse, RefuseRun, FinishRun, Final, Deciding
<1>14. ASSUME NEW c \in Caller, SkipBackoff(c) PROVE Refuse(c)
  BY <1>14 DEF SkipBackoff, Refuse, RefuseRun, FinishRun, Final, Deciding
<1>15. ASSUME NEW c \in Caller, SkipDuplicate(c) PROVE Refuse(c)
  BY <1>15 DEF SkipDuplicate, Refuse, RefuseRun, FinishRun, Final, Deciding
<1>16. ASSUME NEW w \in Worker, AcquireLease(w) PROVE WorkerMoves(w, "leased")
  BY <1>16 DEF AcquireLease, WorkerMoves, MoveWorker, WorkerState, Executing
<1>17. ASSUME NEW w \in Worker, ObserveWaiting(w) PROVE WorkerMoves(w, "marking")
  BY <1>17 DEF ObserveWaiting, WorkerMoves, StepWorker, MoveWorker, WorkerState, Executing
<1>18. ASSUME NEW w \in Worker, CollectorReturns(w) PROVE WorkerMoves(w, "returned")
  BY <1>18 DEF CollectorReturns, WorkerMoves, MoveWorker, WorkerState, Executing
<1>19. ASSUME NEW w \in Worker, CollectorRaises(w) PROVE \E s \in WorkerState : WorkerMoves(w, s)
  BY <1>19 DEF CollectorRaises, WorkerMoves, StepWorker, MoveWorker, WorkerState, Executing
<1>20. ASSUME NEW w \in Worker, FinishLease(w) PROVE WorkerMoves(w, "released")
  BY <1>20 DEF FinishLease, WorkerMoves, MoveWorker, WorkerState, Executing
<1>21. ASSUME NEW w \in Worker, InspectFailure(w) PROVE \E s \in WorkerState : WorkerMoves(w, s)
  <2>1. PICK s \in {"closing", "failing", "retrying", "backing_off"} :
            StepWorker(w, s) /\ (s = "closing" => status[wrun[w]] = "cancelled")
    BY <1>21 DEF InspectFailure
  <2>2. WorkerMoves(w, s)
    BY <1>21, <2>1 DEF InspectFailure, WorkerMoves, StepWorker, MoveWorker, WorkerState, Executing, Final
  <2> QED BY <2>1, <2>2 DEF WorkerState
<1>22. ASSUME NEW w \in Worker, ReleaseForRetry(w) PROVE WorkerMoves(w, "acquiring")
  BY <1>22 DEF ReleaseForRetry, WorkerMoves, MoveWorker, WorkerState, Executing
<1>23. ASSUME NEW w \in Worker, MarkWaiting(w) PROVE WorkerMarks(w)
  BY <1>23 DEF MarkWaiting, WorkerMarks, MoveWorker, MarkRun, WorkerState, Executing, Active
<1>24. ASSUME NEW w \in Worker, StartRun(w) PROVE WorkerMarks(w)
  BY <1>24 DEF StartRun, WorkerMarks, MoveWorker, MarkRun, WorkerState, Executing, Active
<1>25. ASSUME NEW w \in Worker, WriteRetry(w) PROVE WorkerMarks(w)
  BY <1>25 DEF WriteRetry, WorkerMarks, MoveWorker, MarkRun, WorkerState, Executing, Active
<1>26. ASSUME NEW w \in Worker, WriteFailure(w) PROVE WorkerFails(w)
  BY <1>26 DEF WriteFailure, WorkerFails, MoveWorker, FinishRun, WorkerState, Executing
<1>27. ASSUME NEW w \in Worker, FailMissingTask(w) PROVE WorkerEnds(w)
  BY <1>27 DEF FailMissingTask, WorkerEnds, FinishRun, Final, Executing, WorkerState
<1>28. ASSUME NEW w \in Worker, WriteSuccess(w) PROVE WorkerEnds(w)
  BY <1>28 DEF WriteSuccess, WorkerEnds, FinishRun, Final, Executing, WorkerState
<1>29. ASSUME NEW w \in Worker, CloseFailed(w) PROVE WorkerEnds(w)
  BY <1>29 DEF CloseFailed, WorkerEnds, TypeOK, Ownership, WorkersHoldRuns, ClosingIsFinal
<1>30. ASSUME NEW w \in Worker, CheckCancelled(w) PROVE WorkerEnds(w) \/ WorkerMoves(w, "succeeding")
  BY <1>30 DEF CheckCancelled, WorkerEnds, WorkerMoves, TypeOK, Ownership, WorkersHoldRuns, StepWorker, MoveWorker, WorkerState, Executing, Final
<1>31. ASSUME NEW t \in Task, DeleteTask(t) PROVE UNCHANGED ownVars
  BY <1>31 DEF DeleteTask, ownVars
<1>32. ASSUME NEW t \in Task, BecomeDue(t) PROVE UNCHANGED ownVars
  BY <1>32 DEF BecomeDue, ownVars
<1>33. ASSUME NEW t \in Task, FlipAvailable(t) PROVE UNCHANGED ownVars
  BY <1>33 DEF FlipAvailable, ownVars
<1>34. ASSUME NEW r \in Run, BackoffExpires(r) PROVE UNCHANGED ownVars
  BY <1>34 DEF BackoffExpires, ownVars
<1>35. ASSUME UNCHANGED vars PROVE UNCHANGED ownVars
  BY <1>35 DEF vars, ownVars
<1>36. \A s \in {"leased", "marking", "returned", "released", "acquiring", "succeeding"} :
          s \in WorkerState
  BY DEF WorkerState
<1> QED BY <1>1, <1>2, <1>3, <1>4, <1>5, <1>6, <1>7, <1>8, <1>9, <1>10, <1>11, <1>12,
           <1>13, <1>14, <1>15, <1>16, <1>17, <1>18, <1>19, <1>20, <1>21, <1>22, <1>23,
           <1>24, <1>25, <1>26, <1>27, <1>28, <1>29, <1>30, <1>31, <1>32, <1>33, <1>34,
           <1>35, <1>36
        DEF StepForm, Next, ServiceNext, EnvironmentNext, CallerStep, WorkerStep, Caller

\* Every step keeps runs with the threads that hold them.
LEMMA OwnershipStep ==
    ASSUME TypeOK, TypeOK', Ownership, StepForm
    PROVE  Ownership'
<1> USE DEF storeVars, callerVars, executorVars, workerVars, envVars, historyVars,
            Ownership, CallersHoldRuns, DecidingOwnsRun, WorkersHoldRuns, WorkersOwnRuns,
            QueueOwnsRuns, NothingSubmittedUnborn, RunsHaveTasks, CallersHaveTasks,
            ClosingIsFinal, CancellingIsKnown, StoppedHoldsNothing, Deciding, TypeOK
<1>1. ASSUME NEW c \in Caller, Wander(c) PROVE Ownership'
  BY <1>1 DEF Wander, CallerState, Holding
<1>2. ASSUME NEW c \in Caller, Decide(c) PROVE Ownership'
  BY <1>2 DEF Decide, Holding
<1>3. ASSUME NEW c \in Caller, Refuse(c) PROVE Ownership'
  BY <1>3 DEF Refuse, Return, MoveCaller, Holding, Final
<1>4. ASSUME NEW c \in Caller, SubmitFuture(c) PROVE Ownership'
  <2>1. CallersHoldRuns'
    BY <1>4 DEF SubmitFuture, MoveCaller, Holding
  <2>2. DecidingOwnsRun'
    BY <1>4 DEF SubmitFuture, MoveCaller, Holding
  <2>3. WorkersHoldRuns'
    BY <1>4 DEF SubmitFuture, MoveCaller, Holding
  <2>4. WorkersOwnRuns'
    BY <1>4 DEF SubmitFuture, MoveCaller, Holding
  <2>5. QueueOwnsRuns'
    <3>1. /\ crun[c] \in Run /\ future[crun[c]] = "none"
          /\ queue' = Append(queue, crun[c])
          /\ future' = [future EXCEPT ![crun[c]] = "pending"]
      BY <1>4 DEF SubmitFuture, Holding
    <3>2. \A i \in DOMAIN queue : queue[i] \in Run /\ queue[i] # crun[c]
      BY <3>1
    <3>3. /\ DOMAIN queue' = DOMAIN queue \cup {Len(queue) + 1}
          /\ queue'[Len(queue) + 1] = crun[c]
          /\ \A i \in DOMAIN queue : queue'[i] = queue[i]
      BY <3>1
    <3>4. \A i \in DOMAIN queue' : future'[queue'[i]] \in {"pending", "cancelled"}
      BY <3>1, <3>2, <3>3
    <3>5. \A i, j \in DOMAIN queue' : queue'[i] = queue'[j] => i = j
      BY <3>2, <3>3
    <3> QED BY <3>4, <3>5
  <2>6. NothingSubmittedUnborn'
    BY <1>4 DEF SubmitFuture, MoveCaller, Holding
  <2>7. RunsHaveTasks'
    BY <1>4 DEF SubmitFuture, MoveCaller, Holding
  <2>8. CallersHaveTasks'
    BY <1>4 DEF SubmitFuture, MoveCaller, Holding
  <2>9. ClosingIsFinal'
    BY <1>4 DEF SubmitFuture, MoveCaller, Holding
  <2>10. CancellingIsKnown'
    BY <1>4 DEF SubmitFuture, MoveCaller, Holding
  <2>11. StoppedHoldsNothing'
    BY <1>4 DEF SubmitFuture, MoveCaller, Holding
  <2> QED BY <2>1, <2>2, <2>3, <2>4, <2>5, <2>6, <2>7, <2>8, <2>9, <2>10, <2>11
<1>5. ASSUME NEW c \in Caller, NEW r \in Run, CreateRun(c, r) PROVE Ownership'
  <2>1. CallersHoldRuns'
    BY <1>5 DEF CreateRun, MoveCaller, Holding
  <2>2. DecidingOwnsRun'
    BY <1>5 DEF CreateRun, MoveCaller, Holding
  <2>3. WorkersHoldRuns'
    BY <1>5 DEF CreateRun, MoveCaller, Holding
  <2>4. WorkersOwnRuns'
    BY <1>5 DEF CreateRun, MoveCaller, Holding
  <2>5. QueueOwnsRuns'
    BY <1>5 DEF CreateRun, MoveCaller, Holding
  <2>6. NothingSubmittedUnborn'
    BY <1>5 DEF CreateRun, MoveCaller, Holding
  <2>7. RunsHaveTasks'
    BY <1>5 DEF CreateRun, MoveCaller, Holding
  <2>8. CallersHaveTasks'
    BY <1>5 DEF CreateRun, MoveCaller, Holding
  <2>9. ClosingIsFinal'
    BY <1>5 DEF CreateRun, MoveCaller, Holding
  <2>10. CancellingIsKnown'
    BY <1>5 DEF CreateRun, MoveCaller, Holding
  <2>11. StoppedHoldsNothing'
    BY <1>5 DEF CreateRun, MoveCaller, Holding
  <2> QED BY <2>1, <2>2, <2>3, <2>4, <2>5, <2>6, <2>7, <2>8, <2>9, <2>10, <2>11
<1>6. ASSUME NEW w \in Worker, NEW s \in WorkerState, WorkerMoves(w, s) PROVE Ownership'
  BY <1>6 DEF WorkerMoves
<1>7. ASSUME NEW w \in Worker, WorkerMarks(w) PROVE Ownership'
  BY <1>7 DEF WorkerMarks, Executing, Active
<1>8. ASSUME NEW w \in Worker, WorkerFails(w) PROVE Ownership'
  BY <1>8 DEF WorkerFails, Executing, Final
<1>9. ASSUME NEW w \in Worker, WorkerEnds(w) PROVE Ownership'
  BY <1>9 DEF WorkerEnds, EndRun, MoveWorker, Final
<1>10. ASSUME NEW w \in Worker, TakeRun(w) PROVE Ownership'
  <2>0. /\ Head(queue) = queue[1] /\ 1 \in DOMAIN queue /\ queue[1] \in Run
        /\ \A i \in DOMAIN Tail(queue) :
              i + 1 \in DOMAIN queue /\ Tail(queue)[i] = queue[i + 1] /\ i + 1 # 1 /\ i \in Nat
    BY <1>10 DEF TakeRun
  <2>1. CallersHoldRuns'
    BY <1>10 DEF TakeRun, MoveWorker
  <2>2. DecidingOwnsRun'
    <3>1. ASSUME NEW c \in Caller, cpc[c] \in Deciding PROVE future'[crun[c]] = "none"
      <4>1. crun[c] # queue[1]
        BY <2>0, <3>1
      <4> QED BY <1>10, <2>0, <3>1, <4>1 DEF TakeRun, Holding
    <3> QED BY <1>10, <3>1 DEF TakeRun
  <2>3. WorkersHoldRuns'
    BY <1>10 DEF TakeRun, MoveWorker
  <2>4. WorkersOwnRuns'
    <3>1. CASE future[queue[1]] = "cancelled"
      BY <1>10, <2>0, <3>1 DEF TakeRun
    <3>2. CASE future[queue[1]] = "pending"
      <4>1. /\ wrun' = [wrun EXCEPT ![w] = queue[1]]
            /\ wpc' = [wpc EXCEPT ![w] = wpc'[w]]
        BY <1>10, <2>0, <3>2 DEF TakeRun, MoveWorker
      <4>2. \A v \in Worker : wpc[v] # "idle" => wrun[v] # queue[1]
        BY <3>2
      <4> QED BY <4>1, <4>2
    <3> QED BY <1>10, <2>0, <3>1, <3>2 DEF TakeRun
  <2>5. QueueOwnsRuns'
    <3>1. \A i \in DOMAIN Tail(queue) : future'[Tail(queue)[i]] = future[Tail(queue)[i]]
      BY <1>10, <2>0 DEF TakeRun
    <3> QED BY <1>10, <2>0, <3>1 DEF TakeRun
  <2>6. NothingSubmittedUnborn'
    BY <1>10 DEF TakeRun, MoveWorker
  <2>7. RunsHaveTasks'
    BY <1>10 DEF TakeRun, MoveWorker
  <2>8. CallersHaveTasks'
    BY <1>10 DEF TakeRun, MoveWorker
  <2>9. ClosingIsFinal'
    BY <1>10 DEF TakeRun, MoveWorker
  <2>10. CancellingIsKnown'
    BY <1>10 DEF TakeRun, MoveWorker
  <2>11. StoppedHoldsNothing'
    BY <1>10 DEF TakeRun, MoveWorker
  <2> QED BY <2>1, <2>2, <2>3, <2>4, <2>5, <2>6, <2>7, <2>8, <2>9, <2>10, <2>11
<1>11. ASSUME NEW r \in Run, CancelFuture(r) PROVE Ownership'
  BY <1>11 DEF CancelFuture
<1>12. ASSUME NEW r \in Run, WriteCancelled(r) PROVE Ownership'
  BY <1>12 DEF WriteCancelled, FinishRun, Final
<1>13. ASSUME Crash PROVE Ownership'
  BY <1>13 DEF Crash, Deciding, Holding
<1>14. ASSUME RecoverInterruptedRuns PROVE Ownership'
  BY <1>14 DEF RecoverInterruptedRuns, Interrupted, Final, Active
<1>15. ASSUME UNCHANGED ownVars PROVE Ownership'
  BY <1>15 DEF ownVars
<1> HIDE DEF Ownership, TypeOK
<1> QED BY <1>1, <1>2, <1>3, <1>4, <1>5, <1>6, <1>7, <1>8, <1>9, <1>10, <1>11, <1>12, <1>13, <1>14, <1>15 DEF StepForm

\* A run somebody may still make run stays active, unless it is cancelled.
LEMMA AdmittedStep ==
    ASSUME TypeOK, TypeOK', Ownership, Ownership', AdmittedIsActive, StepForm
    PROVE  AdmittedIsActive'
<1> USE DEF storeVars, callerVars, executorVars, workerVars, envVars, historyVars,
            Ownership, CallersHoldRuns, DecidingOwnsRun, WorkersHoldRuns, WorkersOwnRuns,
            QueueOwnsRuns, NothingSubmittedUnborn, StoppedHoldsNothing,
            AdmittedIsActive, Admitted, Deciding, Holding, TypeOK
<1>1. ASSUME NEW c \in Caller, Wander(c) PROVE AdmittedIsActive'
  BY <1>1 DEF Wander
<1>2. ASSUME NEW c \in Caller, Decide(c) PROVE AdmittedIsActive'
  BY <1>2 DEF Decide
<1>3. ASSUME NEW c \in Caller, Refuse(c) PROVE AdmittedIsActive'
  <2>1. \A r \in Run : Admitted(r)' => Admitted(r) /\ r # crun[c]
    BY <1>3 DEF Refuse, Return, MoveCaller, Executing
  <2>2. \A r \in Run : r # crun[c] => status'[r] = status[r]
    BY <1>3 DEF Refuse
  <2> HIDE DEF Admitted
  <2> QED BY <1>3, <2>1, <2>2 DEF Refuse
<1>4. ASSUME NEW c \in Caller, SubmitFuture(c) PROVE AdmittedIsActive'
  BY <1>4 DEF SubmitFuture, MoveCaller
<1>5. ASSUME NEW c \in Caller, NEW r \in Run, CreateRun(c, r) PROVE AdmittedIsActive'
  BY <1>5 DEF CreateRun, MoveCaller, Active
<1>6. ASSUME NEW w \in Worker, NEW s \in WorkerState, WorkerMoves(w, s) PROVE AdmittedIsActive'
  BY <1>6 DEF WorkerMoves
<1>7. ASSUME NEW w \in Worker, WorkerMarks(w) PROVE AdmittedIsActive'
  BY <1>7 DEF WorkerMarks, Executing, Active
<1>8. ASSUME NEW w \in Worker, WorkerFails(w) PROVE AdmittedIsActive'
  BY <1>8 DEF WorkerFails, Executing
<1>9. ASSUME NEW w \in Worker, WorkerEnds(w) PROVE AdmittedIsActive'
  BY <1>9 DEF WorkerEnds, EndRun, MoveWorker, Executing
<1>10. ASSUME NEW w \in Worker, TakeRun(w) PROVE AdmittedIsActive'
  <2>1. \A r \in Run : Admitted(r)' => Admitted(r)
    BY <1>10 DEF TakeRun, MoveWorker, Executing
  <2> HIDE DEF Admitted
  <2> QED BY <1>10, <2>1 DEF TakeRun
<1>11. ASSUME NEW r \in Run, CancelFuture(r) PROVE AdmittedIsActive'
  BY <1>11 DEF CancelFuture
<1>12. ASSUME NEW r \in Run, WriteCancelled(r) PROVE AdmittedIsActive'
  BY <1>12 DEF WriteCancelled, FinishRun
<1>13. ASSUME Crash PROVE AdmittedIsActive'
  BY <1>13 DEF Crash, Executing
<1>14. ASSUME RecoverInterruptedRuns PROVE AdmittedIsActive'
  BY <1>14 DEF RecoverInterruptedRuns, Executing
<1>15. ASSUME UNCHANGED ownVars PROVE AdmittedIsActive'
  BY <1>15 DEF ownVars
<1> HIDE DEF AdmittedIsActive, TypeOK
<1> QED BY <1>1, <1>2, <1>3, <1>4, <1>5, <1>6, <1>7, <1>8, <1>9, <1>10, <1>11, <1>12, <1>13, <1>14, <1>15 DEF StepForm

\* No step lets two active runs of one task claim it.
LEMMA ClaimStep ==
    ASSUME TypeOK, TypeOK', Ownership, Ownership', AdmittedIsActive, OneClaimPerTask, StepForm
    PROVE  OneClaimPerTask'
<1> DEFINE NoNewClaim == \A q \in Run : Claimant(q)' => Claimant(q) /\ taskOf'[q] = taskOf[q]
<1> USE DEF storeVars, callerVars, executorVars, workerVars, envVars, historyVars,
            Ownership, CallersHoldRuns, DecidingOwnsRun, WorkersHoldRuns, NothingSubmittedUnborn,
            RunsHaveTasks, StoppedHoldsNothing,
            AdmittedIsActive, Admitted, Claimant, Claims, Deciding, Holding, TypeOK
<1>1. ASSUME NEW c \in Caller, Wander(c) PROVE NoNewClaim
  BY <1>1 DEF Wander
<1>2. ASSUME NEW c \in Caller, Decide(c) PROVE OneClaimPerTask'
  <2>1. \A q \in Run : Claimant(q)' /\ q # crun[c] => Claimant(q)
    BY <1>2 DEF Decide
  <2>2. ASSUME NEW r \in Run, r = crun[c], Claimant(r)', ~Claimant(r),
               NEW q \in Run, q # r, Claimant(q)
        PROVE  taskOf[q] # taskOf[r]
    BY <1>2, <2>2 DEF Decide, Duplicates
  <2>3. taskOf' = taskOf
    BY <1>2 DEF Decide
  <2> HIDE DEF Claimant
  <2>4. SUFFICES ASSUME NEW r \in Run, NEW q \in Run, Claimant(r)', Claimant(q)',
                        taskOf[r] = taskOf[q], r # q
                 PROVE  FALSE
    BY <2>3 DEF OneClaimPerTask
  <2>5. CASE r # crun[c] /\ q # crun[c]
    BY <2>1, <2>4, <2>5 DEF OneClaimPerTask
  <2>6. CASE r = crun[c]
    BY <2>1, <2>2, <2>4, <2>6 DEF OneClaimPerTask
  <2>7. CASE q = crun[c]
    BY <2>1, <2>2, <2>4, <2>7 DEF OneClaimPerTask
  <2> QED BY <2>5, <2>6, <2>7
<1>3. ASSUME NEW c \in Caller, Refuse(c) PROVE NoNewClaim
  BY <1>3 DEF Refuse, Return, MoveCaller
<1>4. ASSUME NEW c \in Caller, SubmitFuture(c) PROVE NoNewClaim
  BY <1>4 DEF SubmitFuture, MoveCaller
<1>5. ASSUME NEW c \in Caller, NEW r \in Run, CreateRun(c, r) PROVE NoNewClaim
  BY <1>5 DEF CreateRun, MoveCaller, Active
<1>6. ASSUME NEW w \in Worker, NEW s \in WorkerState, WorkerMoves(w, s) PROVE NoNewClaim
  BY <1>6 DEF WorkerMoves
<1>7. ASSUME NEW w \in Worker, WorkerMarks(w) PROVE NoNewClaim
  BY <1>7 DEF WorkerMarks, Executing, Active
<1>8. ASSUME NEW w \in Worker, WorkerFails(w) PROVE NoNewClaim
  BY <1>8 DEF WorkerFails, Executing
<1>9. ASSUME NEW w \in Worker, WorkerEnds(w) PROVE NoNewClaim
  BY <1>9 DEF WorkerEnds, EndRun, MoveWorker, Executing
<1>10. ASSUME NEW w \in Worker, TakeRun(w) PROVE NoNewClaim
  BY <1>10 DEF TakeRun, MoveWorker, Executing
<1>11. ASSUME NEW r \in Run, CancelFuture(r) PROVE NoNewClaim
  BY <1>11 DEF CancelFuture
<1>12. ASSUME NEW r \in Run, WriteCancelled(r) PROVE NoNewClaim
  BY <1>12 DEF WriteCancelled, FinishRun
<1>13. ASSUME Crash PROVE NoNewClaim
  BY <1>13 DEF Crash, Executing
<1>14. ASSUME RecoverInterruptedRuns PROVE NoNewClaim
  BY <1>14 DEF RecoverInterruptedRuns, Executing
<1>15. ASSUME UNCHANGED ownVars PROVE NoNewClaim
  BY <1>15 DEF ownVars
<1> HIDE DEF Claimant, TypeOK
<1>16. ASSUME NoNewClaim PROVE OneClaimPerTask'
  BY <1>16 DEF OneClaimPerTask
<1> HIDE DEF NoNewClaim
<1> QED BY <1>1, <1>2, <1>3, <1>4, <1>5, <1>6, <1>7, <1>8, <1>9, <1>10, <1>11, <1>12, <1>13, <1>14, <1>15, <1>16 DEF StepForm

\* A cancelled future stays with its cancel_run call.
LEMMA DroppedStep ==
    ASSUME TypeOK, TypeOK', Ownership, Ownership', DroppedIsCancelling, StepForm
    PROVE  DroppedIsCancelling'
<1> USE DEF storeVars, callerVars, executorVars, workerVars, envVars, historyVars,
            Ownership, CallersHoldRuns, DecidingOwnsRun, WorkersHoldRuns, WorkersOwnRuns,
            QueueOwnsRuns, NothingSubmittedUnborn, StoppedHoldsNothing,
            DroppedIsCancelling, Active, Deciding, Holding, TypeOK
<1>1. ASSUME NEW c \in Caller, Wander(c) PROVE DroppedIsCancelling'
  BY <1>1 DEF Wander
<1>2. ASSUME NEW c \in Caller, Decide(c) PROVE DroppedIsCancelling'
  BY <1>2 DEF Decide
<1>3. ASSUME NEW c \in Caller, Refuse(c) PROVE DroppedIsCancelling'
  BY <1>3 DEF Refuse, Return, MoveCaller, Final
<1>4. ASSUME NEW c \in Caller, SubmitFuture(c) PROVE DroppedIsCancelling'
  BY <1>4 DEF SubmitFuture, MoveCaller
<1>5. ASSUME NEW c \in Caller, NEW r \in Run, CreateRun(c, r) PROVE DroppedIsCancelling'
  BY <1>5 DEF CreateRun, MoveCaller
<1>6. ASSUME NEW w \in Worker, NEW s \in WorkerState, WorkerMoves(w, s) PROVE DroppedIsCancelling'
  BY <1>6 DEF WorkerMoves
<1>7. ASSUME NEW w \in Worker, WorkerMarks(w) PROVE DroppedIsCancelling'
  BY <1>7 DEF WorkerMarks, Executing
<1>8. ASSUME NEW w \in Worker, WorkerFails(w) PROVE DroppedIsCancelling'
  BY <1>8 DEF WorkerFails, Executing
<1>9. ASSUME NEW w \in Worker, WorkerEnds(w) PROVE DroppedIsCancelling'
  BY <1>9 DEF WorkerEnds, EndRun, MoveWorker, Final
<1>10. ASSUME NEW w \in Worker, TakeRun(w) PROVE DroppedIsCancelling'
  BY <1>10 DEF TakeRun, MoveWorker, Executing
<1>11. ASSUME NEW r \in Run, CancelFuture(r) PROVE DroppedIsCancelling'
  BY <1>11 DEF CancelFuture
<1>12. ASSUME NEW r \in Run, WriteCancelled(r) PROVE DroppedIsCancelling'
  BY <1>12 DEF WriteCancelled, FinishRun
<1>13. ASSUME Crash PROVE DroppedIsCancelling'
  BY <1>13 DEF Crash
<1>14. ASSUME RecoverInterruptedRuns PROVE DroppedIsCancelling'
  BY <1>14 DEF RecoverInterruptedRuns, Interrupted
<1>15. ASSUME UNCHANGED ownVars PROVE DroppedIsCancelling'
  BY <1>15 DEF ownVars
<1> QED BY <1>1, <1>2, <1>3, <1>4, <1>5, <1>6, <1>7, <1>8, <1>9, <1>10, <1>11, <1>12, <1>13, <1>14, <1>15 DEF StepForm

\* No step leaves an active run to nobody.
LEMMA NoOrphanStep ==
    ASSUME TypeOK, TypeOK', Ownership, Ownership', DroppedIsCancelling, NoOrphanRun, StepForm
    PROVE  NoOrphanRun'
<1> USE DEF storeVars, callerVars, executorVars, workerVars, envVars, historyVars,
            Ownership, CallersHoldRuns, DecidingOwnsRun, WorkersHoldRuns, WorkersOwnRuns,
            QueueOwnsRuns, NothingSubmittedUnborn, StoppedHoldsNothing,
            DroppedIsCancelling, NoOrphanRun, InHand, Active, Deciding, Holding, TypeOK
<1>1. ASSUME NEW c \in Caller, Wander(c) PROVE NoOrphanRun'
  <2>1. ASSUME NEW d \in Caller, cpc[d] \in Deciding PROVE cpc'[d] = cpc[d] /\ crun'[d] = crun[d]
    BY <1>1, <2>1 DEF Wander
  <2> QED BY <1>1, <2>1 DEF Wander
<1>2. ASSUME NEW c \in Caller, Decide(c) PROVE NoOrphanRun'
  BY <1>2 DEF Decide
<1>3. ASSUME NEW c \in Caller, Refuse(c) PROVE NoOrphanRun'
  BY <1>3 DEF Refuse, Return, MoveCaller, Final
<1>4. ASSUME NEW c \in Caller, SubmitFuture(c) PROVE NoOrphanRun'
  <2>1. /\ cpc[c] \in Deciding /\ crun[c] \in Run
        /\ cpc' = [cpc EXCEPT ![c] = "submitted"]
        /\ future' = [future EXCEPT ![crun[c]] = "pending"]
        /\ queue' = Append(queue, crun[c])
    BY <1>4 DEF SubmitFuture, MoveCaller
  <2>2. /\ queue'[Len(queue) + 1] = crun[c] /\ Len(queue) + 1 \in DOMAIN queue'
        /\ \A i \in DOMAIN queue : i \in DOMAIN queue' /\ queue'[i] = queue[i]
    BY <2>1
  <2>3. InHand(crun[c])'
    BY <1>4, <2>1, <2>2 DEF SubmitFuture
  <2>4. ASSUME NEW r \in Run, r # crun[c], InHand(r) PROVE InHand(r)'
    BY <1>4, <2>1, <2>2, <2>4 DEF SubmitFuture
  <2>5. crun' = crun /\ status' = status /\ up' = up
    BY <1>4 DEF SubmitFuture
  <2> HIDE DEF InHand
  <2> QED BY <2>1, <2>3, <2>4, <2>5
<1>5. ASSUME NEW c \in Caller, NEW r \in Run, CreateRun(c, r) PROVE NoOrphanRun'
  <2>1. cpc[c] \notin Deciding /\ cpc'[c] \in Deciding /\ crun'[c] = r
    BY <1>5 DEF CreateRun, MoveCaller
  <2>2. ASSUME NEW q \in Run, InHand(q) PROVE InHand(q)'
    BY <1>5, <2>1, <2>2 DEF CreateRun, MoveCaller
  <2>3. InHand(r)'
    BY <2>1
  <2>4. \A q \in Run \ {r} : status'[q] = status[q]
    BY <1>5 DEF CreateRun
  <2>5. up' = up
    BY <1>5 DEF CreateRun
  <2> HIDE DEF InHand
  <2> QED BY <2>2, <2>3, <2>4, <2>5
<1>6. ASSUME NEW w \in Worker, NEW s \in WorkerState, WorkerMoves(w, s) PROVE NoOrphanRun'
  BY <1>6 DEF WorkerMoves
<1>7. ASSUME NEW w \in Worker, WorkerMarks(w) PROVE NoOrphanRun'
  BY <1>7 DEF WorkerMarks, Executing
<1>8. ASSUME NEW w \in Worker, WorkerFails(w) PROVE NoOrphanRun'
  BY <1>8 DEF WorkerFails, Executing
<1>9. ASSUME NEW w \in Worker, WorkerEnds(w) PROVE NoOrphanRun'
  <2>1. status'[wrun[w]] \notin Active
    BY <1>9 DEF WorkerEnds, Final
  <2>2. ASSUME NEW v \in Worker, v # w PROVE wpc'[v] = wpc[v] /\ wrun'[v] = wrun[v]
    BY <1>9, <2>2 DEF WorkerEnds, EndRun, MoveWorker
  <2>3. ASSUME NEW r \in Run, r # wrun[w]
        PROVE  status'[r] = status[r] /\ future'[r] = future[r]
    BY <1>9, <2>3 DEF WorkerEnds, EndRun
  <2>4. UNCHANGED <<cpc, crun, queue, cancelling, up>>
    BY <1>9 DEF WorkerEnds, EndRun
  <2>5. ASSUME NEW r \in Run, r # wrun[w], InHand(r) PROVE InHand(r)'
    BY <2>2, <2>3, <2>4, <2>5
  <2>6. ASSUME up', NEW r \in Run, status'[r] \in Active PROVE r # wrun[w] /\ InHand(r)
    BY <2>1, <2>3, <2>4, <2>6
  <2> HIDE DEF InHand
  <2> QED BY <2>5, <2>6
<1>10. ASSUME NEW w \in Worker, TakeRun(w) PROVE NoOrphanRun'
  <2>1. Head(queue) = queue[1] /\ queue[1] \in Run /\ queue' = Tail(queue) /\ wpc[w] = "idle"
    BY <1>10 DEF TakeRun
  <2>2. ASSUME NEW i \in DOMAIN queue, i # 1
        PROVE  i - 1 \in DOMAIN queue' /\ queue'[i - 1] = queue[i]
    BY <2>1, <2>2
  <2>3. ASSUME NEW r \in Run, r # queue[1], InHand(r) PROVE InHand(r)'
    <3>1. future'[r] = future[r]
      BY <1>10, <2>1, <2>3 DEF TakeRun
    <3>2. ASSUME NEW v \in Worker, wpc[v] # "idle" PROVE wpc'[v] = wpc[v] /\ wrun'[v] = wrun[v]
      BY <1>10, <2>1, <3>2 DEF TakeRun, MoveWorker
    <3>3. cpc' = cpc /\ crun' = crun /\ cancelling' = cancelling
      BY <1>10 DEF TakeRun
    <3>4. CASE \E c \in Caller : cpc[c] \in Deciding /\ crun[c] = r
      BY <3>3, <3>4
    <3>5. CASE future[r] = "pending" /\ \E i \in DOMAIN queue : queue[i] = r
      <4>1. PICK i \in DOMAIN queue : queue[i] = r
        BY <3>5
      <4>2. i - 1 \in DOMAIN queue' /\ queue'[i - 1] = r
        BY <2>2, <2>3, <4>1
      <4> QED BY <3>1, <3>5, <4>2
    <3>6. CASE future[r] = "running" /\ \E v \in Worker : wpc[v] # "idle" /\ wrun[v] = r
      BY <3>1, <3>2, <3>6
    <3>7. CASE r \in cancelling
      BY <3>3, <3>7
    <3> QED BY <2>3, <3>4, <3>5, <3>6, <3>7
  <2>4. ASSUME NEW r \in Run, r = queue[1], status[r] \in Active PROVE InHand(r)'
    <3>1. CASE future[r] = "cancelled"
      BY <1>10, <2>4, <3>1 DEF TakeRun
    <3>2. CASE future[r] = "pending"
      <4>1. /\ future' = [future EXCEPT ![r] = "running"]
            /\ wrun' = [wrun EXCEPT ![w] = r]
            /\ wpc'[w] # "idle"
        BY <1>10, <2>1, <2>4, <3>2 DEF TakeRun, MoveWorker
      <4> QED BY <4>1
    <3> QED BY <1>10, <2>1, <2>4, <3>1, <3>2 DEF TakeRun
  <2>5. status' = status /\ up' = up
    BY <1>10 DEF TakeRun
  <2>6. ASSUME up', NEW r \in Run, status[r] \in Active PROVE InHand(r)
    BY <2>5, <2>6
  <2> HIDE DEF InHand
  <2> QED BY <2>3, <2>4, <2>5, <2>6
<1>11. ASSUME NEW r \in Run, CancelFuture(r) PROVE NoOrphanRun'
  BY <1>11 DEF CancelFuture
<1>12. ASSUME NEW r \in Run, WriteCancelled(r) PROVE NoOrphanRun'
  BY <1>12 DEF WriteCancelled, FinishRun
<1>13. ASSUME Crash PROVE NoOrphanRun'
  BY <1>13 DEF Crash
<1>14. ASSUME RecoverInterruptedRuns PROVE NoOrphanRun'
  BY <1>14 DEF RecoverInterruptedRuns, Interrupted
<1>15. ASSUME UNCHANGED ownVars PROVE NoOrphanRun'
  BY <1>15 DEF ownVars
<1> QED BY <1>1, <1>2, <1>3, <1>4, <1>5, <1>6, <1>7, <1>8, <1>9, <1>10, <1>11, <1>12, <1>13, <1>14, <1>15 DEF StepForm

\* What FinalUnlessCancelled says of one step.
FinalKept == \A r \in Run : status[r] \in Final /\ status'[r] # status[r] => r \in cancelled'

\* Only cancel_run disturbs a final status.
LEMMA FinalStep ==
    ASSUME TypeOK, TypeOK', Ownership, AdmittedIsActive, StepForm
    PROVE  FinalKept
<1> USE DEF storeVars, callerVars, executorVars, workerVars, envVars, historyVars,
            Ownership, CallersHoldRuns, DecidingOwnsRun, WorkersHoldRuns, WorkersOwnRuns,
            QueueOwnsRuns, NothingSubmittedUnborn, StoppedHoldsNothing,
            AdmittedIsActive, Admitted, FinalKept, Active, Deciding, Holding, TypeOK
<1>1. ASSUME NEW c \in Caller, Wander(c) PROVE FinalKept
  BY <1>1 DEF Wander
<1>2. ASSUME NEW c \in Caller, Decide(c) PROVE FinalKept
  BY <1>2 DEF Decide
<1>3. ASSUME NEW c \in Caller, Refuse(c) PROVE FinalKept
  <2>1. crun[c] \in Run /\ (crun[c] \in cancelled \/ status[crun[c]] \in Active)
    BY <1>3 DEF Refuse
  <2> QED BY <1>3, <2>1 DEF Refuse, Final
<1>4. ASSUME NEW c \in Caller, SubmitFuture(c) PROVE FinalKept
  BY <1>4 DEF SubmitFuture, MoveCaller
<1>5. ASSUME NEW c \in Caller, NEW r \in Run, CreateRun(c, r) PROVE FinalKept
  BY <1>5 DEF CreateRun, MoveCaller, Final
<1>6. ASSUME NEW w \in Worker, NEW s \in WorkerState, WorkerMoves(w, s) PROVE FinalKept
  BY <1>6 DEF WorkerMoves
<1>7. ASSUME NEW w \in Worker, WorkerMarks(w) PROVE FinalKept
  <2>1. wrun[w] \in Run /\ (wrun[w] \in cancelled \/ status[wrun[w]] \in Active)
    BY <1>7 DEF WorkerMarks, Executing
  <2> QED BY <1>7, <2>1 DEF WorkerMarks, Final
<1>8. ASSUME NEW w \in Worker, WorkerFails(w) PROVE FinalKept
  BY <1>8 DEF WorkerFails, Executing, Final
<1>9. ASSUME NEW w \in Worker, WorkerEnds(w) PROVE FinalKept
  <2>1. CASE status' = status
    BY <2>1
  <2>2. CASE wpc[w] \in Executing
    <3>1. wrun[w] \in Run /\ (wrun[w] \in cancelled \/ status[wrun[w]] \in Active)
      BY <1>9, <2>2 DEF WorkerEnds
    <3> QED BY <1>9, <3>1 DEF WorkerEnds, Final
  <2> QED BY <1>9, <2>1, <2>2 DEF WorkerEnds
<1>10. ASSUME NEW w \in Worker, TakeRun(w) PROVE FinalKept
  BY <1>10 DEF TakeRun, MoveWorker, Executing
<1>11. ASSUME NEW r \in Run, CancelFuture(r) PROVE FinalKept
  BY <1>11 DEF CancelFuture
<1>12. ASSUME NEW r \in Run, WriteCancelled(r) PROVE FinalKept
  BY <1>12 DEF WriteCancelled, FinishRun
<1>13. ASSUME Crash PROVE FinalKept
  BY <1>13 DEF Crash
<1>14. ASSUME RecoverInterruptedRuns PROVE FinalKept
  BY <1>14 DEF RecoverInterruptedRuns, Interrupted, Final
<1>15. ASSUME UNCHANGED ownVars PROVE FinalKept
  BY <1>15 DEF ownVars
<1> QED BY <1>1, <1>2, <1>3, <1>4, <1>5, <1>6, <1>7, <1>8, <1>9, <1>10, <1>11, <1>12, <1>13, <1>14, <1>15 DEF StepForm

-----------------------------------------------------------------------------
\* The initial states satisfy the inductive invariant.
LEMMA InitIInv == Init => IInv
<1> SUFFICES ASSUME Init PROVE IInv
  OBVIOUS
<1> USE DEF Init
<1>1. TypeOK
  <2>1. tasks \in [Task -> TaskRecord]
    BY DEF TaskRecord
  <2>2. ccopy \in [Caller -> TaskRecord]
    BY NoRecordType
  <2>3. status \in [Run -> Status] /\ reported \in [Run -> Status]
    BY DEF Status
  <2>4. cpc \in [Caller -> CallerState] /\ wpc \in [Worker -> WorkerState]
    BY DEF CallerState, WorkerState
  <2>5. future \in [Run -> FutureState] /\ queue \in Seq(Run)
    BY DEF FutureState
  <2> QED BY <2>1, <2>2, <2>3, <2>4, <2>5 DEF TypeOK
<1>2. Ownership
  BY DEF Ownership, CallersHoldRuns, DecidingOwnsRun, WorkersHoldRuns, WorkersOwnRuns,
         QueueOwnsRuns, NothingSubmittedUnborn, RunsHaveTasks, CallersHaveTasks,
         ClosingIsFinal, CancellingIsKnown, StoppedHoldsNothing, Deciding, Holding
<1>3. AdmittedIsActive
  BY DEF AdmittedIsActive, Admitted, Deciding, Executing
<1>4. OneClaimPerTask
  BY DEF OneClaimPerTask, Claimant, Active
<1>5. NoOrphanRun /\ DroppedIsCancelling
  BY DEF NoOrphanRun, DroppedIsCancelling, Active
<1> QED BY <1>1, <1>2, <1>3, <1>4, <1>5 DEF IInv

\* Every step preserves the inductive invariant.
LEMMA IInvStep == IInv /\ [Next]_vars => IInv'
<1> SUFFICES ASSUME IInv, [Next]_vars PROVE IInv'
  OBVIOUS
<1>1. TypeOK'
  BY TypeStep DEF IInv, Ownership
<1>2. StepForm
  BY StepHasForm DEF IInv
<1>3. Ownership'
  BY <1>1, <1>2, OwnershipStep DEF IInv
<1>4. AdmittedIsActive'
  BY <1>1, <1>2, <1>3, AdmittedStep DEF IInv
<1>5. OneClaimPerTask'
  BY <1>1, <1>2, <1>3, ClaimStep DEF IInv
<1>6. DroppedIsCancelling'
  BY <1>1, <1>2, <1>3, DroppedStep DEF IInv
<1>7. NoOrphanRun'
  BY <1>1, <1>2, <1>3, NoOrphanStep DEF IInv
<1> QED BY <1>1, <1>3, <1>4, <1>5, <1>6, <1>7 DEF IInv

\* The inductive invariant holds in every reachable state of the scheduler.
THEOREM InductiveInvariant == Spec => []IInv
<1>1. Init => IInv
  BY InitIInv
<1>2. IInv /\ [Next]_vars => IInv'
  BY IInvStep
<1> QED BY <1>1, <1>2, PTL DEF Spec

(***************************************************************************)
(* Every variable keeps its type.                                          *)
(***************************************************************************)
THEOREM TypeCorrect == Spec => []TypeOK
<1>1. IInv => TypeOK
  BY DEF IInv
<1> QED BY <1>1, InductiveInvariant, PTL

(***************************************************************************)
(* However many callers submit runs of a task, and however submissions,    *)
(* executions, deletions, crashes and restarts interleave, at most one     *)
(* active run of the task that nobody cancelled has a live future.         *)
(***************************************************************************)
THEOREM AtMostOneLiveRun == Spec => []OneLiveRunPerTask
<1>1. IInv => OneLiveRunPerTask
  BY DEF IInv, OneClaimPerTask, Claimant, Claims, OneLiveRunPerTask, Live
<1> QED BY <1>1, InductiveInvariant, PTL

(***************************************************************************)
(* While the process is up, every active run is in somebody's hands: a     *)
(* caller decides about it, it is queued, a worker executes it, or a       *)
(* cancel_run call is about to write its status.                           *)
(***************************************************************************)
THEOREM EveryActiveRunIsInHand == Spec => []NoOrphanRun
<1>1. IInv => NoOrphanRun
  BY DEF IInv
<1> QED BY <1>1, InductiveInvariant, PTL

(***************************************************************************)
(* A final status is overwritten by cancel_run alone, never by recovery,   *)
(* by a retry, by waiting for a lease or by the outcome of the work.       *)
(***************************************************************************)
THEOREM OutcomesAreFinal == Spec => FinalUnlessCancelled
<1>1. IInv /\ [Next]_vars => [FinalKept]_vars
  <2> SUFFICES ASSUME IInv, [Next]_vars PROVE FinalKept
    OBVIOUS
  <2>1. TypeOK'
    BY TypeStep DEF IInv, Ownership
  <2>2. StepForm
    BY StepHasForm DEF IInv
  <2> QED BY <2>1, <2>2, FinalStep DEF IInv
<1> QED BY <1>1, InductiveInvariant, PTL DEF Spec, FinalUnlessCancelled, FinalKept

-----------------------------------------------------------------------------
(***************************************************************************)
(* The lease count of a group.  Every step either leaves the holders and   *)
(* the counts alone, or takes one lease, or gives one back, or (a crash)   *)
(* forgets them all.                                                       *)
(***************************************************************************)
LeasesKept ==
    /\ active' = active
    /\ \A w \in Worker : wpc'[w] \in Leased <=> wpc[w] \in Leased
    /\ \A w \in Worker : wpc[w] \in Leased => Group(wrun[w])' = Group(wrun[w])

LeaseTaken(w) ==
    /\ wpc[w] \notin Leased /\ wpc' = [wpc EXCEPT ![w] = "leased"]
    /\ active[Group(wrun[w])] < Limit[Group(wrun[w])]
    /\ active' = [active EXCEPT ![Group(wrun[w])] = @ + 1]
    /\ UNCHANGED <<wrun, taskOf>>

LeaseGivenBack(w) ==
    /\ wpc[w] \in Leased /\ wpc'[w] \notin Leased
    /\ ReleaseLease(wrun[w])
    /\ \A v \in Worker \ {w} : wpc'[v] = wpc[v] /\ wrun'[v] = wrun[v]
    /\ UNCHANGED taskOf

LeasesForgotten ==
    /\ active' = [g \in ResourceGroup |-> 0]
    /\ \A w \in Worker : wpc'[w] \notin Leased

LeaseForm ==
    \/ LeasesKept
    \/ \E w \in Worker : LeaseTaken(w) \/ LeaseGivenBack(w)
    \/ LeasesForgotten

\* Every step takes, returns, keeps or forgets the leases.
LEMMA StepHasLeaseForm ==
    ASSUME TypeOK, Ownership, [Next]_vars
    PROVE  LeaseForm
<1> USE DEF storeVars, callerVars, executorVars, workerVars, envVars, historyVars
<1>1. ASSUME UNCHANGED <<wpc, wrun, taskOf, active>> PROVE LeasesKept
  BY <1>1 DEF LeasesKept, Group
<1>2. ASSUME NEW c \in Caller, CallerStep(c), \A r \in Run : ~CreateRun(c, r) PROVE LeasesKept
  BY <1>1, <1>2 DEF CallerStep, RefreshTask, ClaimDue, RefreshSubmitted, SaveRefreshed,
       SkipDisabled, FailUnresolved, SkipBackoff, SkipDuplicate, RefuseRun, PassChecks,
       FindDuplicate, SubmitFuture, RegisterFuture, LookUpFuture, FutureResult, ReadResult
<1>3. ASSUME NEW c \in Caller, NEW r \in Run, CreateRun(c, r) PROVE LeasesKept
  <2>1. ASSUME NEW w \in Worker, wpc[w] \in Leased PROVE wrun[w] # r /\ wrun[w] \in Run
    BY <1>3, <2>1 DEF CreateRun, Ownership, WorkersHoldRuns, NothingSubmittedUnborn, Leased
  <2>2. UNCHANGED <<wpc, wrun, active>> /\ taskOf' = [taskOf EXCEPT ![r] = ctask[c]]
    BY <1>3 DEF CreateRun
  <2> QED BY <2>1, <2>2 DEF LeasesKept, Group, TypeOK
<1>4. ASSUME NEW w \in Worker, TakeRun(w) PROVE LeasesKept
  BY <1>4 DEF LeasesKept, Group, TypeOK, TakeRun, MoveWorker, Leased, WorkerState
<1>5. ASSUME NEW w \in Worker, FailMissingTask(w) PROVE LeasesKept
  BY <1>5 DEF LeasesKept, Group, TypeOK, FailMissingTask, EndRun, FinishRun, MoveWorker, Leased, WorkerState
<1>6. ASSUME NEW w \in Worker, ObserveWaiting(w) PROVE LeasesKept
  BY <1>6 DEF LeasesKept, Group, TypeOK, ObserveWaiting, StepWorker, MoveWorker, Leased, WorkerState
<1>7. ASSUME NEW w \in Worker, MarkWaiting(w) PROVE LeasesKept
  BY <1>7 DEF LeasesKept, Group, TypeOK, MarkWaiting, MarkRun, MoveWorker, Leased, WorkerState
<1>8. ASSUME NEW w \in Worker, StartRun(w) PROVE LeasesKept
  BY <1>8 DEF LeasesKept, Group, TypeOK, StartRun, MarkRun, MoveWorker, Leased, WorkerState
<1>9. ASSUME NEW w \in Worker, CollectorReturns(w) PROVE LeasesKept
  BY <1>9 DEF LeasesKept, Group, TypeOK, CollectorReturns, MoveWorker, Leased, WorkerState
<1>10. ASSUME NEW w \in Worker, CollectorRaises(w) PROVE LeasesKept
  BY <1>10 DEF LeasesKept, Group, TypeOK, CollectorRaises, StepWorker, MoveWorker, Leased, WorkerState
<1>11. ASSUME NEW w \in Worker, CheckCancelled(w) PROVE LeasesKept
  BY <1>11 DEF LeasesKept, Group, TypeOK, CheckCancelled, StepWorker, EndRun, MoveWorker, Leased, WorkerState
<1>12. ASSUME NEW w \in Worker, WriteSuccess(w) PROVE LeasesKept
  BY <1>12 DEF LeasesKept, Group, TypeOK, WriteSuccess, FinishRun, EndRun, MoveWorker, Leased, WorkerState
<1>13. ASSUME NEW w \in Worker, InspectFailure(w) PROVE LeasesKept
  BY <1>13 DEF LeasesKept, Group, TypeOK, InspectFailure, StepWorker, MoveWorker, Leased, WorkerState
<1>14. ASSUME NEW w \in Worker, WriteRetry(w) PROVE LeasesKept
  BY <1>14 DEF LeasesKept, Group, TypeOK, WriteRetry, MarkRun, MoveWorker, Leased, WorkerState
<1>15. ASSUME NEW w \in Worker, WriteFailure(w) PROVE LeasesKept
  BY <1>15 DEF LeasesKept, Group, TypeOK, WriteFailure, FinishRun, MoveWorker, Leased, WorkerState
<1>16. ASSUME NEW w \in Worker, AcquireLease(w) PROVE LeaseTaken(w)
  BY <1>16 DEF AcquireLease, LeaseTaken, MoveWorker, Leased
<1>17. ASSUME NEW w \in Worker, FinishLease(w) PROVE LeaseGivenBack(w)
  BY <1>17 DEF FinishLease, LeaseGivenBack, MoveWorker, Leased, WorkerState, TypeOK
<1>18. ASSUME NEW w \in Worker, ReleaseForRetry(w) PROVE LeaseGivenBack(w)
  BY <1>18 DEF ReleaseForRetry, LeaseGivenBack, MoveWorker, Leased, WorkerState, TypeOK
<1>19. ASSUME NEW w \in Worker, CloseFailed(w) PROVE LeaseGivenBack(w)
  BY <1>19 DEF CloseFailed, LeaseGivenBack, EndRun, MoveWorker, Leased, WorkerState, TypeOK
<1>20. ASSUME Crash PROVE LeasesForgotten
  BY <1>20 DEF Crash, LeasesForgotten, Leased
<1>21. ASSUME NEW c \in Caller, NEW t \in Task, ReadTask(c, t) PROVE LeasesKept
  BY <1>1, <1>21 DEF ReadTask
<1>22. ASSUME NEW r \in Run, WriteCancelled(r) \/ CancelFuture(r) \/ BackoffExpires(r)
      PROVE LeasesKept
  BY <1>1, <1>22 DEF WriteCancelled, CancelFuture, BackoffExpires
<1>23. ASSUME NEW t \in Task, DeleteTask(t) \/ BecomeDue(t) \/ FlipAvailable(t)
      PROVE LeasesKept
  BY <1>1, <1>23 DEF DeleteTask, BecomeDue, FlipAvailable
<1>24. ASSUME NEW c \in Submitter, NEW t \in Task, NEW b \in BOOLEAN, SetEnabled(c, t, b)
      PROVE LeasesKept
  BY <1>1, <1>24 DEF SetEnabled
<1>25. ASSUME RecoverInterruptedRuns PROVE LeasesKept
  BY <1>1, <1>25 DEF RecoverInterruptedRuns
<1>26. ASSUME UNCHANGED vars PROVE LeasesKept
  BY <1>1, <1>26 DEF vars
<1> QED BY <1>1, <1>2, <1>3, <1>4, <1>5, <1>6, <1>7, <1>8, <1>9, <1>10, <1>11, <1>12, <1>13, <1>14, <1>15, <1>16, <1>17, <1>18, <1>19, <1>20, <1>21, <1>22, <1>23, <1>24, <1>25, <1>26
        DEF LeaseForm, Next, ServiceNext, EnvironmentNext, WorkerStep

\* Holders of a lease are finitely many.
LEMMA HoldersFinite == \A g : IsFiniteSet(Holders(g)) /\ Cardinality(Holders(g)) \in Nat
<1> SUFFICES ASSUME NEW g PROVE IsFiniteSet(Holders(g)) /\ Cardinality(Holders(g)) \in Nat
  OBVIOUS
<1>1. Holders(g) \subseteq Worker
  BY DEF Holders
<1> QED BY <1>1, ConstantsAssumption, FS_Subset, FS_CardinalityType

\* Every step keeps the limiter's counters equal to the leases held.
LEMMA LeaseStep ==
    ASSUME TypeOK, Ownership, LeaseAccounting, LeaseForm
    PROVE  LeaseAccounting'
<1>1. ASSUME LeasesKept PROVE LeaseAccounting'
  <2>1. ASSUME NEW g \in ResourceGroup PROVE Holders(g)' = Holders(g)
    BY <1>1 DEF LeasesKept, Holders
  <2> QED BY <1>1, <2>1 DEF LeasesKept, LeaseAccounting
<1>2. ASSUME NEW w \in Worker, LeaseTaken(w), NEW g \in ResourceGroup
      PROVE  active'[g] = Cardinality(Holders(g)') /\ active'[g] <= Limit[g]
  <2>1. active[g] \in Nat /\ Limit[g] \in Nat /\ active[g] = Cardinality(Holders(g)) /\ active[g] <= Limit[g]
    BY ConstantsAssumption DEF TypeOK, LeaseAccounting
  <2>2. CASE g = Group(wrun[w])
    <3>1. Holders(g)' = Holders(g) \cup {w}
      BY <1>2, <2>2 DEF LeaseTaken, Holders, Group, Leased, WorkerState, TypeOK
    <3>2. w \notin Holders(g)
      BY <1>2 DEF LeaseTaken, Holders
    <3>3. Cardinality(Holders(g) \cup {w}) = Cardinality(Holders(g)) + 1
      BY <3>2, HoldersFinite, FS_AddElement
    <3>4. active'[g] = active[g] + 1 /\ active[g] < Limit[g]
      BY <1>2, <2>2 DEF LeaseTaken, TypeOK
    <3> QED BY <2>1, <3>1, <3>3, <3>4
  <2>3. CASE g # Group(wrun[w])
    <3>1. Holders(g)' = Holders(g)
      BY <1>2, <2>3 DEF LeaseTaken, Holders, Group, TypeOK
    <3>2. active'[g] = active[g]
      BY <1>2, <2>3 DEF LeaseTaken, TypeOK
    <3> QED BY <2>1, <3>1, <3>2
  <2> QED BY <2>2, <2>3
<1>3. ASSUME NEW w \in Worker, LeaseGivenBack(w), NEW g \in ResourceGroup
      PROVE  active'[g] = Cardinality(Holders(g)') /\ active'[g] <= Limit[g]
  <2>1. active[g] \in Nat /\ Limit[g] \in Nat /\ active[g] = Cardinality(Holders(g)) /\ active[g] <= Limit[g]
    BY ConstantsAssumption DEF TypeOK, LeaseAccounting
  <2>2. CASE g = Group(wrun[w])
    <3>1. Holders(g)' = Holders(g) \ {w}
      BY <1>3 DEF LeaseGivenBack, Holders, Group
    <3>2. w \in Holders(g)
      BY <1>3, <2>2 DEF LeaseGivenBack, Holders
    <3>3. Cardinality(Holders(g) \ {w}) = Cardinality(Holders(g)) - 1
      BY <3>2, HoldersFinite, FS_RemoveElement
    <3>4. Holders(g) # {}
      BY <3>2
    <3>5. active[g] > 0
      BY <2>1, <3>4, HoldersFinite, FS_EmptySet
    <3>6. active'[g] = active[g] - 1
      BY <1>3, <2>2, <3>5 DEF LeaseGivenBack, ReleaseLease, TypeOK
    <3> QED BY <2>1, <3>1, <3>3, <3>6
  <2>3. CASE g # Group(wrun[w])
    <3>1. Holders(g)' = Holders(g)
      BY <1>3, <2>3 DEF LeaseGivenBack, Holders, Group
    <3>2. active'[g] = active[g]
      BY <1>3, <2>3 DEF LeaseGivenBack, ReleaseLease, TypeOK
    <3> QED BY <2>1, <3>1, <3>2
  <2> QED BY <2>2, <2>3
<1>4. ASSUME LeasesForgotten PROVE LeaseAccounting'
  <2>1. ASSUME NEW g \in ResourceGroup PROVE Holders(g)' = {}
    BY <1>4 DEF LeasesForgotten, Holders
  <2> QED BY <1>4, <2>1, FS_EmptySet, ConstantsAssumption DEF LeasesForgotten, LeaseAccounting
<1>5. ASSUME \A g \in ResourceGroup :
                 active'[g] = Cardinality(Holders(g)') /\ active'[g] <= Limit[g]
      PROVE  LeaseAccounting'
  BY <1>5 DEF LeaseAccounting
<1> QED BY <1>1, <1>2, <1>3, <1>4, <1>5 DEF LeaseForm

(***************************************************************************)
(* The count of a resource group is the number of workers that hold one of *)
(* its leases, and never exceeds the group's limit.                        *)
(***************************************************************************)
THEOREM LeasesAreAccounted == Spec => []LeaseAccounting
<1>1. Init => LeaseAccounting
  <2> SUFFICES ASSUME Init PROVE LeaseAccounting
    OBVIOUS
  <2>1. ASSUME NEW g \in ResourceGroup PROVE Holders(g) = {}
    BY DEF Init, Holders, Leased
  <2>2. ASSUME NEW g \in ResourceGroup
        PROVE  active[g] = Cardinality(Holders(g)) /\ active[g] <= Limit[g]
    <3>1. active[g] = 0 /\ Limit[g] \in Nat
      BY ConstantsAssumption DEF Init
    <3> QED BY <2>1, <3>1, FS_EmptySet
  <2> QED BY <2>2 DEF LeaseAccounting
<1>2. IInv /\ LeaseAccounting /\ [Next]_vars => LeaseAccounting'
  BY StepHasLeaseForm, LeaseStep DEF IInv
<1> QED BY <1>1, <1>2, InductiveInvariant, PTL DEF Spec

-----------------------------------------------------------------------------
(***************************************************************************)
(* Waiting.  A caller of wait_for_run waits for a future, a worker for a   *)
(* lease of its group; each waits for somebody who waits for neither.      *)
(***************************************************************************)
Waits == {"submitted", "waiting", "blocked", "woken"}

\* Whoever waits for a run has submitted it.
WaitersHaveFutures == \A c \in Caller : cpc[c] \in Waits => future[crun[c]] # "none"

\* A future that is not over is in the queue or run by a worker.
InWork(r) ==
    /\ future[r] = "pending" => \E i \in DOMAIN queue : queue[i] = r
    /\ future[r] = "running" => \E w \in Worker : wpc[w] # "idle" /\ wrun[w] = r

FuturesInWork == \A r \in Run : InWork(r)

FutureInv == WaitersHaveFutures /\ FuturesInWork

FindsNoRoom(w) == wpc[w] = "acquiring" /\ active[Group(wrun[w])] >= Limit[Group(wrun[w])]

NoWaitIsInVain ==
    /\ \A c \in Caller : cpc[c] = "blocked" =>
          \/ future[crun[c]] \in {"done", "cancelled"}
          \/ \E i \in DOMAIN queue : queue[i] = crun[c]
          \/ \E w \in Worker : wpc[w] # "idle" /\ wrun[w] = crun[c]
    /\ \A w \in Worker : FindsNoRoom(w) =>
          \E v \in Worker : wpc[v] \in Leased /\ Group(wrun[v]) = Group(wrun[w])

\* What was not at the head of the queue moves one place on.
LEMMA TailShifts ==
    ASSUME NEW q \in Seq(Run), NEW i \in DOMAIN q, i # 1
    PROVE  i - 1 \in DOMAIN Tail(q) /\ Tail(q)[i - 1] = q[i]
  OBVIOUS

\* Every step keeps the futures that callers wait for in work.
LEMMA FutureStep ==
    ASSUME TypeOK, TypeOK', Ownership, Ownership', FutureInv, StepForm
    PROVE  FutureInv'
<1> USE DEF storeVars, callerVars, executorVars, workerVars, envVars, historyVars,
            Ownership, CallersHoldRuns, WorkersHoldRuns, WorkersOwnRuns, QueueOwnsRuns,
            FutureInv, WaitersHaveFutures, FuturesInWork, InWork, Waits, Deciding, Holding, TypeOK
<1>1. ASSUME UNCHANGED <<future, queue, wpc, wrun>>,
             \A c \in Caller : cpc'[c] \in Waits => cpc[c] \in Waits /\ crun'[c] = crun[c]
      PROVE  FutureInv'
  BY <1>1
<1>2. ASSUME NEW c \in Caller, Wander(c) \/ Decide(c) \/ Refuse(c) PROVE FutureInv'
  <2>1. UNCHANGED <<future, queue, wpc, wrun>>
    BY <1>2 DEF Wander, Decide, Refuse
  <2>2. \A d \in Caller : cpc'[d] \in Waits => cpc[d] \in Waits /\ crun'[d] = crun[d]
    BY <1>2 DEF Wander, Decide, Refuse, Return, MoveCaller
  <2> QED BY <1>1, <2>1, <2>2
<1>3. ASSUME NEW c \in Caller, NEW r \in Run, CreateRun(c, r) PROVE FutureInv'
  <2>1. \A d \in Caller : cpc'[d] \in Waits => cpc[d] \in Waits /\ crun'[d] = crun[d]
    BY <1>3 DEF CreateRun, MoveCaller
  <2>2. UNCHANGED <<future, queue, wpc, wrun>>
    BY <1>3 DEF CreateRun
  <2> QED BY <1>1, <2>1, <2>2
<1>4. ASSUME NEW c \in Caller, SubmitFuture(c) PROVE FutureInv'
  <2>1. /\ crun[c] \in Run /\ crun' = crun
        /\ cpc' = [cpc EXCEPT ![c] = "submitted"]
        /\ future' = [future EXCEPT ![crun[c]] = "pending"]
        /\ queue' = Append(queue, crun[c])
        /\ wpc' = wpc /\ wrun' = wrun
    BY <1>4 DEF SubmitFuture, MoveCaller
  <2>2. /\ queue'[Len(queue) + 1] = crun[c] /\ Len(queue) + 1 \in DOMAIN queue'
        /\ \A i \in DOMAIN queue : i \in DOMAIN queue' /\ queue'[i] = queue[i]
    BY <2>1
  <2>3. ASSUME NEW r \in Run, r = crun[c] PROVE InWork(r)'
    BY <2>1, <2>2, <2>3
  <2>4. ASSUME NEW r \in Run, r # crun[c] PROVE InWork(r)'
    BY <2>1, <2>2, <2>4
  <2>5. WaitersHaveFutures'
    BY <2>1
  <2> HIDE DEF InWork, WaitersHaveFutures
  <2> QED BY <2>3, <2>4, <2>5
<1>5. ASSUME NEW w \in Worker,
             (\E s \in WorkerState : WorkerMoves(w, s)) \/ WorkerMarks(w) \/ WorkerFails(w)
      PROVE  FutureInv'
  <2>1. UNCHANGED <<cpc, crun, queue, future, wrun>>
    BY <1>5 DEF WorkerMoves, WorkerMarks, WorkerFails
  <2>2. \A v \in Worker : wpc[v] # "idle" => wpc'[v] # "idle"
    BY <1>5 DEF WorkerMoves, WorkerMarks, WorkerFails, Executing
  <2> QED BY <2>1, <2>2
<1>6. ASSUME NEW w \in Worker, WorkerEnds(w) PROVE FutureInv'
  <2>1. \A v \in Worker \ {w} : wpc'[v] = wpc[v] /\ wrun'[v] = wrun[v]
    BY <1>6 DEF WorkerEnds, EndRun, MoveWorker
  <2>2. future' = [future EXCEPT ![wrun[w]] = "done"] /\ UNCHANGED <<cpc, crun, queue>>
    BY <1>6 DEF WorkerEnds, EndRun
  <2>3. ASSUME NEW r \in Run, r # wrun[w] PROVE InWork(r)'
    <3>1. future'[r] = future[r] /\ queue' = queue
      BY <2>2, <2>3
    <3>2. \A v \in Worker : wrun[v] = r => wpc'[v] = wpc[v] /\ wrun'[v] = wrun[v]
      BY <2>1, <2>3
    <3> QED BY <3>1, <3>2
  <2>4. ASSUME NEW r \in Run, r = wrun[w] PROVE InWork(r)'
    <3>1. future'[r] = "done"
      BY <2>2, <2>4
    <3> QED BY <3>1
  <2>5. WaitersHaveFutures'
    BY <2>2
  <2> HIDE DEF InWork, WaitersHaveFutures
  <2> QED BY <2>3, <2>4, <2>5
<1>7. ASSUME NEW w \in Worker, TakeRun(w) PROVE FutureInv'
  <2>1. /\ Head(queue) = queue[1] /\ queue[1] \in Run /\ queue' = Tail(queue)
        /\ wpc[w] = "idle" /\ cpc' = cpc /\ crun' = crun
    BY <1>7 DEF TakeRun
  <2>2. ASSUME NEW i \in DOMAIN queue, i # 1
        PROVE  i - 1 \in DOMAIN queue' /\ queue'[i - 1] = queue[i]
    BY <2>1, <2>2, TailShifts
  <2>3. ASSUME NEW v \in Worker, wpc[v] # "idle" PROVE wpc'[v] = wpc[v] /\ wrun'[v] = wrun[v]
    BY <1>7, <2>1, <2>3 DEF TakeRun, MoveWorker
  <2>4. \A r \in Run \ {queue[1]} : future'[r] = future[r]
    BY <1>7, <2>1 DEF TakeRun
  <2>5. ASSUME NEW r \in Run \ {queue[1]} PROVE InWork(r)'
    <3>1. CASE future[r] = "pending"
      <4>1. PICK i \in DOMAIN queue : queue[i] = r
        BY <3>1
      <4>2. i - 1 \in DOMAIN queue' /\ queue'[i - 1] = r
        BY <2>2, <4>1
      <4> QED BY <2>4, <3>1, <4>2
    <3>2. CASE future[r] = "running"
      BY <2>3, <2>4, <3>2
    <3> QED BY <2>4, <3>1, <3>2
  <2>6. ASSUME NEW r \in Run, r = queue[1] PROVE InWork(r)'
    <3>1. CASE future[r] = "cancelled"
      <4>1. future'[r] = "cancelled"
        BY <1>7, <2>1, <2>6, <3>1 DEF TakeRun
      <4> QED BY <4>1
    <3>2. CASE future[r] = "pending"
      <4>1. future'[r] = "running" /\ wrun'[w] = r /\ wpc'[w] # "idle"
        BY <1>7, <2>1, <2>6, <3>2 DEF TakeRun, MoveWorker
      <4> QED BY <4>1
    <3> QED BY <1>7, <2>1, <2>6, <3>1, <3>2 DEF TakeRun
  <2>7. future'[queue[1]] # "none"
    BY <1>7, <2>1 DEF TakeRun
  <2>8. WaitersHaveFutures'
    BY <2>1, <2>4, <2>7
  <2> HIDE DEF InWork, WaitersHaveFutures
  <2> QED BY <2>5, <2>6, <2>8
<1>8. ASSUME NEW r \in Run, CancelFuture(r) PROVE FutureInv'
  BY <1>8 DEF CancelFuture
<1>9. ASSUME NEW r \in Run, WriteCancelled(r) PROVE FutureInv'
  <2>1. UNCHANGED <<future, queue, wpc, wrun, cpc, crun>>
    BY <1>9 DEF WriteCancelled
  <2> QED BY <1>1, <2>1
<1>10. ASSUME Crash PROVE FutureInv'
  <2>1. /\ cpc' = [c \in Caller |-> "idle"] /\ future' = [r \in Run |-> "none"]
    BY <1>10 DEF Crash
  <2> QED BY <2>1
<1>11. ASSUME RecoverInterruptedRuns \/ UNCHANGED ownVars PROVE FutureInv'
  <2>1. UNCHANGED <<future, queue, wpc, wrun, cpc, crun>>
    BY <1>11 DEF RecoverInterruptedRuns, ownVars
  <2> QED BY <1>1, <2>1
<1> QED BY <1>2, <1>3, <1>4, <1>5, <1>6, <1>7, <1>8, <1>9, <1>10, <1>11 DEF StepForm

\* A worker that finds no room finds it taken.
LEMMA NoRoomIsTaken ==
    ASSUME TypeOK, Ownership, LeaseAccounting, NEW w \in Worker, FindsNoRoom(w)
    PROVE  \E v \in Worker : wpc[v] \in Leased /\ Group(wrun[v]) = Group(wrun[w])
<1> DEFINE g == Group(wrun[w])
<1>1. wrun[w] \in Run /\ status[wrun[w]] # "absent"
  BY DEF FindsNoRoom, Ownership, WorkersHoldRuns, NothingSubmittedUnborn
<1>2. g \in ResourceGroup
  BY <1>1, ConstantsAssumption DEF Ownership, RunsHaveTasks, Group
<1>3. active[g] \in Nat /\ Limit[g] \in Nat \ {0} /\ active[g] >= Limit[g]
  BY <1>2, ConstantsAssumption DEF TypeOK, FindsNoRoom
<1>4. Holders(g) # {}
  BY <1>2, <1>3, FS_EmptySet DEF LeaseAccounting
<1> QED BY <1>4 DEF Holders

(***************************************************************************)
(* Nobody waits for something that cannot come: the future that a caller   *)
(* of wait_for_run is blocked on is over, queued or run by a worker, even  *)
(* after a cancellation, and a worker that finds its group full finds the  *)
(* leases with workers that wait for nothing.                              *)
(***************************************************************************)
THEOREM NobodyWaitsInVain == Spec => []NoWaitIsInVain
<1>1. Init => FutureInv
  BY DEF Init, FutureInv, WaitersHaveFutures, FuturesInWork, InWork, Waits
<1>2. IInv /\ IInv' /\ FutureInv /\ [Next]_vars => FutureInv'
  BY StepHasForm, FutureStep DEF IInv
<1>3. IInv /\ FutureInv /\ LeaseAccounting => NoWaitIsInVain
  <2> SUFFICES ASSUME IInv, FutureInv, LeaseAccounting PROVE NoWaitIsInVain
    OBVIOUS
  <2>1. ASSUME NEW c \in Caller, cpc[c] = "blocked"
        PROVE  \/ future[crun[c]] \in {"done", "cancelled"}
               \/ \E i \in DOMAIN queue : queue[i] = crun[c]
               \/ \E w \in Worker : wpc[w] # "idle" /\ wrun[w] = crun[c]
    <3>1. crun[c] \in Run
      BY <2>1 DEF IInv, Ownership, CallersHoldRuns, Holding
    <3>2. future[crun[c]] \in FutureState \ {"none"}
      BY <2>1, <3>1 DEF IInv, TypeOK, FutureInv, WaitersHaveFutures, Waits
    <3> QED BY <3>1, <3>2 DEF FutureState, FutureInv, FuturesInWork, InWork
  <2>2. ASSUME NEW w \in Worker, FindsNoRoom(w)
        PROVE  \E v \in Worker : wpc[v] \in Leased /\ Group(wrun[v]) = Group(wrun[w])
    BY <2>2, NoRoomIsTaken DEF IInv
  <2> QED BY <2>1, <2>2 DEF NoWaitIsInVain
<1> QED BY <1>1, <1>2, <1>3, InductiveInvariant, LeasesAreAccounted, PTL DEF Spec

-----------------------------------------------------------------------------
(***************************************************************************)
(* The recorded outcome.  How often a run may still be tried follows from  *)
(* where it is; a backoff that a task, a copy of a task or a run carries   *)
(* is one that a failed run set for itself, after its last attempt.        *)
(***************************************************************************)
RealPenalty(b) == b # NoRun => b \in Run /\ status[b] # "absent" /\ backoffOf[b] = b

PenaltiesAreReal ==
    /\ \A t \in Task : RealPenalty(tasks[t].backoff)
    /\ \A c \in Caller : RealPenalty(ccopy[c].backoff)
    /\ \A r \in Run : RealPenalty(backoffOf[r])

\* Nothing was tried before a worker takes the run.
UntriedFits ==
    /\ \A r \in Run : status[r] = "absent" \/ future[r] = "pending" => attempts[r] = 0
    /\ \A c \in Caller : cpc[c] \in Deciding => attempts[crun[c]] = 0

Tries(r) == MaxRetries[taskOf[r]]

\* What has happened to the run of a worker.
PhaseFits(w) ==
    /\ wpc[w] \in {"acquiring", "marking", "leased", "retrying", "retry_queued"} =>
          attempts[wrun[w]] <= Tries(wrun[w])
    /\ wpc[w] = "backing_off" => attempts[wrun[w]] = Tries(wrun[w]) + 1
    /\ wpc[w] \in {"returned", "released", "succeeding"} => wrun[w] \in collected
    /\ wpc[w] \in Executing => backoffOf[wrun[w]] # wrun[w]

WorkInv ==
    /\ PenaltiesAreReal
    /\ UntriedFits
    /\ \A w \in Worker : PhaseFits(w)
    /\ OutcomeMatchesWork

\* A run that exists has a number of tries.
LEMMA TriesType ==
    ASSUME TypeOK, Ownership, NEW r \in Run, status[r] # "absent"
    PROVE  Tries(r) \in Nat /\ taskOf[r] \in Task
  BY ConstantsAssumption DEF Tries, Ownership, RunsHaveTasks

\* The run of a worker exists, is its own, and nobody decides about it.
LEMMA WorkerRun ==
    ASSUME TypeOK, Ownership, NEW w \in Worker, wpc[w] # "idle"
    PROVE  /\ wrun[w] \in Run /\ future[wrun[w]] = "running" /\ status[wrun[w]] # "absent"
           /\ Tries(wrun[w]) \in Nat /\ attempts[wrun[w]] \in Nat
           /\ \A v \in Worker \ {w} : wpc[v] # "idle" => wrun[v] # wrun[w]
           /\ \A c \in Caller : cpc[c] \in Deciding => crun[c] # wrun[w]
<1>1. wrun[w] \in Run /\ future[wrun[w]] = "running"
  BY DEF Ownership, WorkersHoldRuns
<1>2. status[wrun[w]] # "absent"
  BY <1>1 DEF Ownership, NothingSubmittedUnborn
<1>3. \A v \in Worker \ {w} : wpc[v] # "idle" => wrun[v] # wrun[w]
  BY DEF Ownership, WorkersOwnRuns
<1>4. \A c \in Caller : cpc[c] \in Deciding => crun[c] # wrun[w]
  BY <1>1 DEF Ownership, DecidingOwnsRun
<1> QED BY <1>1, <1>2, <1>3, <1>4, TriesType DEF TypeOK

\* A run that carries its own backoff has been tried.
LEMMA PenalisedIsTried ==
    ASSUME TypeOK, Ownership, WorkInv, NEW r \in Run, backoffOf[r] = r
    PROVE  attempts[r] # 0 /\ status[r] # "absent"
<1>1. status[r] # "absent"
  BY ConstantsAssumption DEF WorkInv, PenaltiesAreReal, RealPenalty
<1>2. attempts[r] = Tries(r) + 1
  BY DEF WorkInv, OutcomeMatchesWork, Tries
<1> QED BY <1>1, <1>2, TriesType

-----------------------------------------------------------------------------
(***************************************************************************)
(* What a step does to the record of the work.                             *)
(***************************************************************************)
\* Runs once created stay, with their task.
LEMMA RunsStay ==
    ASSUME TypeOK, Ownership, StepForm
    PROVE  \A r \in Run : status[r] # "absent" => status'[r] # "absent" /\ taskOf'[r] = taskOf[r]
<1> USE DEF storeVars, callerVars, executorVars, workerVars, envVars, historyVars, TypeOK, Active, Final
<1>1. ASSUME NEW c \in Caller, Wander(c) \/ Decide(c) \/ SubmitFuture(c) PROVE UNCHANGED <<status, taskOf>>
  BY <1>1 DEF Wander, Decide, SubmitFuture
<1>2. ASSUME NEW c \in Caller, Refuse(c), NEW r \in Run, status[r] # "absent"
      PROVE  status'[r] # "absent" /\ taskOf'[r] = taskOf[r]
  BY <1>2 DEF Refuse
<1>3. ASSUME NEW c \in Caller, NEW q \in Run, CreateRun(c, q), NEW r \in Run, status[r] # "absent"
      PROVE  status'[r] # "absent" /\ taskOf'[r] = taskOf[r]
  BY <1>3 DEF CreateRun
<1>4. ASSUME NEW w \in Worker, (\E s \in WorkerState : WorkerMoves(w, s)) \/ TakeRun(w) PROVE UNCHANGED <<status, taskOf>>
  BY <1>4 DEF WorkerMoves, TakeRun
<1>5. ASSUME NEW w \in Worker, WorkerMarks(w) \/ WorkerFails(w) \/ WorkerEnds(w), NEW r \in Run, status[r] # "absent"
      PROVE  status'[r] # "absent" /\ taskOf'[r] = taskOf[r]
  BY <1>5 DEF WorkerMarks, WorkerFails, WorkerEnds
<1>6. ASSUME NEW q \in Run, CancelFuture(q) \/ WriteCancelled(q), NEW r \in Run, status[r] # "absent"
      PROVE  status'[r] # "absent" /\ taskOf'[r] = taskOf[r]
  BY <1>6 DEF CancelFuture, WriteCancelled, FinishRun
<1>7. ASSUME Crash \/ UNCHANGED ownVars PROVE UNCHANGED <<status, taskOf>>
  BY <1>7 DEF Crash, ownVars
<1>8. ASSUME RecoverInterruptedRuns, NEW r \in Run, status[r] # "absent"
      PROVE  status'[r] # "absent" /\ taskOf'[r] = taskOf[r]
  BY <1>8 DEF RecoverInterruptedRuns
<1> QED BY <1>1, <1>2, <1>3, <1>4, <1>5, <1>6, <1>7, <1>8 DEF StepForm

\* The forms of a step as far as attempts, collections and the backoffs of runs go.
RecordKept == UNCHANGED <<attempts, collected, backoffOf>>

RecordForm ==
    \/ RecordKept
    \/ \E c \in Caller : SkipBackoff(c)
    \/ \E w \in Worker : StartRun(w) \/ CollectorReturns(w) \/ WriteSuccess(w) \/ WriteFailure(w)

LEMMA StepHasRecordForm ==
    ASSUME TypeOK, [Next]_vars
    PROVE  RecordForm
<1> USE DEF storeVars, callerVars, executorVars, workerVars, envVars, historyVars
<1>1. ASSUME NEW r, backoffOf' = [backoffOf EXCEPT ![r] = backoffOf[r]] PROVE backoffOf' = backoffOf
  BY <1>1 DEF TypeOK
<1>2. ASSUME NEW c \in Caller, CallerStep(c), ~SkipBackoff(c) PROVE RecordKept
  <2>1. CASE SkipDisabled(c) \/ FailUnresolved(c) \/ SkipDuplicate(c)
    BY <1>1, <2>1 DEF SkipDisabled, FailUnresolved, SkipDuplicate, RefuseRun, FinishRun, RecordKept
  <2>2. CASE ~(SkipDisabled(c) \/ FailUnresolved(c) \/ SkipDuplicate(c))
    BY <1>2, <2>2 DEF CallerStep, RefreshTask, ClaimDue, RefreshSubmitted, SaveRefreshed, CreateRun, PassChecks,
       FindDuplicate, SubmitFuture, RegisterFuture, LookUpFuture, FutureResult, ReadResult, RecordKept
  <2> QED BY <2>1, <2>2
<1>3. ASSUME NEW w \in Worker, WorkerStep(w) PROVE RecordForm
  <2>1. CASE FailMissingTask(w)
    BY <1>1, <2>1 DEF FailMissingTask, FinishRun, EndRun, RecordForm, RecordKept
  <2>2. CASE TakeRun(w) \/ AcquireLease(w) \/ ObserveWaiting(w) \/ CollectorRaises(w) \/ InspectFailure(w)
    BY <2>2 DEF TakeRun, AcquireLease, ObserveWaiting, CollectorRaises, InspectFailure, StepWorker, RecordForm, RecordKept
  <2>3. CASE MarkWaiting(w) \/ WriteRetry(w) \/ ReleaseForRetry(w) \/ FinishLease(w)
    BY <2>3 DEF MarkWaiting, WriteRetry, ReleaseForRetry, FinishLease, MarkRun, RecordForm, RecordKept
  <2>4. CASE CheckCancelled(w) \/ CloseFailed(w)
    BY <2>4 DEF CheckCancelled, CloseFailed, StepWorker, EndRun, RecordForm, RecordKept
  <2> QED BY <1>3, <2>1, <2>2, <2>3, <2>4 DEF WorkerStep, RecordForm
<1>4. ASSUME NEW r \in Run, WriteCancelled(r) \/ CancelFuture(r) \/ BackoffExpires(r) PROVE RecordKept
  BY <1>1, <1>4 DEF WriteCancelled, FinishRun, CancelFuture, BackoffExpires, RecordKept
<1>5. ASSUME NEW c \in Caller, NEW t \in Task, ReadTask(c, t) PROVE RecordKept
  BY <1>5 DEF ReadTask, RecordKept
<1>6. ASSUME NEW c \in Submitter, NEW t \in Task, NEW b \in BOOLEAN, SetEnabled(c, t, b) PROVE RecordKept
  BY <1>6 DEF SetEnabled, RecordKept
<1>7. ASSUME NEW t \in Task, DeleteTask(t) \/ BecomeDue(t) \/ FlipAvailable(t) PROVE RecordKept
  BY <1>7 DEF DeleteTask, BecomeDue, FlipAvailable, RecordKept
<1>8. ASSUME Crash \/ RecoverInterruptedRuns \/ UNCHANGED vars PROVE RecordKept
  BY <1>8 DEF Crash, RecoverInterruptedRuns, vars, RecordKept
<1> QED BY <1>2, <1>3, <1>4, <1>5, <1>6, <1>7, <1>8 DEF RecordForm, Next, ServiceNext, EnvironmentNext

\* A penalty stays with the run that set it; only a failure after the last attempt sets one.
LEMMA PenaltiesStay ==
    ASSUME TypeOK, TypeOK', Ownership, WorkInv, RecordForm
    PROVE  /\ \A b \in Run : backoffOf[b] = b => backoffOf'[b] = b
           /\ \A b \in Run : backoffOf'[b] = b /\ backoffOf[b] # b =>
                 \E w \in Worker : WriteFailure(w) /\ wpc[w] = "backing_off" /\ b = wrun[w]
<1>1. CASE RecordKept
  BY <1>1 DEF RecordKept
<1>2. ASSUME NEW c \in Caller, SkipBackoff(c)
      PROVE  \A b \in Run : backoffOf'[b] = b <=> backoffOf[b] = b
  <2>1. crun[c] \in Run /\ attempts[crun[c]] = 0
    BY <1>2 DEF SkipBackoff, Ownership, CallersHoldRuns, Holding, Deciding, WorkInv, UntriedFits
  <2>2. backoffOf' = [backoffOf EXCEPT ![crun[c]] = ccopy[c].backoff]
    BY <1>2 DEF SkipBackoff, RefuseRun, FinishRun
  <2>3. backoffOf[crun[c]] # crun[c]
    BY <2>1, PenalisedIsTried
  <2>4. ccopy[c].backoff # crun[c]
    BY <2>1, <2>3, ConstantsAssumption DEF WorkInv, PenaltiesAreReal, RealPenalty
  <2> QED BY <2>1, <2>2, <2>3, <2>4 DEF TypeOK
<1>3. ASSUME NEW w \in Worker, StartRun(w) \/ CollectorReturns(w) PROVE backoffOf' = backoffOf
  BY <1>3 DEF StartRun, MarkRun, CollectorReturns, storeVars
<1>4. ASSUME NEW w \in Worker, WriteSuccess(w)
      PROVE  \A b \in Run : backoffOf'[b] = b <=> backoffOf[b] = b
  <2>1. wrun[w] \in Run /\ backoffOf[wrun[w]] # wrun[w]
    BY <1>4, WorkerRun DEF WriteSuccess, WorkInv, PhaseFits, Executing, WorkerState
  <2>2. backoffOf' = [backoffOf EXCEPT ![wrun[w]] = NoRun]
    BY <1>4 DEF WriteSuccess, FinishRun
  <2> QED BY <2>1, <2>2, ConstantsAssumption DEF TypeOK
<1>5. ASSUME NEW w \in Worker, WriteFailure(w)
      PROVE  \A b \in Run : backoffOf'[b] = b <=> backoffOf[b] = b \/ (b = wrun[w] /\ wpc[w] = "backing_off")
  <2>1. wrun[w] \in Run /\ backoffOf[wrun[w]] # wrun[w]
    BY <1>5, WorkerRun DEF WriteFailure, WorkInv, PhaseFits, Executing, WorkerState
  <2>2. backoffOf' = [backoffOf EXCEPT ![wrun[w]] = IF wpc[w] = "backing_off" THEN wrun[w] ELSE NoRun]
    BY <1>5 DEF WriteFailure, FinishRun
  <2> QED BY <2>1, <2>2, ConstantsAssumption DEF TypeOK
<1> QED BY <1>1, <1>2, <1>3, <1>4, <1>5 DEF RecordForm

-----------------------------------------------------------------------------
\* A run is tried first by the worker that has taken it.
LEMMA UntriedStep ==
    ASSUME TypeOK, TypeOK', Ownership, WorkInv, StepForm, RecordForm
    PROVE  UntriedFits'
<1> USE DEF storeVars, callerVars, executorVars, workerVars, envVars, historyVars
<1>1. ASSUME NEW w \in Worker, StartRun(w) PROVE UntriedFits'
  <2>1. /\ wrun[w] \in Run /\ status[wrun[w]] # "absent" /\ future[wrun[w]] = "running"
        /\ \A c \in Caller : cpc[c] \in Deciding => crun[c] # wrun[w]
    BY <1>1, WorkerRun DEF StartRun
  <2>2. /\ status' = [status EXCEPT ![wrun[w]] = "running"]
        /\ attempts' = [attempts EXCEPT ![wrun[w]] = @ + 1]
        /\ UNCHANGED <<future, cpc, crun>>
    BY <1>1 DEF StartRun, MarkRun
  <2>3. \A r \in Run : r # wrun[w] => status'[r] = status[r] /\ attempts'[r] = attempts[r]
    BY <2>2 DEF TypeOK
  <2>4. \A r \in Run : status'[r] = "absent" \/ future'[r] = "pending" => r # wrun[w]
    BY <2>1, <2>2 DEF TypeOK
  <2>5. \A c \in Caller : cpc[c] \in Deciding => crun[c] \in Run
    BY DEF Ownership, CallersHoldRuns, Holding
  <2> QED BY <2>1, <2>2, <2>3, <2>4, <2>5 DEF WorkInv, UntriedFits
<1>2. CASE attempts' = attempts
  <2> USE <1>2 DEF WorkInv, UntriedFits, TypeOK
  <2>1. ASSUME NEW c \in Caller, Wander(c) \/ Decide(c) PROVE UntriedFits'
    BY <2>1 DEF Wander, Decide
  <2>2. ASSUME NEW c \in Caller, Refuse(c) PROVE UntriedFits'
    BY <2>2 DEF Refuse, Return, MoveCaller, Final, Deciding
  <2>3. ASSUME NEW c \in Caller, SubmitFuture(c) PROVE UntriedFits'
    BY <2>3 DEF SubmitFuture, MoveCaller, Deciding
  <2>4. ASSUME NEW c \in Caller, NEW r \in Run, CreateRun(c, r) PROVE UntriedFits'
    BY <2>4 DEF CreateRun, MoveCaller
  <2>5. ASSUME NEW w \in Worker, (\E s \in WorkerState : WorkerMoves(w, s)) \/ TakeRun(w) PROVE UntriedFits'
    BY <2>5 DEF WorkerMoves, TakeRun
  <2>6. ASSUME NEW w \in Worker, WorkerMarks(w) \/ WorkerFails(w) PROVE UntriedFits'
    BY <2>6 DEF WorkerMarks, WorkerFails, Active
  <2>7. ASSUME NEW w \in Worker, WorkerEnds(w) PROVE UntriedFits'
    BY <2>7 DEF WorkerEnds, EndRun, Final
  <2>8. ASSUME NEW r \in Run, CancelFuture(r) \/ WriteCancelled(r) PROVE UntriedFits'
    BY <2>8 DEF CancelFuture, WriteCancelled, FinishRun
  <2>9. ASSUME Crash \/ RecoverInterruptedRuns \/ UNCHANGED ownVars PROVE UntriedFits'
    BY <2>9 DEF Crash, RecoverInterruptedRuns, ownVars, Deciding
  <2> QED BY <2>1, <2>2, <2>3, <2>4, <2>5, <2>6, <2>7, <2>8, <2>9 DEF StepForm
<1>3. attempts' = attempts \/ \E w \in Worker : StartRun(w)
  BY DEF RecordForm, RecordKept, SkipBackoff, RefuseRun, CollectorReturns, WriteSuccess, EndRun, WriteFailure
<1> QED BY <1>1, <1>2, <1>3

\* A penalty that was real is real after the step.
LEMMA PenaltiesLast ==
    ASSUME TypeOK, TypeOK', Ownership, WorkInv, StepForm, RecordForm, NEW b, RealPenalty(b)
    PROVE  RealPenalty(b)'
  BY PenaltiesStay, RunsStay DEF RealPenalty

\* The summary of a run puts its backoff into its task.
LEMMA SummarisedBackoff ==
    ASSUME TypeOK, NEW t \in Task, NEW b
    PROVE  Summarised(t, b)[t].backoff = b
<1>1. Summarised(t, b)[t] = [tasks[t] EXCEPT !.backoff = b, !.due = FALSE]
  BY DEF Summarised, TypeOK
<1>2. tasks[t] \in TaskRecord
  BY DEF TypeOK
<1> QED BY <1>1, <1>2 DEF TaskRecord

\* Summaries, refreshed copies and changed settings carry real backoffs.
LEMMA PenaltiesStep ==
    ASSUME TypeOK, TypeOK', Ownership, WorkInv, StepForm, RecordForm, [Next]_vars
    PROVE  PenaltiesAreReal'
<1> USE DEF storeVars, callerVars, executorVars, workerVars, envVars, historyVars
<1> DEFINE Real(b) == b # NoRun => b \in Run /\ status'[b] # "absent" /\ backoffOf'[b] = b
<1>1. /\ \A t \in Task : Real(tasks[t].backoff)
      /\ \A c \in Caller : Real(ccopy[c].backoff)
      /\ \A r \in Run : Real(backoffOf[r])
      /\ Real(NoRun)
  <2>1. ASSUME NEW b, RealPenalty(b) PROVE Real(b)
    BY <2>1, PenaltiesLast DEF RealPenalty
  <2>2. RealPenalty(NoRun)
    BY DEF RealPenalty
  <2>3. /\ \A t \in Task : RealPenalty(tasks[t].backoff)
        /\ \A c \in Caller : RealPenalty(ccopy[c].backoff)
        /\ \A r \in Run : RealPenalty(backoffOf[r])
    BY DEF WorkInv, PenaltiesAreReal
  <2> HIDE DEF Real
  <2> QED BY <2>1, <2>2, <2>3
<1> DEFINE RunsReal == \A r \in Run : Real(backoffOf'[r])
           TasksReal == \A t \in Task : Real(tasks'[t].backoff)
           CopiesReal == \A c \in Caller : Real(ccopy'[c].backoff)
<1>2. RunsReal
  <2>0. ASSUME backoffOf' = backoffOf PROVE RunsReal
    <3> HIDE DEF Real
    <3> QED BY <1>1, <2>0
  <2>1. CASE RecordKept
    BY <2>0, <2>1 DEF RecordKept
  <2>2. ASSUME NEW c \in Caller, SkipBackoff(c) PROVE RunsReal
    <3>1. backoffOf' = [backoffOf EXCEPT ![crun[c]] = ccopy[c].backoff]
      BY <2>2 DEF SkipBackoff, RefuseRun, FinishRun
    <3> HIDE DEF Real
    <3> QED BY <1>1, <3>1 DEF TypeOK
  <2>3. ASSUME NEW w \in Worker, StartRun(w) \/ CollectorReturns(w) PROVE RunsReal
    <3>1. backoffOf' = backoffOf
      BY <2>3 DEF StartRun, MarkRun, CollectorReturns
    <3> QED BY <2>0, <3>1
  <2>4. ASSUME NEW w \in Worker, WriteSuccess(w) PROVE RunsReal
    <3>1. backoffOf' = [backoffOf EXCEPT ![wrun[w]] = NoRun]
      BY <2>4 DEF WriteSuccess, FinishRun
    <3> HIDE DEF Real
    <3> QED BY <1>1, <3>1 DEF TypeOK
  <2>5. ASSUME NEW w \in Worker, WriteFailure(w) PROVE RunsReal
    <3>1. PICK b \in {wrun[w], NoRun} : backoffOf' = [backoffOf EXCEPT ![wrun[w]] = b]
      BY <2>5 DEF WriteFailure, FinishRun
    <3>2. wrun[w] \in Run /\ status'[wrun[w]] # "absent"
      BY <2>5, WorkerRun, RunsStay DEF WriteFailure
    <3>3. Real(b)
      BY <3>1, <3>2 DEF RealPenalty, TypeOK
    <3> HIDE DEF Real
    <3> QED BY <1>1, <3>1, <3>3 DEF TypeOK
  <2> HIDE DEF RunsReal
  <2> QED BY <2>1, <2>2, <2>3, <2>4, <2>5 DEF RecordForm
<1> HIDE DEF Real
<1>3. ASSUME UNCHANGED tasks PROVE TasksReal
  BY <1>1, <1>3
<1>4. ASSUME UNCHANGED ccopy PROVE CopiesReal
  BY <1>1, <1>4
<1>5. ASSUME NEW c \in Caller, Return(c) PROVE CopiesReal
  BY <1>1, <1>5 DEF Return, NoRecord, TypeOK
<1>6. ASSUME NEW t, NEW b, Real(b), tasks' = Summarised(t, b) PROVE TasksReal
  BY <1>1, <1>6 DEF Summarised, TypeOK, TaskRecord
<1>7. ASSUME NEW r, NEW final, NEW b, Real(b), FinishRun(r, final, b) PROVE TasksReal
  BY <1>3, <1>6, <1>7 DEF FinishRun
<1>8. ASSUME NEW c \in Caller, SaveRefreshed(c) PROVE TasksReal
  BY <1>1, <1>8 DEF SaveRefreshed, Refreshed, TypeOK, TaskRecord
<1>9. ASSUME NEW c \in Caller, NEW s, KeepRefreshed(c, s) PROVE CopiesReal
  BY <1>1, <1>9 DEF KeepRefreshed, Refreshed, TypeOK, TaskRecord
<1>10. ASSUME NEW c \in Caller, CallerStep(c) PROVE TasksReal /\ CopiesReal
  <2>1. CASE RefreshTask(c)
    BY <2>1, <1>5, <1>8, <1>9 DEF RefreshTask
  <2>2. CASE ClaimDue(c)
    <3>1. CASE ctask[c] \in known
      <4>1. /\ tasks' = [tasks EXCEPT ![ctask[c]] = [@ EXCEPT !.due = FALSE]]
            /\ ccopy' = [ccopy EXCEPT ![c] = tasks'[ctask[c]]]
        BY <2>2, <3>1 DEF ClaimDue
      <4>2. \A t \in Task : tasks'[t].backoff = tasks[t].backoff
        BY <4>1 DEF TypeOK, TaskRecord
      <4>3. TasksReal
        BY <1>1, <4>2
      <4>4. ctask[c] \in Task /\ \A d \in Caller : ccopy'[d] = ccopy[d] \/ ccopy'[d] = tasks'[ctask[c]]
        BY <3>1, <4>1 DEF TypeOK
      <4> QED BY <1>1, <4>3, <4>4
    <3>2. CASE ctask[c] \notin known
      BY <1>3, <1>5, <2>2, <3>2 DEF ClaimDue
    <3> QED BY <3>1, <3>2
  <2>3. CASE RefreshSubmitted(c)
    BY <2>3, <1>8, <1>9 DEF RefreshSubmitted
  <2>4. CASE SkipDisabled(c) \/ FailUnresolved(c) \/ SkipDuplicate(c)
    <3>1. PICK final : FinishRun(crun[c], final, backoffOf[crun[c]]) /\ Return(c) /\ cpc[c] \in Deciding
      BY <2>4 DEF SkipDisabled, FailUnresolved, SkipDuplicate, RefuseRun, Deciding
    <3>2. Real(backoffOf[crun[c]])
      BY <1>1, <3>1 DEF Ownership, CallersHoldRuns, Holding
    <3> QED BY <1>5, <1>7, <3>1, <3>2
  <2>5. CASE SkipBackoff(c)
    BY <1>1, <1>5, <1>7, <2>5 DEF SkipBackoff, RefuseRun
  <2>6. CASE RegisterFuture(c) \/ FutureResult(c) \/ ReadResult(c)
    BY <1>3, <1>4, <1>5, <2>6 DEF RegisterFuture, FutureResult, ReadResult
  <2>7. CASE (\E r \in Run : CreateRun(c, r)) \/ PassChecks(c) \/ FindDuplicate(c) \/ SubmitFuture(c) \/ LookUpFuture(c)
    BY <1>3, <1>4, <2>7 DEF CreateRun, PassChecks, FindDuplicate, SubmitFuture, LookUpFuture
  <2> QED BY <1>10, <2>1, <2>2, <2>3, <2>4, <2>5, <2>6, <2>7 DEF CallerStep
<1>11. ASSUME NEW w \in Worker, WorkerStep(w) PROVE TasksReal /\ CopiesReal
  <2>1. ccopy' = ccopy
    BY <1>11 DEF WorkerStep, TakeRun, FailMissingTask, AcquireLease, ObserveWaiting, MarkWaiting, StartRun,
       CollectorReturns, CollectorRaises, FinishLease, CheckCancelled, WriteSuccess, InspectFailure, WriteRetry,
       ReleaseForRetry, WriteFailure, CloseFailed, StepWorker, EndRun
  <2>2. CASE FailMissingTask(w)
    <3>1. Real(backoffOf[wrun[w]])
      BY <1>1, <2>2, WorkerRun DEF FailMissingTask
    <3> QED BY <1>4, <1>7, <2>1, <2>2, <3>1 DEF FailMissingTask
  <2>3. CASE WriteSuccess(w)
    BY <1>1, <1>4, <1>7, <2>1, <2>3 DEF WriteSuccess
  <2>4. CASE WriteFailure(w)
    <3>1. PICK b \in {wrun[w], NoRun} : FinishRun(wrun[w], "failed", b)
      BY <2>4 DEF WriteFailure
    <3>2. Real(b)
      <4>1. wrun[w] \in Run /\ backoffOf'[wrun[w]] = b
        BY <2>4, <3>1, WorkerRun DEF WriteFailure, FinishRun, TypeOK
      <4> QED BY <1>2, <4>1
    <3> QED BY <1>4, <1>7, <2>1, <3>1, <3>2
  <2>5. CASE TakeRun(w) \/ AcquireLease(w) \/ ObserveWaiting(w) \/ MarkWaiting(w) \/ StartRun(w)
             \/ CollectorReturns(w) \/ CollectorRaises(w) \/ FinishLease(w) \/ CheckCancelled(w)
             \/ InspectFailure(w) \/ WriteRetry(w) \/ ReleaseForRetry(w) \/ CloseFailed(w)
    <3>1. tasks' = tasks
      BY <2>5 DEF TakeRun, AcquireLease, ObserveWaiting, MarkWaiting, StartRun, MarkRun,
       CollectorReturns, CollectorRaises, FinishLease, CheckCancelled, InspectFailure, WriteRetry,
       ReleaseForRetry, CloseFailed, StepWorker
    <3> QED BY <1>3, <1>4, <2>1, <3>1
  <2> QED BY <1>11, <2>2, <2>3, <2>4, <2>5 DEF WorkerStep
<1>12. ASSUME NEW r \in Run, WriteCancelled(r) PROVE TasksReal /\ CopiesReal
  BY <1>1, <1>4, <1>7, <1>12 DEF WriteCancelled
<1>13. ASSUME NEW r \in Run, CancelFuture(r) \/ BackoffExpires(r) PROVE TasksReal /\ CopiesReal
  BY <1>3, <1>4, <1>13 DEF CancelFuture, BackoffExpires
<1>14. ASSUME NEW c \in Caller, NEW t \in Task, ReadTask(c, t) PROVE TasksReal /\ CopiesReal
  BY <1>1, <1>3, <1>14 DEF ReadTask, TypeOK
<1>15. ASSUME NEW c \in Caller, NEW t \in Task, NEW b \in BOOLEAN, SetEnabled(c, t, b) PROVE TasksReal /\ CopiesReal
  BY <1>1, <1>15 DEF SetEnabled, TypeOK, TaskRecord
<1>16. ASSUME NEW t \in Task, DeleteTask(t) \/ FlipAvailable(t) PROVE TasksReal /\ CopiesReal
  BY <1>3, <1>4, <1>16 DEF DeleteTask, FlipAvailable
<1>17. ASSUME NEW t \in Task, BecomeDue(t) PROVE TasksReal /\ CopiesReal
  BY <1>1, <1>4, <1>17 DEF BecomeDue, TypeOK, TaskRecord
<1>18. ASSUME Crash PROVE TasksReal /\ CopiesReal
  BY <1>1, <1>3, <1>18 DEF Crash, NoRecord
<1>19. ASSUME RecoverInterruptedRuns PROVE TasksReal /\ CopiesReal
  <2>1. PICK last \in [Task -> Run \cup {NoRun}] :
           tasks' = [t \in Task |-> IF last[t] = NoRun THEN tasks[t]
                                   ELSE Summarised(t, backoffOf[last[t]])[t]]
    BY <1>19 DEF RecoverInterruptedRuns
  <2>2. ASSUME NEW t \in Task, last[t] # NoRun PROVE Real(tasks'[t].backoff)
    <3>1. last[t] \in Run /\ tasks'[t] = Summarised(t, backoffOf[last[t]])[t]
      BY <2>1, <2>2
    <3>2. tasks'[t].backoff = backoffOf[last[t]]
      BY <3>1, SummarisedBackoff
    <3> QED BY <1>1, <3>1, <3>2
  <2>3. TasksReal
    BY <1>1, <2>1, <2>2
  <2> QED BY <1>4, <1>19, <2>3 DEF RecoverInterruptedRuns
<1>20. ASSUME UNCHANGED vars PROVE TasksReal /\ CopiesReal
  BY <1>3, <1>4, <1>20 DEF vars
<1>21. TasksReal /\ CopiesReal
  <2> HIDE DEF TasksReal, CopiesReal
  <2> QED BY <1>10, <1>11, <1>12, <1>13, <1>14, <1>15, <1>16, <1>17, <1>18, <1>19, <1>20
       DEF Next, ServiceNext, EnvironmentNext, Caller
<1> QED BY <1>2, <1>21 DEF PenaltiesAreReal, RealPenalty, Real, RunsReal

-----------------------------------------------------------------------------
\* A worker moves alone.
LEMMA WorkersMoveAlone ==
    ASSUME TypeOK, NEW v \in Worker, WorkerStep(v), NEW w \in Worker \ {v}
    PROVE  wpc'[w] = wpc[w] /\ wrun'[w] = wrun[w]
<1>1. CASE TakeRun(v)
  BY <1>1 DEF TakeRun, MoveWorker, TypeOK
<1>2. CASE FailMissingTask(v) \/ CheckCancelled(v) \/ WriteSuccess(v) \/ CloseFailed(v)
  BY <1>2 DEF FailMissingTask, CheckCancelled, WriteSuccess, CloseFailed, EndRun, StepWorker, MoveWorker, TypeOK
<1>3. CASE AcquireLease(v) \/ ObserveWaiting(v) \/ MarkWaiting(v) \/ StartRun(v) \/ CollectorReturns(v)
           \/ CollectorRaises(v) \/ FinishLease(v) \/ InspectFailure(v) \/ WriteRetry(v) \/ ReleaseForRetry(v)
           \/ WriteFailure(v)
  <2>1. wrun' = wrun /\ \E s : wpc' = [wpc EXCEPT ![v] = s]
    BY <1>3 DEF AcquireLease, ObserveWaiting, MarkWaiting, StartRun, CollectorReturns, CollectorRaises,
       FinishLease, InspectFailure, WriteRetry, ReleaseForRetry, WriteFailure, StepWorker, MoveWorker
  <2> QED BY <2>1 DEF TypeOK
<1> QED BY <1>1, <1>2, <1>3 DEF WorkerStep

\* A worker that takes no step stays where it is, unless the service stops.
LEMMA WorkersMoveThemselves ==
    ASSUME TypeOK, [Next]_vars, NEW w \in Worker, ~WorkerStep(w)
    PROVE  wpc'[w] = "idle" \/ (wpc'[w] = wpc[w] /\ wrun'[w] = wrun[w])
<1> USE DEF storeVars, callerVars, executorVars, workerVars, envVars, historyVars
<1> DEFINE Stays == wpc'[w] = wpc[w] /\ wrun'[w] = wrun[w]
<1>1. ASSUME NEW c \in Caller, CallerStep(c) PROVE Stays
  BY <1>1 DEF CallerStep, RefreshTask, SaveRefreshed, ClaimDue, RefreshSubmitted, CreateRun, SkipDisabled,
     FailUnresolved, SkipBackoff, RefuseRun, PassChecks, FindDuplicate, SkipDuplicate, SubmitFuture,
     RegisterFuture, LookUpFuture, FutureResult, ReadResult
<1>2. ASSUME NEW v \in Worker, WorkerStep(v) PROVE Stays
  BY <1>2, WorkersMoveAlone
<1>3. ASSUME NEW r \in Run, WriteCancelled(r) \/ CancelFuture(r) \/ BackoffExpires(r) PROVE Stays
  BY <1>3 DEF WriteCancelled, CancelFuture, BackoffExpires
<1>4. ASSUME NEW c \in Caller, NEW t \in Task, ReadTask(c, t) PROVE Stays
  BY <1>4 DEF ReadTask
<1>5. ASSUME NEW c \in Submitter, NEW t \in Task, NEW b \in BOOLEAN, SetEnabled(c, t, b) PROVE Stays
  BY <1>5 DEF SetEnabled
<1>6. ASSUME NEW t \in Task, DeleteTask(t) \/ BecomeDue(t) \/ FlipAvailable(t) PROVE Stays
  BY <1>6 DEF DeleteTask, BecomeDue, FlipAvailable
<1>7. ASSUME RecoverInterruptedRuns \/ UNCHANGED vars PROVE Stays
  BY <1>7 DEF RecoverInterruptedRuns, vars
<1>8. ASSUME Crash PROVE wpc'[w] = "idle"
  BY <1>8 DEF Crash
<1> QED BY <1>1, <1>2, <1>3, <1>4, <1>5, <1>6, <1>7, <1>8 DEF Next, ServiceNext, EnvironmentNext

\* What the other threads do to the record of a worker's run: nothing.
LEMMA RecordIsOwn ==
    ASSUME TypeOK, TypeOK', Ownership, WorkInv, StepForm, RecordForm,
           NEW w \in Worker, wpc[w] # "idle", ~StartRun(w), ~WriteFailure(w)
    PROVE  /\ attempts'[wrun[w]] = attempts[wrun[w]]
           /\ backoffOf'[wrun[w]] = wrun[w] => backoffOf[wrun[w]] = wrun[w]
           /\ wrun[w] \in collected => wrun[w] \in collected'
           /\ taskOf'[wrun[w]] = taskOf[wrun[w]]
<1>1. wrun[w] \in Run /\ taskOf'[wrun[w]] = taskOf[wrun[w]]
  BY WorkerRun, RunsStay
<1>2. backoffOf'[wrun[w]] = wrun[w] => backoffOf[wrun[w]] = wrun[w]
  <2>1. ASSUME NEW v \in Worker, WriteFailure(v), wpc[v] = "backing_off", wrun[w] = wrun[v] PROVE FALSE
    BY <2>1, WorkerRun
  <2> QED BY <1>1, <2>1, PenaltiesStay
<1>3. attempts'[wrun[w]] = attempts[wrun[w]]
  <2>1. ASSUME NEW v \in Worker, StartRun(v) PROVE attempts'[wrun[w]] = attempts[wrun[w]]
    <3>1. wrun[v] # wrun[w] /\ attempts' = [attempts EXCEPT ![wrun[v]] = @ + 1]
      BY <2>1, WorkerRun DEF StartRun
    <3> QED BY <1>1, <3>1 DEF TypeOK
  <2>2. attempts' = attempts \/ \E v \in Worker : StartRun(v)
    BY DEF RecordForm, RecordKept, SkipBackoff, RefuseRun, CollectorReturns, WriteSuccess, EndRun, WriteFailure,
       workerVars
  <2> QED BY <2>1, <2>2
<1>4. collected \subseteq collected'
  BY DEF RecordForm, RecordKept, SkipBackoff, RefuseRun, StartRun, CollectorReturns, WriteSuccess, WriteFailure,
     historyVars
<1> QED BY <1>1, <1>2, <1>3, <1>4

\* Where a worker has got tells what has happened to its run.
LEMMA PhaseStep ==
    ASSUME TypeOK, TypeOK', Ownership, WorkInv, StepForm, RecordForm, [Next]_vars, NEW w \in Worker
    PROVE  PhaseFits(w)'
<1> USE DEF storeVars, callerVars, executorVars, workerVars, envVars, historyVars
<1>1. PhaseFits(w) /\ wpc[w] \in WorkerState
  BY DEF WorkInv, TypeOK
<1>2. CASE wpc'[w] = "idle"
  BY <1>2 DEF PhaseFits, Executing
<1>3. CASE wpc'[w] = wpc[w] /\ wrun'[w] = wrun[w] /\ wpc[w] # "idle"
  <2>1. ~StartRun(w) /\ ~WriteFailure(w)
    BY <1>3 DEF StartRun, WriteFailure, MoveWorker, TypeOK
  <2> QED BY <1>1, <1>3, <2>1, RecordIsOwn DEF PhaseFits, Tries
<1>4. CASE TakeRun(w)
  <2>1. CASE wpc'[w] = "idle"
    BY <1>2, <2>1
  <2>2. CASE wpc'[w] # "idle"
    <3> DEFINE r == Head(queue)
    <3>1. r \in Run
      BY <1>4 DEF TakeRun, TypeOK
    <3>2. future[r] = "pending" /\ wrun'[w] = r /\ wpc'[w] \in {"acquiring", "missing"}
      BY <1>4, <2>2 DEF TakeRun, MoveWorker, TypeOK
    <3>3. UNCHANGED <<attempts, backoffOf, taskOf>>
      BY <1>4 DEF TakeRun
    <3>4. attempts[r] = 0 /\ status[r] # "absent"
      BY <3>1, <3>2 DEF WorkInv, UntriedFits, Ownership, NothingSubmittedUnborn
    <3>5. backoffOf[r] # r
      BY <3>1, <3>4, PenalisedIsTried
    <3>6. Tries(r) \in Nat
      BY <3>1, <3>4, TriesType
    <3> HIDE DEF r
    <3> QED BY <3>2, <3>3, <3>4, <3>5, <3>6 DEF PhaseFits, Tries
  <2> QED BY <2>1, <2>2
<1>5. ASSUME WorkerStep(w), ~TakeRun(w) PROVE PhaseFits(w)'
  <2>0. wpc[w] # "idle"
    BY <1>5 DEF WorkerStep, FailMissingTask, AcquireLease, ObserveWaiting, MarkWaiting, StartRun, CollectorReturns,
       CollectorRaises, FinishLease, CheckCancelled, WriteSuccess, InspectFailure, WriteRetry, ReleaseForRetry,
       WriteFailure, CloseFailed
  <2> DEFINE r == wrun[w]
  <2>1. r \in Run /\ Tries(r) \in Nat /\ attempts[r] \in Nat /\ taskOf'[r] = taskOf[r]
    BY <2>0, WorkerRun, RunsStay
  <2>2. ASSUME FailMissingTask(w) \/ WriteSuccess(w) \/ CloseFailed(w) PROVE PhaseFits(w)'
    <3>1. wpc'[w] = "idle"
      BY <2>2 DEF FailMissingTask, WriteSuccess, CloseFailed, EndRun, MoveWorker, TypeOK
    <3> QED BY <1>2, <3>1
  <2>3. CASE StartRun(w)
    <3>1. wpc[w] = "leased" /\ wpc'[w] = "collecting" /\ wrun'[w] = r /\ UNCHANGED backoffOf
      BY <2>3 DEF StartRun, MarkRun, MoveWorker, TypeOK
    <3> QED BY <1>1, <3>1 DEF PhaseFits, Executing
  <2>4. CASE WriteFailure(w)
    <3>1. wpc'[w] = "closing"
      BY <2>4 DEF WriteFailure, MoveWorker, TypeOK
    <3> QED BY <3>1 DEF PhaseFits, Executing
  <2>5. ASSUME ~StartRun(w), ~WriteFailure(w)
        PROVE  /\ attempts'[r] = attempts[r]
               /\ backoffOf'[r] = r => backoffOf[r] = r
               /\ r \in collected => r \in collected'
               /\ taskOf'[r] = taskOf[r]
    BY <2>0, <2>5, RecordIsOwn
  <2>6. CASE AcquireLease(w) \/ ObserveWaiting(w) \/ MarkWaiting(w) \/ WriteRetry(w) \/ ReleaseForRetry(w)
    <3>1. /\ wpc[w] \in {"acquiring", "marking", "leased", "retrying", "retry_queued"}
          /\ wpc'[w] \in {"acquiring", "marking", "leased", "retrying", "retry_queued"}
          /\ wrun'[w] = r /\ ~StartRun(w) /\ ~WriteFailure(w)
      BY <2>6 DEF AcquireLease, ObserveWaiting, MarkWaiting, WriteRetry, ReleaseForRetry, StepWorker, MoveWorker,
         StartRun, WriteFailure, TypeOK
    <3> QED BY <1>1, <2>5, <3>1 DEF PhaseFits, Tries, Executing
  <2>7. CASE CollectorReturns(w)
    <3>1. /\ wpc[w] = "collecting" /\ wpc'[w] = "returned" /\ wrun'[w] = r
          /\ r \in collected' /\ ~StartRun(w) /\ ~WriteFailure(w)
      BY <2>7 DEF CollectorReturns, MoveWorker, StartRun, WriteFailure, TypeOK
    <3> QED BY <1>1, <2>5, <3>1 DEF PhaseFits, Executing
  <2>8. CASE CollectorRaises(w)
    <3>1. /\ wpc[w] = "collecting" /\ wpc'[w] \in {"raised_transient", "raised_permanent"} /\ wrun'[w] = r
          /\ ~StartRun(w) /\ ~WriteFailure(w)
      BY <2>8 DEF CollectorRaises, StepWorker, MoveWorker, StartRun, WriteFailure, TypeOK
    <3> QED BY <1>1, <2>5, <3>1 DEF PhaseFits, Executing
  <2>9. CASE FinishLease(w)
    <3>1. /\ wpc[w] = "returned" /\ wpc'[w] = "released" /\ wrun'[w] = r /\ ~StartRun(w) /\ ~WriteFailure(w)
      BY <2>9 DEF FinishLease, MoveWorker, StartRun, WriteFailure, TypeOK
    <3> QED BY <1>1, <2>5, <3>1 DEF PhaseFits, Executing
  <2>10. CASE CheckCancelled(w)
    <3>1. CASE wpc'[w] = "idle"
      BY <1>2, <3>1
    <3>2. CASE wpc'[w] # "idle"
      <4>1. /\ wpc[w] = "released" /\ wpc'[w] = "succeeding" /\ wrun'[w] = r /\ ~StartRun(w) /\ ~WriteFailure(w)
        BY <2>10, <3>2 DEF CheckCancelled, EndRun, StepWorker, MoveWorker, StartRun, WriteFailure, TypeOK
      <4> QED BY <1>1, <2>5, <4>1 DEF PhaseFits, Executing
    <3> QED BY <3>1, <3>2
  <2>11. CASE InspectFailure(w)
    <3>1. /\ wpc[w] \in {"raised_transient", "raised_permanent"} /\ wrun'[w] = r
          /\ ~StartRun(w) /\ ~WriteFailure(w)
          /\ \/ wpc'[w] \in {"closing", "failing"}
             \/ wpc'[w] = "retrying" /\ AttemptsLeft(r)
             \/ wpc'[w] = "backing_off" /\ ~AttemptsLeft(r)
      BY <2>11 DEF InspectFailure, StepWorker, MoveWorker, StartRun, WriteFailure, TypeOK
    <3>2. attempts[r] <= Tries(r) + 1
      <4>1. taskOf[r] # NoTask
        BY <2>0, WorkerRun, TriesType, ConstantsAssumption
      <4> QED BY <2>1, <4>1 DEF WorkInv, OutcomeMatchesWork, Tries
    <3>3. AttemptsLeft(r) => attempts[r] <= Tries(r)
      BY <2>1 DEF AttemptsLeft, Tries
    <3>4. ~AttemptsLeft(r) => attempts[r] = Tries(r) + 1
      BY <2>1, <3>2 DEF AttemptsLeft, Tries
    <3> QED BY <1>1, <2>5, <3>1, <3>3, <3>4 DEF PhaseFits, Executing, Tries
  <2> QED BY <1>5, <2>2, <2>3, <2>4, <2>6, <2>7, <2>8, <2>9, <2>10, <2>11 DEF WorkerStep
<1>6. CASE ~WorkerStep(w)
  <2>1. wpc'[w] = "idle" \/ (wpc'[w] = wpc[w] /\ wrun'[w] = wrun[w])
    BY <1>6, WorkersMoveThemselves
  <2> QED BY <1>2, <1>3, <2>1
<1> QED BY <1>4, <1>5, <1>6

-----------------------------------------------------------------------------
\* Who writes an outcome: callers that refuse their run, workers that end theirs.
LEMMA OutcomeWritten ==
    ASSUME TypeOK, TypeOK', Ownership, [Next]_vars, NEW r \in Run, status'[r] # status[r]
    PROVE  \/ status'[r] \notin {"success", "skipped"}
           \/ status'[r] = "skipped" /\ \E c \in Caller : cpc[c] \in Deciding /\ crun[c] = r /\ attempts' = attempts
           \/ status'[r] = "success" /\ \E w \in Worker : wpc[w] = "succeeding" /\ wrun[w] = r /\ collected' = collected
<1> USE DEF storeVars, callerVars, executorVars, workerVars, envVars, historyVars
<1> DEFINE Neither == status'[r] \notin {"success", "skipped"}
           Refused == status'[r] = "skipped"
                      /\ \E c \in Caller : cpc[c] \in Deciding /\ crun[c] = r /\ attempts' = attempts
           Ended == status'[r] = "success"
                    /\ \E w \in Worker : wpc[w] = "succeeding" /\ wrun[w] = r /\ collected' = collected
<1>1. ASSUME NEW c \in Caller, CallerStep(c) PROVE Neither \/ Refused
  <2>1. CASE SkipDisabled(c) \/ SkipBackoff(c) \/ SkipDuplicate(c) \/ FailUnresolved(c)
    <3>1. cpc[c] \in Deciding /\ attempts' = attempts
      BY <2>1 DEF SkipDisabled, SkipBackoff, SkipDuplicate, FailUnresolved, RefuseRun, Deciding
    <3>2. PICK f \in {"skipped", "failed"} : status' = [status EXCEPT ![crun[c]] = f]
      BY <2>1 DEF SkipDisabled, SkipBackoff, SkipDuplicate, FailUnresolved, RefuseRun, FinishRun
    <3>3. crun[c] = r /\ status'[r] = f
      BY <3>2 DEF TypeOK
    <3> QED BY <3>1, <3>2, <3>3
  <2>2. CASE \E q \in Run : CreateRun(c, q)
    <3>1. PICK q \in Run : status' = [status EXCEPT ![q] = "queued"]
      BY <2>2 DEF CreateRun
    <3> QED BY <3>1 DEF TypeOK
  <2>3. CASE ~(SkipDisabled(c) \/ SkipBackoff(c) \/ SkipDuplicate(c) \/ FailUnresolved(c) \/ \E q \in Run : CreateRun(c, q))
    <3>1. status' = status
      BY <1>1, <2>3 DEF CallerStep, RefreshTask, SaveRefreshed, ClaimDue, RefreshSubmitted, PassChecks, FindDuplicate,
         SubmitFuture, RegisterFuture, LookUpFuture, FutureResult, ReadResult
    <3> QED BY <3>1
  <2> QED BY <2>1, <2>2, <2>3
<1>2. ASSUME NEW w \in Worker, WorkerStep(w) PROVE Neither \/ Ended
  <2>1. CASE WriteSuccess(w)
    <3>1. wpc[w] = "succeeding" /\ collected' = collected /\ status' = [status EXCEPT ![wrun[w]] = "success"]
      BY <2>1 DEF WriteSuccess, FinishRun
    <3>2. wrun[w] = r /\ status'[r] = "success"
      BY <3>1 DEF TypeOK
    <3> QED BY <3>1, <3>2
  <2>2. CASE FailMissingTask(w) \/ MarkWaiting(w) \/ StartRun(w) \/ WriteRetry(w) \/ WriteFailure(w)
    <3>1. PICK s \in {"queued", "running", "failed"} : status' = [status EXCEPT ![wrun[w]] = s]
      BY <2>2 DEF FailMissingTask, MarkWaiting, StartRun, WriteRetry, WriteFailure, MarkRun, FinishRun
    <3> QED BY <3>1 DEF TypeOK
  <2>3. CASE ~(WriteSuccess(w) \/ FailMissingTask(w) \/ MarkWaiting(w) \/ StartRun(w) \/ WriteRetry(w) \/ WriteFailure(w))
    <3>1. status' = status
      BY <1>2, <2>3 DEF WorkerStep, TakeRun, AcquireLease, ObserveWaiting, CollectorReturns, CollectorRaises, FinishLease,
         CheckCancelled, InspectFailure, ReleaseForRetry, CloseFailed, StepWorker
    <3> QED BY <3>1
  <2> QED BY <2>1, <2>2, <2>3
<1>3. ASSUME NEW q \in Run, WriteCancelled(q) PROVE Neither
  <2>1. status' = [status EXCEPT ![q] = "cancelled"]
    BY <1>3 DEF WriteCancelled, FinishRun
  <2> QED BY <2>1 DEF TypeOK
<1>4. ASSUME NEW q \in Run, CancelFuture(q) \/ BackoffExpires(q) PROVE Neither
  BY <1>4 DEF CancelFuture, BackoffExpires
<1>5. ASSUME NEW c \in Caller, NEW t \in Task, ReadTask(c, t) PROVE Neither
  BY <1>5 DEF ReadTask
<1>6. ASSUME NEW c \in Submitter, NEW t \in Task, NEW b \in BOOLEAN, SetEnabled(c, t, b) PROVE Neither
  BY <1>6 DEF SetEnabled
<1>7. ASSUME NEW t \in Task, DeleteTask(t) \/ BecomeDue(t) \/ FlipAvailable(t) PROVE Neither
  BY <1>7 DEF DeleteTask, BecomeDue, FlipAvailable
<1>8. ASSUME RecoverInterruptedRuns PROVE Neither
  BY <1>8 DEF RecoverInterruptedRuns
<1>9. ASSUME Crash \/ UNCHANGED vars PROVE Neither
  BY <1>9 DEF Crash, vars
<1> QED BY <1>1, <1>2, <1>3, <1>4, <1>5, <1>6, <1>7, <1>8, <1>9 DEF Next, ServiceNext, EnvironmentNext

\* Attempts are added by StartRun alone, to a run that carries no backoff of its own.
LEMMA AttemptsStep ==
    ASSUME TypeOK, TypeOK', Ownership, WorkInv, RecordForm, NEW r \in Run
    PROVE  \/ attempts'[r] = attempts[r]
           \/ /\ status'[r] = "running" /\ status[r] # "absent"
              /\ attempts[r] <= Tries(r) /\ attempts'[r] = attempts[r] + 1
              /\ backoffOf[r] # r /\ backoffOf' = backoffOf
<1>1. attempts' = attempts \/ \E w \in Worker : StartRun(w)
  BY DEF RecordForm, RecordKept, SkipBackoff, RefuseRun, CollectorReturns, WriteSuccess, EndRun, WriteFailure,
     workerVars
<1>2. ASSUME NEW w \in Worker, StartRun(w), r = wrun[w]
      PROVE  /\ status'[r] = "running" /\ status[r] # "absent"
             /\ attempts[r] <= Tries(r) /\ attempts'[r] = attempts[r] + 1
             /\ backoffOf[r] # r /\ backoffOf' = backoffOf
  <2>1. wpc[w] = "leased" /\ wpc[w] # "idle" /\ wpc[w] \in Executing
    BY <1>2 DEF StartRun, Executing, WorkerState
  <2>2. PhaseFits(w)
    BY DEF WorkInv
  <2>3. attempts[r] <= Tries(r) /\ backoffOf[r] # r
    BY <1>2, <2>1, <2>2 DEF PhaseFits
  <2>4. status[r] # "absent"
    BY <1>2, <2>1, WorkerRun
  <2> QED BY <1>2, <2>3, <2>4 DEF StartRun, MarkRun, TypeOK
<1>3. ASSUME NEW w \in Worker, StartRun(w), r # wrun[w] PROVE attempts'[r] = attempts[r]
  BY <1>3 DEF StartRun, TypeOK
<1> QED BY <1>1, <1>2, <1>3

\* A recorded outcome stays true, and a new one is true.
LEMMA OutcomeStep ==
    ASSUME TypeOK, TypeOK', Ownership, WorkInv, StepForm, RecordForm, [Next]_vars
    PROVE  OutcomeMatchesWork'
<1> SUFFICES ASSUME NEW r \in Run
             PROVE  /\ status'[r] = "success" => r \in collected'
                    /\ status'[r] = "skipped" => attempts'[r] = 0
                    /\ backoffOf'[r] = r => attempts'[r] = MaxRetries[taskOf'[r]] + 1
                    /\ taskOf'[r] # NoTask => attempts'[r] <= MaxRetries[taskOf'[r]] + 1
  BY DEF OutcomeMatchesWork
<1>0. /\ status[r] = "success" => r \in collected
      /\ status[r] = "skipped" => attempts[r] = 0
      /\ backoffOf[r] = r => attempts[r] = Tries(r) + 1
      /\ taskOf[r] # NoTask => attempts[r] <= Tries(r) + 1
  BY DEF WorkInv, OutcomeMatchesWork, Tries
<1>1. \/ attempts'[r] = attempts[r]
      \/ /\ status'[r] = "running" /\ status[r] # "absent"
         /\ attempts[r] <= Tries(r) /\ attempts'[r] = attempts[r] + 1
         /\ backoffOf[r] # r /\ backoffOf' = backoffOf
  BY AttemptsStep
<1>2. status[r] # "absent" => taskOf'[r] = taskOf[r] /\ taskOf[r] # NoTask /\ Tries(r) \in Nat
  BY RunsStay, TriesType, ConstantsAssumption
<1>3. attempts[r] \in Nat /\ attempts'[r] \in Nat
  BY DEF TypeOK
<1>4. status'[r] = "success" => r \in collected'
  <2>1. collected \subseteq collected'
    BY DEF RecordForm, RecordKept, SkipBackoff, RefuseRun, StartRun, CollectorReturns, WriteSuccess, WriteFailure,
       historyVars
  <2>2. ASSUME NEW w \in Worker, wpc[w] = "succeeding", wrun[w] = r PROVE r \in collected
    BY <2>2 DEF WorkInv, PhaseFits
  <2> QED BY <1>0, <2>1, <2>2, OutcomeWritten
<1>5. status'[r] = "skipped" => attempts'[r] = 0
  <2>1. CASE status'[r] = status[r]
    BY <1>0, <1>1, <2>1
  <2>2. ASSUME status'[r] = "skipped", status'[r] # status[r] PROVE attempts'[r] = 0
    <3>1. PICK c \in Caller : cpc[c] \in Deciding /\ crun[c] = r /\ attempts' = attempts
      BY <2>2, OutcomeWritten
    <3> QED BY <3>1 DEF WorkInv, UntriedFits
  <2> QED BY <2>1, <2>2
<1>6. backoffOf'[r] = r => attempts'[r] = MaxRetries[taskOf'[r]] + 1
  <2>1. CASE backoffOf[r] = r
    <3>1. status[r] # "absent"
      BY <2>1, PenalisedIsTried
    <3> QED BY <1>0, <1>1, <1>2, <2>1, <3>1 DEF Tries
  <2>2. ASSUME backoffOf'[r] = r, backoffOf[r] # r PROVE attempts'[r] = MaxRetries[taskOf'[r]] + 1
    <3>1. PICK w \in Worker : WriteFailure(w) /\ wpc[w] = "backing_off" /\ r = wrun[w]
      BY <2>2, PenaltiesStay
    <3>2. attempts[r] = Tries(r) + 1
      BY <3>1 DEF WorkInv, PhaseFits
    <3>3. status[r] # "absent"
      BY <3>1, WorkerRun
    <3>4. attempts' = attempts
      BY <3>1 DEF WriteFailure
    <3> QED BY <1>2, <3>2, <3>3, <3>4 DEF Tries
  <2> QED BY <2>1, <2>2
<1>7. taskOf'[r] # NoTask => attempts'[r] <= MaxRetries[taskOf'[r]] + 1
  <2>1. CASE status[r] = "absent"
    <3>1. attempts'[r] = 0
      BY <1>1, <2>1 DEF WorkInv, UntriedFits
    <3>2. taskOf'[r] # NoTask => MaxRetries[taskOf'[r]] \in Nat
      BY ConstantsAssumption DEF TypeOK
    <3> QED BY <3>1, <3>2
  <2>2. CASE status[r] # "absent"
    <3>1. attempts'[r] <= Tries(r) + 1
      BY <1>0, <1>1, <1>2, <1>3, <2>2
    <3> QED BY <1>2, <2>2, <3>1 DEF Tries
  <2> QED BY <2>1, <2>2
<1> QED BY <1>4, <1>5, <1>6, <1>7

LEMMA InitWorkInv == Init => WorkInv
<1> SUFFICES ASSUME Init PROVE WorkInv
  OBVIOUS
<1>1. PenaltiesAreReal
  BY DEF Init, PenaltiesAreReal, RealPenalty, NoRecord
<1>2. UntriedFits
  BY DEF Init, UntriedFits, Deciding
<1>3. \A w \in Worker : PhaseFits(w)
  BY DEF Init, PhaseFits, Executing
<1>4. OutcomeMatchesWork
  BY ConstantsAssumption DEF Init, OutcomeMatchesWork
<1> QED BY <1>1, <1>2, <1>3, <1>4 DEF WorkInv

LEMMA WorkInvStep == IInv /\ IInv' /\ WorkInv /\ [Next]_vars => WorkInv'
<1> SUFFICES ASSUME IInv, IInv', WorkInv, [Next]_vars PROVE WorkInv'
  OBVIOUS
<1>1. TypeOK /\ TypeOK' /\ Ownership
  BY DEF IInv
<1>2. StepForm /\ RecordForm
  BY <1>1, StepHasForm, StepHasRecordForm
<1>3. PenaltiesAreReal'
  BY <1>1, <1>2, PenaltiesStep
<1>4. UntriedFits'
  BY <1>1, <1>2, UntriedStep
<1>5. \A w \in Worker : PhaseFits(w)'
  BY <1>1, <1>2, PhaseStep
<1>6. OutcomeMatchesWork'
  BY <1>1, <1>2, OutcomeStep
<1> QED BY <1>3, <1>4, <1>5, <1>6 DEF WorkInv

(***************************************************************************)
(* What the file says of a run is what happened to it: a successful run's  *)
(* run_collector returned, a skipped run never called it, and a backoff is *)
(* set by a run that used up all its attempts; no run makes more of them.  *)
(***************************************************************************)
THEOREM OutcomesAreTrue == Spec => []OutcomeMatchesWork
<1>1. Init => WorkInv
  BY InitWorkInv
<1>2. IInv /\ IInv' /\ WorkInv /\ [Next]_vars => WorkInv'
  BY WorkInvStep
<1>3. WorkInv => OutcomeMatchesWork
  BY DEF WorkInv
<1> QED BY <1>1, <1>2, <1>3, InductiveInvariant, PTL DEF Spec

-----------------------------------------------------------------------------
(***************************************************************************)
(* The scheduler implements TaskRuns.  Beside the invariants above this    *)
(* needs to know which runs have returned: only runs that were tried, and  *)
(* no run whose worker may still try it or fail it.                        *)
(***************************************************************************)
Trying == Executing \ {"returned", "released", "succeeding"}

ReturnInv ==
    /\ \A r \in collected : attempts[r] # 0
    /\ \A w \in Worker : wpc[w] = "collecting" => attempts[wrun[w]] # 0
    /\ \A w \in Worker : wpc[w] \in Trying => wrun[w] \notin collected
    /\ ~up => cancelling = {}

\* One worker returns at a time.
LEMMA CollectedForm ==
    ASSUME RecordForm
    PROVE  \/ collected' = collected
           \/ \E v \in Worker : wpc[v] = "collecting" /\ wpc' = [wpc EXCEPT ![v] = "returned"]
                                /\ collected' = collected \cup {wrun[v]}
  BY DEF RecordForm, RecordKept, SkipBackoff, RefuseRun, StartRun, CollectorReturns, WriteSuccess, WriteFailure,
     historyVars, MoveWorker

\* A worker that goes on with its run goes on trying it, or has stopped trying.
LEMMA WorkerGoesOn ==
    ASSUME TypeOK, NEW w \in Worker, WorkerStep(w), ~TakeRun(w), wpc'[w] # "idle"
    PROVE  /\ wrun'[w] = wrun[w] /\ wpc[w] # "idle"
           /\ wpc'[w] \in Trying => wpc[w] \in Trying
           /\ wpc'[w] = "collecting" => StartRun(w)
<1> USE DEF TypeOK, MoveWorker, Trying, Executing, WorkerState
<1>1. CASE FailMissingTask(w) \/ WriteSuccess(w) \/ CloseFailed(w)
  BY <1>1 DEF FailMissingTask, WriteSuccess, CloseFailed, EndRun
<1>2. CASE AcquireLease(w) \/ ObserveWaiting(w) \/ MarkWaiting(w) \/ WriteRetry(w) \/ ReleaseForRetry(w)
  BY <1>2 DEF AcquireLease, ObserveWaiting, MarkWaiting, WriteRetry, ReleaseForRetry, StepWorker
<1>3. CASE StartRun(w) \/ CollectorReturns(w) \/ CollectorRaises(w)
  BY <1>3 DEF StartRun, CollectorReturns, CollectorRaises, StepWorker
<1>4. CASE FinishLease(w) \/ CheckCancelled(w)
  BY <1>4 DEF FinishLease, CheckCancelled, EndRun, StepWorker
<1>5. CASE InspectFailure(w) \/ WriteFailure(w)
  BY <1>5 DEF InspectFailure, WriteFailure, StepWorker
<1> QED BY <1>1, <1>2, <1>3, <1>4, <1>5 DEF WorkerStep

LEMMA ReturnStep ==
    ASSUME TypeOK, TypeOK', Ownership, WorkInv, ReturnInv, StepForm, RecordForm, [Next]_vars
    PROVE  ReturnInv'
<1> USE DEF storeVars, callerVars, executorVars, workerVars, envVars, historyVars
<1>1. \A r \in Run : attempts[r] # 0 => attempts'[r] # 0
  BY AttemptsStep DEF TypeOK
<1>2. \A r \in collected' : attempts'[r] # 0
  <2>1. \A v \in Worker : wpc[v] = "collecting" => wrun[v] \in Run
    BY DEF Ownership, WorkersHoldRuns
  <2> QED BY <1>1, <2>1, CollectedForm DEF ReturnInv, TypeOK
<1>3. ASSUME NEW w \in Worker
      PROVE  /\ wpc'[w] = "collecting" => attempts'[wrun'[w]] # 0
             /\ wpc'[w] \in Trying => wrun'[w] \notin collected'
  <2>1. CASE TakeRun(w) /\ wpc'[w] # wpc[w]
    <3>1. PICK r \in Run : future[r] = "pending" /\ wrun'[w] = r /\ wpc'[w] \in {"acquiring", "missing"}
                           /\ collected' = collected
      BY <2>1 DEF TakeRun, MoveWorker, TypeOK
    <3>2. attempts[r] = 0
      BY <3>1 DEF WorkInv, UntriedFits
    <3> QED BY <3>1, <3>2 DEF ReturnInv
  <2>2. CASE wpc'[w] = "idle"
    BY <2>2 DEF Trying, Executing
  <2>3. ASSUME wpc[w] # "idle", wpc'[w] # "idle", wrun'[w] = wrun[w], wpc'[w] \in Trying => wpc[w] \in Trying,
               wpc'[w] = "collecting" => wpc[w] = "collecting" \/ StartRun(w)
        PROVE  /\ wpc'[w] = "collecting" => attempts'[wrun'[w]] # 0
               /\ wpc'[w] \in Trying => wrun'[w] \notin collected'
    <3>1. wrun[w] \in Run /\ \A v \in Worker \ {w} : wpc[v] # "idle" => wrun[v] # wrun[w]
      BY <2>3, WorkerRun
    <3>2. StartRun(w) => attempts'[wrun[w]] # 0
      BY <3>1 DEF StartRun, TypeOK
    <3>3. wpc'[w] \in Trying => wrun[w] \notin collected'
      <4>1. ASSUME NEW v \in Worker, wpc[v] = "collecting", wpc' = [wpc EXCEPT ![v] = "returned"],
                   collected' = collected \cup {wrun[v]}, wpc'[w] \in Trying
            PROVE  wrun[w] \notin collected'
        <5>1. v # w
          BY <4>1 DEF Trying, TypeOK
        <5> QED BY <2>3, <3>1, <4>1, <5>1 DEF ReturnInv
      <4>2. ASSUME collected' = collected, wpc'[w] \in Trying PROVE wrun[w] \notin collected'
        BY <2>3, <4>2 DEF ReturnInv
      <4> QED BY <4>1, <4>2, CollectedForm
    <3> QED BY <1>1, <2>3, <3>1, <3>2, <3>3 DEF ReturnInv
  <2>4. CASE WorkerStep(w) /\ ~TakeRun(w)
    BY <2>2, <2>3, <2>4, WorkerGoesOn
  <2>5. CASE wpc'[w] = wpc[w] /\ wrun'[w] = wrun[w]
    BY <2>2, <2>3, <2>5
  <2>6. CASE TakeRun(w) /\ wpc'[w] = wpc[w]
    <3>1. wpc'[w] = "idle"
      BY <2>6 DEF TakeRun
    <3> QED BY <2>2, <3>1
  <2> QED BY <2>1, <2>2, <2>4, <2>5, <2>6, WorkersMoveThemselves
<1>4. ~up' => cancelling' = {}
  BY DEF StepForm, Wander, Decide, Refuse, SubmitFuture, CreateRun, WorkerMoves, WorkerMarks, WorkerFails, WorkerEnds,
     EndRun, TakeRun, CancelFuture, WriteCancelled, Crash, RecoverInterruptedRuns, ownVars, ReturnInv
<1> QED BY <1>2, <1>3, <1>4 DEF ReturnInv

-----------------------------------------------------------------------------
\* Collectors start and end one at a time.
LEMMA CollectingKept ==
    ASSUME NEW w \in Worker, wpc[w] # "collecting", wpc'[w] # "collecting",
           \A v \in Worker \ {w} : wpc'[v] = wpc[v] /\ wrun'[v] = wrun[v]
    PROVE  Collecting' = Collecting
  BY DEF Collecting

LEMMA CollectingJoined ==
    ASSUME NEW w \in Worker, wpc[w] # "collecting", wpc'[w] = "collecting", wrun'[w] = wrun[w],
           \A v \in Worker \ {w} : wpc'[v] = wpc[v] /\ wrun'[v] = wrun[v]
    PROVE  Collecting' = Collecting \cup {wrun[w]}
  BY DEF Collecting

LEMMA CollectingLeft ==
    ASSUME Ownership, NEW w \in Worker, wpc[w] = "collecting", wpc'[w] # "collecting",
           \A v \in Worker \ {w} : wpc'[v] = wpc[v] /\ wrun'[v] = wrun[v]
    PROVE  Collecting' = Collecting \ {wrun[w]}
<1>1. \A v \in Worker \ {w} : wpc[v] = "collecting" => wrun[v] # wrun[w]
  BY DEF Ownership, WorkersOwnRuns
<1> QED BY <1>1 DEF Collecting

\* A caller decides about a run that nobody has tried.
LEMMA DecidedIsUnfinished ==
    ASSUME IInv, WorkInv, ReturnInv, NEW c \in Caller, cpc[c] \in Deciding
    PROVE  crun[c] \in Run /\ Runs!Unfinished(crun[c]) /\ attempts[crun[c]] = 0
<1> USE DEF IInv
<1>1. crun[c] \in Run /\ attempts[crun[c]] = 0
  BY DEF Ownership, CallersHoldRuns, Holding, WorkInv, UntriedFits
<1>2. status[crun[c]] # "absent"
  BY DEF Ownership, DecidingOwnsRun
<1>3. status[crun[c]] \in Active \/ crun[c] \in cancelled
  BY <1>1 DEF AdmittedIsActive, Admitted
<1>4. up
  BY DEF Ownership, StoppedHoldsNothing, Deciding, TypeOK
<1>5. crun[c] \notin Collecting
  <2>1. ASSUME NEW w \in Worker, wpc[w] = "collecting" PROVE wrun[w] # crun[c]
    BY <2>1, WorkerRun
  <2> QED BY <2>1 DEF Collecting
<1>6. crun[c] \notin collected
  BY <1>1 DEF ReturnInv
<1> QED BY <1>1, <1>2, <1>3, <1>4, <1>5, <1>6 DEF Runs!Unfinished, Runs!Open, Runs!Active, Active

\* A worker may write the record of its run until it closes it.
LEMMA ExecutedIsOpen ==
    ASSUME IInv, NEW w \in Worker, wpc[w] \in Executing
    PROVE  /\ wrun[w] \in Run /\ Runs!Open(wrun[w])
           /\ wpc[w] # "collecting" => wrun[w] \notin Collecting
<1> USE DEF IInv
<1>1. wrun[w] \in Run /\ status[wrun[w]] # "absent" /\ \A v \in Worker \ {w} : wpc[v] # "idle" => wrun[v] # wrun[w]
  BY WorkerRun DEF Executing
<1>2. status[wrun[w]] \in Active \/ wrun[w] \in cancelled
  BY <1>1 DEF AdmittedIsActive, Admitted
<1>3. up
  BY DEF Ownership, StoppedHoldsNothing, Executing, TypeOK
<1>4. wpc[w] # "collecting" => wrun[w] \notin Collecting
  BY <1>1 DEF Collecting
<1> QED BY <1>1, <1>2, <1>3, <1>4 DEF Runs!Open, Runs!Active, Active

LEMMA TriedIsUnfinished ==
    ASSUME IInv, ReturnInv, NEW w \in Worker, wpc[w] \in Trying \ {"collecting"}
    PROVE  wrun[w] \in Run /\ Runs!Unfinished(wrun[w])
<1>1. wrun[w] \notin collected /\ wpc[w] \in Executing
  BY DEF ReturnInv, Trying
<1> QED BY <1>1, ExecutedIsOpen DEF Runs!Unfinished

\* Of two runs of one task that nobody cancelled only one collects.
LEMMA CollectsAlone ==
    ASSUME IInv, NEW w \in Worker, wpc[w] \in Executing, wrun[w] \notin cancelled,
           NEW q \in Collecting \ cancelled, q # wrun[w]
    PROVE  taskOf[q] # taskOf[wrun[w]]
<1>1. ASSUME NEW v \in Worker, wpc[v] \in Executing, wrun[v] \notin cancelled
      PROVE  wrun[v] \in Run /\ Claimant(wrun[v])
  <2>1. wrun[v] \in Run /\ future[wrun[v]] = "running"
    BY <1>1, WorkerRun DEF Executing, IInv
  <2> QED BY <1>1, <2>1 DEF Claimant, Claims, IInv, AdmittedIsActive, Admitted
<1>2. PICK v \in Worker : wpc[v] = "collecting" /\ wrun[v] = q
  BY DEF Collecting
<1>3. wpc[v] \in Executing
  BY <1>2 DEF Executing, WorkerState
<1> QED BY <1>1, <1>2, <1>3 DEF IInv, OneClaimPerTask

-----------------------------------------------------------------------------
\* What TaskRuns sees of the scheduler.
Seen == <<up, status, taskOf, attempts, Collecting, collected, cancelled>>

LEMMA CallerRunsStep ==
    ASSUME IInv, WorkInv, ReturnInv, NEW c \in Caller, CallerStep(c)
    PROVE  Runs!Next \/ UNCHANGED Seen
<1> USE DEF storeVars, callerVars, executorVars, workerVars, envVars, historyVars
<1>1. UNCHANGED <<wpc, wrun>> => Collecting' = Collecting
  BY DEF Collecting
<1>2. CASE SkipDisabled(c) \/ SkipBackoff(c) \/ SkipDuplicate(c)
  <2>1. /\ cpc[c] \in Deciding
        /\ status' = [status EXCEPT ![crun[c]] = "skipped"]
        /\ UNCHANGED <<up, taskOf, cancelled, attempts, collected, wpc, wrun>>
    BY <1>2 DEF SkipDisabled, SkipBackoff, SkipDuplicate, RefuseRun, FinishRun, Deciding
  <2>2. crun[c] \in Run /\ Runs!Unfinished(crun[c]) /\ attempts[crun[c]] = 0
    BY <2>1, DecidedIsUnfinished
  <2>3. Runs!Skip(crun[c])
    BY <1>1, <2>1, <2>2 DEF Runs!Skip, Runs!Write, Runs!work
  <2> QED BY <2>2, <2>3 DEF Runs!Next
<1>3. CASE FailUnresolved(c)
  <2>1. /\ cpc[c] \in Deciding
        /\ status' = [status EXCEPT ![crun[c]] = "failed"]
        /\ UNCHANGED <<up, taskOf, cancelled, attempts, collected, wpc, wrun>>
    BY <1>3 DEF FailUnresolved, RefuseRun, FinishRun, Deciding
  <2>2. crun[c] \in Run /\ Runs!Unfinished(crun[c])
    BY <2>1, DecidedIsUnfinished
  <2>3. Runs!Fail(crun[c])
    BY <1>1, <2>1, <2>2 DEF Runs!Fail, Runs!Write, Runs!work
  <2> QED BY <2>2, <2>3 DEF Runs!Next
<1>4. ASSUME NEW r \in Run, CreateRun(c, r) PROVE Runs!Next
  <2>1. up /\ ctask[c] \in Task
    BY <1>4 DEF CreateRun, IInv, Ownership, StoppedHoldsNothing, CallersHaveTasks
  <2>2. Runs!Create(r, ctask[c])
    BY <1>1, <1>4, <2>1 DEF CreateRun, Runs!Create, Runs!work
  <2> QED BY <2>1, <2>2 DEF Runs!Next
<1>5. CASE ~(SkipDisabled(c) \/ SkipBackoff(c) \/ SkipDuplicate(c) \/ FailUnresolved(c) \/ \E r \in Run : CreateRun(c, r))
  <2>1. UNCHANGED <<up, status, taskOf, cancelled, attempts, collected, wpc, wrun>>
    BY <1>5 DEF CallerStep, RefreshTask, SaveRefreshed, ClaimDue, RefreshSubmitted, PassChecks, FindDuplicate,
       SubmitFuture, RegisterFuture, LookUpFuture, FutureResult, ReadResult
  <2> QED BY <1>1, <2>1 DEF Seen
<1> QED BY <1>2, <1>3, <1>4, <1>5

LEMMA WorkerRunsStep ==
    ASSUME IInv, WorkInv, ReturnInv, NEW w \in Worker, WorkerStep(w)
    PROVE  Runs!Next \/ UNCHANGED Seen
<1> USE DEF storeVars, callerVars, executorVars, workerVars, envVars, historyVars, MoveWorker
<1> DEFINE r == wrun[w]
<1>1. TypeOK /\ Ownership /\ \A v \in Worker \ {w} : wpc'[v] = wpc[v] /\ wrun'[v] = wrun[v]
  BY WorkersMoveAlone DEF IInv
<1>2. wpc[w] # "collecting" /\ wpc'[w] # "collecting" => Collecting' = Collecting
  BY <1>1, CollectingKept
<1>3. ASSUME wpc[w] \in Trying \ {"collecting"}, wpc'[w] # "collecting", NEW s, s \in {"queued", "failed"},
             status' = [status EXCEPT ![r] = s], s = "queued" => Runs!HasAttempt(r),
             UNCHANGED <<up, taskOf, cancelled, attempts, collected>>
      PROVE  Runs!Next
  <2>1. r \in Run /\ Runs!Unfinished(r)
    BY <1>3, TriedIsUnfinished
  <2>2. UNCHANGED Runs!work /\ Runs!Write(r, s)
    BY <1>2, <1>3 DEF Runs!work, Runs!Write
  <2>3. Runs!Requeue(r) \/ Runs!Fail(r)
    BY <1>3, <2>1, <2>2 DEF Runs!Requeue, Runs!Fail
  <2> QED BY <2>1, <2>3 DEF Runs!Next
<1>4. CASE FailMissingTask(w) \/ WriteFailure(w)
  <2>1. wpc[w] \in Trying \ {"collecting"} /\ wpc'[w] # "collecting"
    BY <1>1, <1>4 DEF FailMissingTask, WriteFailure, EndRun, Trying, Executing, WorkerState, TypeOK
  <2>2. status' = [status EXCEPT ![r] = "failed"] /\ UNCHANGED <<up, taskOf, cancelled, attempts, collected>>
    BY <1>4 DEF FailMissingTask, WriteFailure, FinishRun, EndRun
  <2> QED BY <1>3, <2>1, <2>2
<1>5. CASE MarkWaiting(w) \/ WriteRetry(w)
  <2>1. wpc[w] \in {"marking", "retrying"} /\ wpc'[w] # "collecting"
    BY <1>1, <1>5 DEF MarkWaiting, WriteRetry, TypeOK
  <2>2. status' = [status EXCEPT ![r] = "queued"] /\ UNCHANGED <<up, taskOf, cancelled, attempts, collected>>
    BY <1>5 DEF MarkWaiting, WriteRetry, MarkRun
  <2>3. wpc[w] \in Trying \ {"collecting"}
    BY <2>1 DEF Trying, Executing, WorkerState
  <2>4. Runs!HasAttempt(r)
    BY <2>1 DEF WorkInv, PhaseFits, Tries, Runs!HasAttempt
  <2> QED BY <1>3, <2>1, <2>2, <2>3, <2>4
<1>6. CASE StartRun(w)
  <2>1. /\ wpc[w] = "leased" /\ wpc'[w] = "collecting" /\ wrun'[w] = wrun[w]
        /\ status' = [status EXCEPT ![r] = "running"]
        /\ attempts' = [attempts EXCEPT ![r] = @ + 1]
        /\ UNCHANGED <<up, taskOf, cancelled, collected>>
    BY <1>1, <1>6 DEF StartRun, MarkRun, TypeOK
  <2>2. wpc[w] \in Trying \ {"collecting"} /\ wpc[w] \in Executing
    BY <2>1 DEF Trying, Executing, WorkerState
  <2>3. r \in Run /\ Runs!Unfinished(r)
    BY <2>2, TriedIsUnfinished
  <2>4. Runs!HasAttempt(r)
    BY <2>1 DEF WorkInv, PhaseFits, Tries, Runs!HasAttempt
  <2>5. Collecting' = Collecting \cup {r}
    BY <1>1, <2>1, CollectingJoined
  <2>6. r \in cancelled \/ \A q \in Collecting \ cancelled : taskOf[q] # taskOf[r]
    <3>1. r \notin Collecting
      BY <2>3 DEF Runs!Unfinished
    <3>2. ASSUME r \notin cancelled, NEW q \in Collecting \ cancelled PROVE taskOf[q] # taskOf[r]
      BY <2>2, <3>1, <3>2, CollectsAlone
    <3> QED BY <3>2
  <2>7. Runs!Begin(r)
    BY <2>1, <2>3, <2>4, <2>5, <2>6 DEF Runs!Begin, Runs!Write
  <2> HIDE DEF r
  <2>8. \E q \in Run : Runs!Begin(q)
    BY <2>3, <2>7
  <2> QED BY <2>8 DEF Runs!Next
<1>7. CASE CollectorReturns(w) \/ CollectorRaises(w)
  <2>1. /\ wpc[w] = "collecting" /\ wpc[w] \in Executing /\ wpc'[w] # "collecting"
        /\ collected' \in {collected, collected \cup {r}}
        /\ UNCHANGED <<up, status, taskOf, cancelled, attempts>>
    BY <1>1, <1>7 DEF CollectorReturns, CollectorRaises, StepWorker, Executing, WorkerState, TypeOK
  <2>2. r \in Run /\ r \in Collecting
    BY <2>1, ExecutedIsOpen DEF Collecting
  <2>3. Collecting' = Collecting \ {r}
    BY <1>1, <2>1, CollectingLeft
  <2>4. Runs!Stop(r)
    BY <2>1, <2>2, <2>3 DEF Runs!Stop
  <2> QED BY <2>2, <2>4 DEF Runs!Next
<1>8. CASE WriteSuccess(w)
  <2>1. /\ wpc[w] = "succeeding" /\ wpc[w] \in Executing /\ wpc'[w] # "collecting"
        /\ status' = [status EXCEPT ![r] = "success"]
        /\ UNCHANGED <<up, taskOf, cancelled, attempts, collected>>
    BY <1>1, <1>8 DEF WriteSuccess, FinishRun, EndRun, Executing, WorkerState, TypeOK
  <2>2. r \in Run /\ Runs!Open(r) /\ r \notin Collecting
    BY <2>1, ExecutedIsOpen
  <2>3. r \in collected
    BY <2>1 DEF WorkInv, PhaseFits
  <2>4. Runs!Succeed(r)
    BY <1>2, <2>1, <2>2, <2>3 DEF Runs!Succeed, Runs!Write, Runs!work
  <2> QED BY <2>2, <2>4 DEF Runs!Next
<1>9. CASE TakeRun(w) \/ AcquireLease(w) \/ ObserveWaiting(w) \/ FinishLease(w) \/ CheckCancelled(w)
           \/ InspectFailure(w) \/ ReleaseForRetry(w) \/ CloseFailed(w)
  <2>1. wpc[w] # "collecting" /\ wpc'[w] # "collecting"
    <3>1. CASE TakeRun(w) \/ AcquireLease(w) \/ ObserveWaiting(w) \/ ReleaseForRetry(w) \/ FinishLease(w)
      BY <1>1, <3>1 DEF TakeRun, AcquireLease, ObserveWaiting, ReleaseForRetry, FinishLease, StepWorker, TypeOK
    <3>2. CASE CheckCancelled(w) \/ InspectFailure(w) \/ CloseFailed(w)
      BY <1>1, <3>2 DEF CheckCancelled, InspectFailure, CloseFailed, EndRun, StepWorker, TypeOK
    <3> QED BY <1>9, <3>1, <3>2
  <2>2. UNCHANGED <<up, status, taskOf, cancelled, attempts, collected>>
    BY <1>9 DEF TakeRun, AcquireLease, ObserveWaiting, FinishLease, CheckCancelled, InspectFailure, ReleaseForRetry,
       CloseFailed, StepWorker, EndRun
  <2> QED BY <1>2, <2>1, <2>2 DEF Seen
<1> QED BY <1>4, <1>5, <1>6, <1>7, <1>8, <1>9 DEF WorkerStep

LEMMA RunsStep ==
    ASSUME IInv, WorkInv, ReturnInv, [Next]_vars
    PROVE  Runs!Next \/ UNCHANGED Seen
<1> USE DEF storeVars, callerVars, executorVars, workerVars, envVars, historyVars
<1>0. TypeOK /\ Ownership
  BY DEF IInv
<1>1. UNCHANGED <<wpc, wrun>> => Collecting' = Collecting
  BY DEF Collecting
<1>2. UNCHANGED <<up, status, taskOf, cancelled, attempts, collected, wpc, wrun>> => UNCHANGED Seen
  BY <1>1 DEF Seen
<1>3. ASSUME NEW r \in Run, WriteCancelled(r) PROVE Runs!Next
  <2>1. up /\ status[r] # "absent"
    BY <1>0, <1>3 DEF WriteCancelled, ReturnInv, Ownership, CancellingIsKnown
  <2>2. Runs!Cancel(r)
    BY <1>1, <1>3, <2>1 DEF WriteCancelled, FinishRun, Runs!Cancel, Runs!work
  <2> QED BY <2>2 DEF Runs!Next
<1>4. ASSUME Crash PROVE Runs!Next
  <2>1. Collecting' = {}
    BY <1>4 DEF Crash, Collecting
  <2>2. Runs!Down
    BY <1>4, <2>1 DEF Crash, Runs!Down
  <2> QED BY <2>2 DEF Runs!Next
<1>5. ASSUME RecoverInterruptedRuns PROVE Runs!Next
  <2>1. status' = [r \in Run |-> IF status[r] \in Active THEN "failed" ELSE status[r]]
    BY <1>5 DEF RecoverInterruptedRuns, Interrupted
  <2>2. ~up /\ up' = TRUE /\ UNCHANGED <<taskOf, cancelled, attempts, collected, wpc, wrun>>
    BY <1>5 DEF RecoverInterruptedRuns
  <2>3. Runs!Restart
    BY <1>1, <2>1, <2>2 DEF Runs!Restart, Runs!Active, Active, Runs!work
  <2> QED BY <2>3 DEF Runs!Next
<1>6. ASSUME NEW c \in Caller, NEW t \in Task, ReadTask(c, t) PROVE UNCHANGED Seen
  BY <1>2, <1>6 DEF ReadTask
<1>7. ASSUME NEW c \in Submitter, NEW t \in Task, NEW b \in BOOLEAN, SetEnabled(c, t, b) PROVE UNCHANGED Seen
  BY <1>2, <1>7 DEF SetEnabled
<1>8. ASSUME NEW t \in Task, DeleteTask(t) \/ BecomeDue(t) \/ FlipAvailable(t) PROVE UNCHANGED Seen
  BY <1>2, <1>8 DEF DeleteTask, BecomeDue, FlipAvailable
<1>9. ASSUME NEW r \in Run, CancelFuture(r) \/ BackoffExpires(r) PROVE UNCHANGED Seen
  BY <1>2, <1>9 DEF CancelFuture, BackoffExpires
<1>10. ASSUME UNCHANGED vars PROVE UNCHANGED Seen
  BY <1>2, <1>10 DEF vars
<1> QED BY <1>3, <1>4, <1>5, <1>6, <1>7, <1>8, <1>9, <1>10, CallerRunsStep, WorkerRunsStep
     DEF Next, ServiceNext, EnvironmentNext

LEMMA InitReturnInv == Init => ReturnInv
  BY DEF Init, ReturnInv, Trying, Executing

LEMMA ReturnInvStep == IInv /\ IInv' /\ WorkInv /\ ReturnInv /\ [Next]_vars => ReturnInv'
<1> SUFFICES ASSUME IInv, IInv', WorkInv, ReturnInv, [Next]_vars PROVE ReturnInv'
  OBVIOUS
<1>1. TypeOK /\ TypeOK' /\ Ownership
  BY DEF IInv
<1> QED BY <1>1, StepHasForm, StepHasRecordForm, ReturnStep

(***************************************************************************)
(* The scheduler implements TaskRuns: its threads, its file and its        *)
(* limiter do with the runs of a task only what the abstract scheduler may *)
(* do, one collector of a task at a time unless a run was cancelled.       *)
(***************************************************************************)
THEOREM SchedulerImplementsRuns == Spec => RunsSpec
<1>1. Init => Runs!Init
  BY DEF Init, Runs!Init, Collecting
<1>2. IInv /\ WorkInv /\ ReturnInv /\ [Next]_vars => [Runs!Next]_Seen
  BY RunsStep
<1>3. Init => WorkInv /\ ReturnInv
  BY InitWorkInv, InitReturnInv
<1>4. IInv /\ IInv' /\ WorkInv /\ ReturnInv /\ [Next]_vars => WorkInv' /\ ReturnInv'
  BY WorkInvStep, ReturnInvStep
<1> QED BY <1>1, <1>2, <1>3, <1>4, InductiveInvariant, PTL DEF Spec, RunsSpec, Runs!Spec, Seen
=============================================================================
