------------------------------ MODULE TaskRuns ------------------------------
(***************************************************************************)
(* What a scheduler promises of the runs of its tasks, as their records    *)
(* and their collectors show it: a run that may be closed is one that is   *)
(* active or was cancelled; of the runs of one task nobody cancelled one   *)
(* collects at a time; a collector that returned is never called again,    *)
(* nor reported as failed unless the service was stopped; and a run that   *)
(* is queued again has an attempt left.                                    *)
(***************************************************************************)
EXTENDS Naturals

CONSTANTS Task, Run,
    NoTask,         \* the task of a run that does not exist
    MaxRetries      \* retries of each task

VARIABLES
    up,             \* the service is running
    status,         \* of each run
    taskOf,         \* the task of each run
    attempts,       \* how often its collector was called
    collecting,     \* runs whose collector is at work
    collected,      \* runs whose collector has returned
    cancelled       \* runs somebody cancelled

work == <<attempts, collecting, collected>>

Active == {"queued", "running"}

\* The record of the run may be written.
Open(r) == up /\ (status[r] \in Active \/ (status[r] # "absent" /\ r \in cancelled))

\* Nothing came of the run so far, and nobody is at it.
Unfinished(r) == Open(r) /\ r \notin collecting \cup collected

HasAttempt(r) == attempts[r] <= MaxRetries[taskOf[r]]

Write(r, s) ==
    /\ status' = [status EXCEPT ![r] = s]
    /\ UNCHANGED <<up, taskOf, cancelled>>

Init ==
    /\ up = TRUE
    /\ status = [r \in Run |-> "absent"]
    /\ taskOf = [r \in Run |-> NoTask]
    /\ attempts = [r \in Run |-> 0]
    /\ collecting = {}
    /\ collected = {}
    /\ cancelled = {}

Create(r, t) ==
    /\ up
    /\ status[r] = "absent"
    /\ status' = [status EXCEPT ![r] = "queued"]
    /\ taskOf' = [taskOf EXCEPT ![r] = t]
    /\ UNCHANGED <<up, cancelled, work>>

Skip(r) == Unfinished(r) /\ attempts[r] = 0 /\ Write(r, "skipped") /\ UNCHANGED work

Requeue(r) == Unfinished(r) /\ HasAttempt(r) /\ Write(r, "queued") /\ UNCHANGED work

\* Its collector is called, while that of no other run of the task is at work.
Begin(r) ==
    /\ Unfinished(r) /\ HasAttempt(r)
    /\ r \in cancelled \/ \A q \in collecting \ cancelled : taskOf[q] # taskOf[r]
    /\ Write(r, "running")
    /\ attempts' = [attempts EXCEPT ![r] = @ + 1]
    /\ collecting' = collecting \cup {r}
    /\ UNCHANGED collected

\* The collector returns or raises.
Stop(r) ==
    /\ r \in collecting
    /\ collecting' = collecting \ {r}
    /\ collected' \in {collected, collected \cup {r}}
    /\ UNCHANGED <<up, status, taskOf, cancelled, attempts>>

Succeed(r) == Open(r) /\ r \in collected \ collecting /\ Write(r, "success") /\ UNCHANGED work

Fail(r) == Unfinished(r) /\ Write(r, "failed") /\ UNCHANGED work

Cancel(r) ==
    /\ up
    /\ status[r] # "absent"
    /\ status' = [status EXCEPT ![r] = "cancelled"]
    /\ cancelled' = cancelled \cup {r}
    /\ UNCHANGED <<up, taskOf, work>>

\* The service stops with all collectors, and fails what was active when it starts again.
Down ==
    /\ up
    /\ up' = FALSE
    /\ collecting' = {}
    /\ UNCHANGED <<status, taskOf, attempts, collected, cancelled>>

Restart ==
    /\ ~up
    /\ up' = TRUE
    /\ status' = [r \in Run |-> IF status[r] \in Active THEN "failed" ELSE status[r]]
    /\ UNCHANGED <<taskOf, cancelled, work>>

Next ==
    \/ \E r \in Run, t \in Task : Create(r, t)
    \/ \E r \in Run :
          \/ Skip(r) \/ Requeue(r) \/ Begin(r) \/ Stop(r)
          \/ Succeed(r) \/ Fail(r) \/ Cancel(r)
    \/ Down \/ Restart

Spec == Init /\ [][Next]_<<up, status, taskOf, attempts, collecting, collected, cancelled>>
=============================================================================
