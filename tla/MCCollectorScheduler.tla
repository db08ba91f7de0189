------------------------ MODULE MCCollectorScheduler ------------------------
(***************************************************************************)
(* Instances of CollectorScheduler small enough for TLC: one task, one     *)
(* resource group of limit one, two workers, so that runs of the task meet *)
(* each other in the store, in the queue and at the limiter.  The model is *)
(* finite as it stands, because runs are never reused; Budget bounds how   *)
(* often the environment acts, to keep the product of its choices small.   *)
(***************************************************************************)
EXTENDS CollectorScheduler, TLC

CONSTANTS
    Budget,     \* how many events the environment has in all
    Allowed     \* the kinds of events it may use them for

VARIABLE budget

OneGroup == [t \in Task |-> "g"]
LimitOne == [g \in ResourceGroup |-> 1]
OneRetry == [t \in Task |-> 1]

Symmetry == Permutations(Run) \cup Permutations(Worker) \cup Permutations(Submitter)

Spend(kind) ==
    /\ kind \in Allowed
    /\ budget > 0
    /\ budget' = budget - 1

\* A call that would have no run id left to create is not started.
Fresh == {r \in Run : status[r] = "absent"}
Submitting == {c \in Caller : cpc[c] \in {"read", "claiming", "looked_up", "refreshed"}}
CanSubmit == Cardinality(Submitting) < Cardinality(Fresh)

MCInit == Init /\ budget = Budget

MCNext ==
    \/ \E c \in Caller : CallerStep(c) /\ UNCHANGED budget
    \/ \E c \in Submitter, t \in Task : CanSubmit /\ ReadTask(c, t) /\ UNCHANGED budget
    \/ \E r \in Run : WriteCancelled(r) /\ UNCHANGED budget
    \/ \E w \in Worker : WorkerStep(w) /\ UNCHANGED budget
    \/ RecoverInterruptedRuns /\ UNCHANGED budget
    \/ \E t \in Task : Spend("tick") /\ ReadTask(Ticker, t)
    \/ \E c \in Submitter, t \in Task, b \in BOOLEAN : Spend("operator") /\ SetEnabled(c, t, b)
    \/ \E t \in Task : Spend("operator") /\ DeleteTask(t)
    \/ \E t \in Task : Spend("clock") /\ BecomeDue(t)
    \/ \E r \in Run : Spend("clock") /\ BackoffExpires(r)
    \/ \E t \in Task : Spend("plugin") /\ FlipAvailable(t)
    \/ \E r \in Run : Spend("cancel") /\ CancelFuture(r)
    \/ Spend("crash") /\ Crash

MCSpec == MCInit /\ [][MCNext]_<<vars, budget>>
MCFairSpec == MCSpec /\ Fairness
=============================================================================
